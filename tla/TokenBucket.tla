---------------------------- MODULE TokenBucket ----------------------------
(***************************************************************************)
(* core/rate_limiter.py, TokenBucket: one quota shared by threads.         *)
(*                                                                         *)
(* acquire() tries, computes how long it would have to wait under a second *)
(* lock, and sleeps: between the two others take tokens and time passes.   *)
(* Tokens are counted in units, Unit to a token, so that Rate units come   *)
(* with every tick of the clock.  No absolute time is kept: clocks run up  *)
(* to the point from which on the code no longer tells them apart.         *)
(***************************************************************************)
EXTENDS Integers

CONSTANTS
  Callers,    \* threads that acquire one token each
  Capacity,   \* in units
  Unit,       \* units of one token
  Rate,       \* units per tick (refill_per_second)
  Timeout     \* timeout_s, in ticks

VARIABLES
  tokens,     \* _tokens, in units
  since,      \* now - _updated_at
  waiter,     \* per caller: where it is in acquire, the time to its deadline and
              \* the time left to sleep
  load        \* history: the most, over all starting points, of the units taken
              \* since then less the units that came since then

bucket == <<tokens, since, waiter, load>>

Full == Capacity \div Rate + 1       \* a tick count that fills any bucket
Longest == Unit \div Rate + 1
Out == [at |-> "out", left |-> 0, nap |-> 0]
Least(a, b) == IF a < b THEN a ELSE b
Most(a, b) == IF a > b THEN a ELSE b

BucketInit ==
  /\ tokens = Capacity /\ since = 0 /\ load = 0
  /\ waiter = [c \in Callers |-> Out]

\* _refill_locked: what the bucket holds now.
Refilled == Least(Capacity, tokens + since * Rate)

\* acquire: the deadline is set.
Ask(c) ==
  /\ waiter[c].at = "out"
  /\ waiter' = [waiter EXCEPT ![c] = [at |-> "trying", left |-> Timeout, nap |-> 0]]
  /\ UNCHANGED <<tokens, since, load>>

\* Mutant: taking forgets when the bucket was last filled.
TakeUndated(c) ==
  /\ waiter[c].at = "trying" /\ Refilled >= Unit
  /\ tokens' = Refilled - Unit /\ since' = since
  /\ load' = load + Unit
  /\ waiter' = [waiter EXCEPT ![c].at = "granted"]

\* try_acquire returns True.
Take(c) ==
  /\ waiter[c].at = "trying" /\ Refilled >= Unit
  /\ tokens' = Refilled - Unit /\ since' = 0
  /\ load' = load + Unit
  /\ waiter' = [waiter EXCEPT ![c].at = "granted"]

\* try_acquire returns False.
Short(c) ==
  /\ waiter[c].at = "trying" /\ Refilled < Unit
  /\ tokens' = Refilled /\ since' = 0
  /\ waiter' = [waiter EXCEPT ![c].at = "short"]
  /\ UNCHANGED load

\* time_until_available, rounded up to ticks.
Wait == Most(0, (Unit - Refilled + Rate - 1) \div Rate)
Hopeless(c) == waiter[c].left = 0 \/ Wait > waiter[c].left

\* acquire sleeps: even without a deficit it gives up its turn.
Sleep(c) ==
  /\ waiter[c].at = "short" /\ ~ Hopeless(c)
  /\ tokens' = Refilled /\ since' = 0
  /\ waiter' = [waiter EXCEPT ![c].at = "asleep", ![c].nap = Wait]
  /\ UNCHANGED load

\* RateLimitExceededError.
GiveUp(c) ==
  /\ waiter[c].at = "short" /\ Hopeless(c)
  /\ tokens' = Refilled /\ since' = 0
  /\ waiter' = [waiter EXCEPT ![c].at = "refused"]
  /\ UNCHANGED load

\* Mutant: a woken caller starts with a new deadline.
WakeAnew(c) ==
  /\ waiter[c].at = "asleep" /\ waiter[c].nap = 0
  /\ waiter' = [waiter EXCEPT ![c] = [at |-> "trying", left |-> Timeout, nap |-> 0]]
  /\ UNCHANGED <<tokens, since, load>>

Wake(c) ==
  /\ waiter[c].at = "asleep" /\ waiter[c].nap = 0
  /\ waiter' = [waiter EXCEPT ![c].at = "trying"]
  /\ UNCHANGED <<tokens, since, load>>

\* The caller leaves acquire.
Leave(c) ==
  /\ waiter[c].at \in {"granted", "refused"}
  /\ waiter' = [waiter EXCEPT ![c] = Out]
  /\ UNCHANGED <<tokens, since, load>>

\* The clock: every deadline and every nap is a tick closer.
Pass ==
  /\ since' = Least(Full, since + 1)
  /\ load' = Most(0, load - Rate)
  /\ waiter' = [c \in Callers |->
       [waiter[c] EXCEPT !.left = Most(0, @ - 1), !.nap = Most(0, @ - 1)]]
  /\ UNCHANGED tokens

Acquiring(c) == Take(c) \/ Short(c) \/ Sleep(c) \/ GiveUp(c) \/ Wake(c)

BucketNext == Pass \/ \E c \in Callers : Ask(c) \/ Acquiring(c) \/ Leave(c)

BucketSpec == BucketInit /\ [][BucketNext]_bucket

----------------------------------------------------------------------------
(* Properties. *)

BucketTypeOK ==
  /\ tokens \in 0..Capacity /\ since \in 0..Full /\ load \in 0..Capacity
  /\ waiter \in [Callers -> [at : {"out", "trying", "short", "asleep", "granted", "refused"},
                             left : 0..Timeout, nap : 0..Longest]]

\* What was taken lately and what is left never exceed a full bucket: the reason
\* why the quota is kept.
LoadCovered == load + Refilled <= Capacity
=============================================================================
