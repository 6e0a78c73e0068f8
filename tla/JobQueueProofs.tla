--------------------------- MODULE JobQueueProofs ---------------------------
(***************************************************************************)
(* What holds of JobQueue for every number of projects, callers, worker    *)
(* threads, job ids and every bound: types, no twin runs, one run at a     *)
(* time, exactly-once delivery to the worker, and that the queue           *)
(* implements RunQueue.                                                    *)
(***************************************************************************)
EXTENDS JobQueue, TLAPS, SequenceTheorems, FiniteSetTheorems, WellFoundedInduction

----------------------------------------------------------------------------
(* Sequences without repetition. *)

Distinct(s) == \A i, k \in DOMAIN s : s[i] = s[k] => i = k

\* A nonempty set of naturals has a least element.
LEMMA LeastNatural ==
  ASSUME NEW T, T \subseteq Nat, T # {}
  PROVE  \E x \in T : \A y \in T : x <= y
<1> DEFINE R == OpToRel(<, Nat)
<1>1. PICK x \in T : \A y \in T : ~ (<<y, x>> \in R)
  BY NatLessThanWellFounded, WFMin, Zenon
<1>2. ASSUME NEW y \in T PROVE x <= y
  <2>1. <<y, x>> \in R <=> y < x
    BY DEF OpToRel
  <2> HIDE DEF R
  <2>2. ~ (y < x)
    BY <1>1, <2>1
  <2> QED BY <2>2
<1> QED BY <1>2

\* What Append does to the range of a sequence without repetition.
LEMMA AppendRange ==
  ASSUME NEW S, NEW s \in Seq(S), NEW e \in S
  PROVE  /\ Append(s, e) \in Seq(S)
         /\ ToSet(Append(s, e)) = ToSet(s) \cup {e}
         /\ Distinct(s) /\ e \notin ToSet(s) => Distinct(Append(s, e))
<1>1. DOMAIN s = 1..Len(s) /\ DOMAIN Append(s, e) = 1..(Len(s) + 1) /\ Len(s) \in Nat
  OBVIOUS
<1>2. Append(s, e)[Len(s) + 1] = e /\ \A i \in 1..Len(s) : Append(s, e)[i] = s[i]
  OBVIOUS
<1>3. ASSUME NEW x, x \in ToSet(Append(s, e)) PROVE x \in ToSet(s) \cup {e}
  BY <1>1, <1>2, <1>3 DEF ToSet
<1>4. e \in ToSet(Append(s, e))
  BY <1>1, <1>2 DEF ToSet
<1>5. ASSUME NEW x, x \in ToSet(s) PROVE x \in ToSet(Append(s, e))
  BY <1>1, <1>2, <1>5 DEF ToSet
<1>6. ASSUME Distinct(s), e \notin ToSet(s) PROVE Distinct(Append(s, e))
  BY <1>1, <1>2, <1>6 DEF Distinct, ToSet
<1> QED BY <1>3, <1>4, <1>5, <1>6

\* What Head and Tail take from a nonempty sequence without repetition.
LEMMA TailRange ==
  ASSUME NEW S, NEW s \in Seq(S), s # <<>>, Distinct(s)
  PROVE  /\ Head(s) \in S /\ Head(s) \in ToSet(s)
         /\ Tail(s) \in Seq(S)
         /\ ToSet(Tail(s)) = ToSet(s) \ {Head(s)}
         /\ Distinct(Tail(s))
<1>1. /\ Tail(s) \in Seq(S) /\ Len(s) \in Nat \ {0}
      /\ DOMAIN s = 1..Len(s) /\ DOMAIN Tail(s) = 1..(Len(s) - 1)
      /\ \A i \in 1..(Len(s) - 1) : Tail(s)[i] = s[i + 1]
      /\ Head(s) = s[1]
  OBVIOUS
<1>2. Head(s) \in S /\ Head(s) \in ToSet(s)
  BY <1>1 DEF ToSet
<1>3. ASSUME NEW x, x \in ToSet(Tail(s)) PROVE x \in ToSet(s) \ {Head(s)}
  <2>1. PICK i \in 1..(Len(s) - 1) : x = s[i + 1]
    BY <1>1, <1>3 DEF ToSet
  <2>2. i + 1 \in DOMAIN s /\ 1 \in DOMAIN s /\ i + 1 # 1
    BY <1>1
  <2> QED BY <1>1, <2>1, <2>2 DEF ToSet, Distinct
<1>4. ASSUME NEW x, x \in ToSet(s) \ {Head(s)} PROVE x \in ToSet(Tail(s))
  <2>1. PICK i \in 1..Len(s) : x = s[i] /\ i # 1
    BY <1>1, <1>4 DEF ToSet
  <2>2. i - 1 \in 1..(Len(s) - 1) /\ Tail(s)[i - 1] = s[(i - 1) + 1] /\ (i - 1) + 1 = i
    BY <1>1, <2>1
  <2> QED BY <1>1, <2>1, <2>2 DEF ToSet
<1>5. Distinct(Tail(s))
  <2> SUFFICES ASSUME NEW i \in 1..(Len(s) - 1), NEW k \in 1..(Len(s) - 1), s[i + 1] = s[k + 1]
               PROVE  i = k
    BY <1>1 DEF Distinct
  <2>1. i + 1 \in DOMAIN s /\ k + 1 \in DOMAIN s
    BY <1>1
  <2>2. i + 1 = k + 1
    BY <2>1 DEF Distinct
  <2> QED BY <2>2
<1> QED BY <1>1, <1>2, <1>3, <1>4, <1>5

\* The elements of a sequence with one position removed.
LEMMA RemoveAtElements ==
  ASSUME NEW S, NEW s \in Seq(S), NEW i \in 1..Len(s)
  PROVE  /\ RemoveAt(s, i) \in Seq(S)
         /\ Len(RemoveAt(s, i)) = Len(s) - 1
         /\ \A k \in 1..(Len(s) - 1) : RemoveAt(s, i)[k] = IF k < i THEN s[k] ELSE s[k + 1]
<1> DEFINE a == SubSeq(s, 1, i - 1)
           b == SubSeq(s, i + 1, Len(s))
<1>1. a \in Seq(S) /\ Len(a) = i - 1 /\ \A k \in 1..(i - 1) : a[k] = s[k]
  OBVIOUS
<1>2. b \in Seq(S) /\ Len(b) = Len(s) - i /\ \A k \in 1..(Len(s) - i) : b[k] = s[k + i]
  <2>1. b \in Seq(S)
    OBVIOUS
  <2>2. Len(b) = Len(s) - i
    OBVIOUS
  <2>3. ASSUME NEW k \in 1..(Len(s) - i) PROVE b[k] = s[k + i]
    OBVIOUS
  <2> QED BY <2>1, <2>2, <2>3
<1>3. RemoveAt(s, i) = a \o b
  BY DEF RemoveAt
<1> HIDE DEF a, b
<1>4. Len(s) \in Nat /\ i \in Nat
  OBVIOUS
<1>5. /\ a \o b \in Seq(S)
      /\ Len(a \o b) = Len(a) + Len(b)
      /\ \A k \in 1..(Len(a) + Len(b)) : (a \o b)[k] = IF k <= Len(a) THEN a[k] ELSE b[k - Len(a)]
  BY <1>1, <1>2, ConcatProperties
<1>6. Len(a) + Len(b) = Len(s) - 1
  BY <1>1, <1>2, <1>4
<1>7. ASSUME NEW k \in 1..(Len(s) - 1) PROVE (a \o b)[k] = IF k < i THEN s[k] ELSE s[k + 1]
  <2>1. CASE k < i
    BY <2>1, <1>1, <1>4, <1>5, <1>6
  <2>2. CASE ~ (k < i)
    <3>1. (a \o b)[k] = b[k - Len(a)]
      BY <2>2, <1>1, <1>4, <1>5, <1>6
    <3>2. k - Len(a) = k - i + 1 /\ k - i + 1 \in 1..(Len(s) - i)
      BY <2>2, <1>1, <1>4
    <3>3. b[k - i + 1] = s[k - i + 1 + i] /\ k - i + 1 + i = k + 1
      BY <3>2, <1>2, <1>4
    <3> QED BY <3>1, <3>2, <3>3, <2>2
  <2> QED BY <2>1, <2>2
<1> QED BY <1>3, <1>5, <1>6, <1>7

\* Removing one position of a sequence without repetition removes its element.
LEMMA RemoveAtRange ==
  ASSUME NEW S, NEW s \in Seq(S), Distinct(s), NEW i \in DOMAIN s
  PROVE  /\ RemoveAt(s, i) \in Seq(S)
         /\ ToSet(RemoveAt(s, i)) = ToSet(s) \ {s[i]}
         /\ Distinct(RemoveAt(s, i))
<1> DEFINE r == RemoveAt(s, i)
           from(k) == IF k < i THEN k ELSE k + 1
<1>1. DOMAIN s = 1..Len(s) /\ Len(s) \in Nat /\ i \in 1..Len(s)
  OBVIOUS
<1>2. /\ r \in Seq(S) /\ DOMAIN r = 1..(Len(s) - 1)
      /\ \A k \in 1..(Len(s) - 1) : r[k] = s[from(k)]
  <2>1. /\ r \in Seq(S) /\ Len(r) = Len(s) - 1
        /\ \A k \in 1..(Len(s) - 1) : r[k] = IF k < i THEN s[k] ELSE s[k + 1]
    BY <1>1, RemoveAtElements
  <2> HIDE DEF r
  <2>2. DOMAIN r = 1..(Len(s) - 1)
    BY <2>1
  <2>3. ASSUME NEW k \in 1..(Len(s) - 1) PROVE r[k] = s[from(k)]
    <3>1. CASE k < i
      BY <2>1, <3>1
    <3>2. CASE ~ (k < i)
      BY <2>1, <3>2
    <3> QED BY <3>1, <3>2
  <2> QED BY <2>1, <2>2, <2>3
<1>3. \A k \in 1..(Len(s) - 1) : from(k) \in 1..Len(s) /\ from(k) # i
  <2> TAKE k \in 1..(Len(s) - 1)
  <2>1. k \in Int /\ i \in Int /\ Len(s) \in Int /\ 1 <= k /\ k <= Len(s) - 1 /\ 1 <= i /\ i <= Len(s)
    BY <1>1
  <2> QED BY <2>1
<1>4. \A k, l \in 1..(Len(s) - 1) : from(k) = from(l) => k = l
  <2> TAKE k, l \in 1..(Len(s) - 1)
  <2>1. k \in Int /\ l \in Int /\ i \in Int
    BY <1>1
  <2> QED BY <2>1
<1>5. \A m \in 1..Len(s) : m # i => \E k \in 1..(Len(s) - 1) : from(k) = m
  <2> SUFFICES ASSUME NEW m \in 1..Len(s), m # i
               PROVE  \E k \in 1..(Len(s) - 1) : from(k) = m
    OBVIOUS
  <2>1. CASE m < i
    BY <2>1, <1>1
  <2>2. CASE m > i
    <3>1. m - 1 \in 1..(Len(s) - 1) /\ from(m - 1) = m
      BY <2>2, <1>1
    <3> QED BY <3>1
  <2> QED BY <2>1, <2>2, <1>1
<1> HIDE DEF r, from
<1>6. ASSUME NEW x, x \in ToSet(r) PROVE x \in ToSet(s) \ {s[i]}
  <2>1. PICK k \in 1..(Len(s) - 1) : x = s[from(k)]
    BY <1>2, <1>6 DEF ToSet
  <2> QED BY <1>1, <1>3, <2>1 DEF ToSet, Distinct
<1>7. ASSUME NEW x, x \in ToSet(s) \ {s[i]} PROVE x \in ToSet(r)
  <2>1. PICK m \in 1..Len(s) : x = s[m] /\ m # i
    BY <1>1, <1>7 DEF ToSet
  <2> QED BY <1>2, <1>5, <2>1 DEF ToSet
<1>8. Distinct(r)
  BY <1>1, <1>2, <1>3, <1>4 DEF Distinct
<1> QED BY <1>2, <1>6, <1>7, <1>8 DEF r

----------------------------------------------------------------------------
(* The inductive invariant. *)

\* _order lists the keys of _jobs, each once.
OrderInv == /\ Distinct(order)
            /\ Listed = {j \in Jobs : state[j] # "none"}
            /\ \A j \in Jobs : state[j] # "none" => asked[j] \in Keys

\* A caller that took the lock asks for a key; one that listed a job holds it.
CallerInv == \A c \in Callers :
  /\ pc[c] = "found" => want[c] \in Keys
  /\ pc[c] = "listed" <=> hand[c] # NoJob
  /\ hand[c] # NoJob => /\ state[hand[c]] = "queued"
                        /\ \A d \in Callers : hand[d] = hand[c] => d = c

\* _queue holds waiting jobs that no caller holds, each once.
QueueInv == /\ Distinct(queue)
            /\ \A j \in ToSet(queue) : state[j] = "queued" /\ \A c \in Callers : hand[c] # j

\* The one live thread is _worker.  The job it took is waiting and nowhere
\* else; the job it runs is running.
ThreadInv == \A t \in Threads :
  /\ at[t] # "off" => worker = t
  /\ at[t] \in {"took", "run"} <=> cur[t] # NoJob
  /\ at[t] = "took" => /\ state[cur[t]] = "queued"
                       /\ cur[t] \notin ToSet(queue)
                       /\ \A c \in Callers : hand[c] # cur[t]
  /\ at[t] = "run" => state[cur[t]] = "running"

\* No waiting job is lost, and a running job has its thread.
JobInv == \A j \in Jobs :
  /\ state[j] = "queued" => \/ \E c \in Callers : hand[c] = j
                            \/ j \in ToSet(queue)
                            \/ \E t \in Threads : at[t] = "took" /\ cur[t] = j
  /\ state[j] = "running" => \E t \in Threads : at[t] = "run" /\ cur[t] = j

\* Active jobs ask for different things.
TwinInv == \A i, j \in Jobs :
  state[i] \in Active /\ state[j] \in Active /\ asked[i] = asked[j] => i = j

IInv == TypeOK /\ OrderInv /\ CallerInv /\ QueueInv /\ ThreadInv /\ JobInv /\ TwinInv

----------------------------------------------------------------------------
(* The invariant is kept. *)

\* What _trim() forgets are jobs that ended.
LEMMA TrimEffect ==
  ASSUME ConstantsAssumption, NEW o \in Seq(Jobs), Distinct(o), NEW s \in [Jobs -> States]
  PROVE  /\ Forgotten(o, s) \subseteq Jobs
         /\ \A j \in Forgotten(o, s) : s[j] \in Ended
         /\ Trimmed(o, s) \in Seq(Jobs) /\ Distinct(Trimmed(o, s))
         /\ ToSet(Trimmed(o, s)) = ToSet(o) \ Forgotten(o, s)
<1> DEFINE m == OldestEnded(o, s)
<1>1. CASE Overfull(o, s)
  <2>1. EndedAt(o, s) # {}
    <3>1. SUFFICES ASSUME EndedAt(o, s) = {} PROVE FALSE
      OBVIOUS
    <3>2. Cardinality(EndedAt(o, s)) = 0
      BY <3>1, FS_EmptySet
    <3> QED BY <1>1, <3>2 DEF ConstantsAssumption, Overfull
  <2>2. EndedAt(o, s) \subseteq Nat
    BY DEF EndedAt
  <2>3. m \in EndedAt(o, s)
    BY <2>1, <2>2, LeastNatural DEF OldestEnded
  <2>4. m \in DOMAIN o /\ o[m] \in Jobs /\ s[o[m]] \in Ended
    BY <2>3 DEF EndedAt
  <2>5. Trimmed(o, s) = RemoveAt(o, m) /\ Forgotten(o, s) = {o[m]}
    BY <1>1 DEF Trimmed, Forgotten
  <2> HIDE DEF m
  <2> QED BY <2>4, <2>5, RemoveAtRange
<1>2. CASE ~ Overfull(o, s)
  BY <1>2 DEF Trimmed, Forgotten
<1> QED BY <1>1, <1>2

\* The invariant holds of an empty queue.
LEMMA InitInvariant == ConstantsAssumption /\ Init => IInv
<1> SUFFICES ASSUME ConstantsAssumption, Init PROVE IInv
  OBVIOUS
<1>1. ToSet(<<>>) = {} /\ Distinct(<<>>)
  BY DEF ToSet, Distinct
<1>2. TypeOK
  BY DEF Init, TypeOK, ConstantsAssumption, States
<1>3. OrderInv /\ QueueInv
  BY <1>1 DEF Init, OrderInv, QueueInv, Listed
<1>4. CallerInv /\ ThreadInv /\ JobInv /\ TwinInv
  BY DEF Init, CallerInv, ThreadInv, JobInv, TwinInv, Active
<1> QED BY <1>2, <1>3, <1>4 DEF IInv

\* A restart empties the queue.
LEMMA RestartKeeps == ASSUME ConstantsAssumption, IInv, Restart PROVE IInv'
<1>1. ToSet(<<>>) = {} /\ Distinct(<<>>)
  BY DEF ToSet, Distinct
<1>2. TypeOK'
  BY DEF Restart, TypeOK, IInv, ConstantsAssumption, States
<1>3. OrderInv' /\ QueueInv'
  BY <1>1 DEF Restart, OrderInv, QueueInv, Listed
<1>4. CallerInv' /\ ThreadInv' /\ JobInv' /\ TwinInv'
  BY DEF Restart, CallerInv, ThreadInv, JobInv, TwinInv, Active
<1> QED BY <1>2, <1>3, <1>4 DEF IInv

\* Steps of a caller that only read the queue's state.
CallerStep(c) == Request(c) \/ Coalesce(c) \/ Refuse(c)

\* submit keeps the invariant until it lists a job.
LEMMA CallerStepKeeps ==
  ASSUME ConstantsAssumption, IInv, NEW c \in Callers, CallerStep(c)
  PROVE  IInv'
<1>1. /\ UNCHANGED <<registered, order, state, asked, queue, hand, worker, at, cur, restarts>>
      /\ todo' \in {todo, {}}
      /\ \/ /\ pc[c] = "idle"
            /\ \E k \in Keys : /\ pc' = [pc EXCEPT ![c] = "found"]
                               /\ want' = [want EXCEPT ![c] = k]
         \/ pc[c] = "found" /\ Leave(c)
  BY DEF CallerStep, Request, Coalesce, Refuse, Lookup, jobVars, threadVars
<1>2. TypeOK'
  BY <1>1 DEF TypeOK, IInv, Leave
<1>3. OrderInv' /\ QueueInv' /\ JobInv' /\ TwinInv' /\ ThreadInv'
  BY <1>1 DEF IInv, OrderInv, QueueInv, JobInv, TwinInv, ThreadInv, Listed
<1>4. CallerInv'
  BY <1>1 DEF IInv, CallerInv, Leave, TypeOK
<1> QED BY <1>2, <1>3, <1>4 DEF IInv

\* So does the pass of the poller.
LEMMA PollKeeps ==
  ASSUME ConstantsAssumption, IInv, Poll
  PROVE  IInv'
<1>1. /\ UNCHANGED <<registered, order, state, asked, queue, hand, worker, at, cur, restarts>>
      /\ todo' \subseteq Projects
      /\ \/ UNCHANGED <<pc, want>>
         \/ /\ pc[Poller] = "idle"
            /\ \E k \in Keys : /\ pc' = [pc EXCEPT ![Poller] = "found"]
                               /\ want' = [want EXCEPT ![Poller] = k]
  BY DEF Poll, PollPass, PollNext, Lookup, jobVars, threadVars, IInv, TypeOK, Keys, ConstantsAssumption
<1>2. TypeOK'
  BY <1>1 DEF TypeOK, IInv
<1>3. OrderInv' /\ QueueInv' /\ JobInv' /\ TwinInv' /\ ThreadInv'
  BY <1>1 DEF IInv, OrderInv, QueueInv, JobInv, TwinInv, ThreadInv, Listed
<1>4. CallerInv'
  BY <1>1 DEF IInv, CallerInv, TypeOK
<1> QED BY <1>2, <1>3, <1>4 DEF IInv

\* What Admit leaves: the new job, and every other active job as it was.
LEMMA AdmitEffect ==
  ASSUME ConstantsAssumption, IInv, NEW c \in Callers, Admit(c)
  PROVE  \E j \in Jobs :
           /\ state[j] = "none" /\ j \notin ToSet(queue)
           /\ \A d \in Callers : hand[d] # j
           /\ \A t \in Threads : cur[t] # j
           /\ hand' = [hand EXCEPT ![c] = j]
           /\ order' \in Seq(Jobs) /\ Distinct(order')
           /\ state' \in [Jobs -> States] /\ asked' \in [Jobs -> Keys \cup {NoKey}]
           /\ ToSet(order') = {i \in Jobs : state'[i] # "none"}
           /\ \A i \in Jobs : state'[i] # "none" => asked'[i] \in Keys
           /\ state'[j] = "queued" /\ asked'[j] = want[c]
           /\ \A i \in Jobs \ {j} : state[i] \in Active \/ state'[i] \in Active
                                      => state'[i] = state[i] /\ asked'[i] = asked[i]
<1>1. PICK j \in Fresh :
        /\ Save(Append(order, j), [state EXCEPT ![j] = "queued"], [asked EXCEPT ![j] = want[c]])
        /\ hand' = [hand EXCEPT ![c] = j]
  BY DEF Admit
<1>2. want[c] \in Keys
  BY DEF Admit, IInv, CallerInv
<1>3. /\ j \in Jobs /\ j \notin Listed /\ j \notin ToSet(queue) /\ state[j] = "none"
      /\ \A d \in Callers : hand[d] # j
      /\ \A t \in Threads : cur[t] # j
  BY DEF Fresh, IInv, OrderInv
<1> DEFINE o == Append(order, j)
           s == [state EXCEPT ![j] = "queued"]
           a == [asked EXCEPT ![j] = want[c]]
           F == Forgotten(o, s)
<1>4. o \in Seq(Jobs) /\ Distinct(o) /\ ToSet(o) = Listed \cup {j}
  BY <1>3, AppendRange DEF IInv, TypeOK, OrderInv, Listed
<1>5. s \in [Jobs -> States] /\ a \in [Jobs -> Keys \cup {NoKey}]
  BY <1>2, <1>3 DEF IInv, TypeOK, States
<1>6. /\ order' = Trimmed(o, s)
      /\ state' = [i \in Jobs |-> IF i \in F THEN "none" ELSE s[i]]
      /\ asked' = [i \in Jobs |-> IF i \in F THEN NoKey ELSE a[i]]
  BY <1>1 DEF Save
<1> HIDE DEF o
<1>7. /\ s[j] = "queued" /\ a[j] = want[c]
      /\ \A i \in Jobs \ {j} : s[i] = state[i] /\ a[i] = asked[i]
  BY <1>3 DEF IInv, TypeOK
<1> HIDE DEF s, a
<1>8. /\ F \subseteq Jobs /\ \A i \in F : s[i] \in Ended
      /\ order' \in Seq(Jobs) /\ Distinct(order') /\ ToSet(order') = ToSet(o) \ F
  BY <1>4, <1>5, <1>6, TrimEffect
<1> HIDE DEF F
<1>9. state' \in [Jobs -> States] /\ asked' \in [Jobs -> Keys \cup {NoKey}]
  BY <1>5, <1>6 DEF States
<1>10. state'[j] = "queued" /\ asked'[j] = want[c]
  BY <1>3, <1>6, <1>7, <1>8 DEF Ended
<1>11. ToSet(order') = {i \in Jobs : state'[i] # "none"}
  BY <1>3, <1>4, <1>6, <1>7, <1>8 DEF IInv, OrderInv, Ended
<1>12. \A i \in Jobs : state'[i] # "none" => asked'[i] \in Keys
  BY <1>2, <1>6, <1>7, <1>10 DEF IInv, OrderInv
<1>13. \A i \in Jobs \ {j} : state[i] \in Active \/ state'[i] \in Active
                               => state'[i] = state[i] /\ asked'[i] = asked[i]
  BY <1>6, <1>7, <1>8 DEF Active, Ended
<1> QED BY <1>1, <1>3, <1>8, <1>9, <1>10, <1>11, <1>12, <1>13

\* The listed job is new, is held by its caller, and has no twin.
LEMMA AdmitKeeps ==
  ASSUME ConstantsAssumption, IInv, NEW c \in Callers, Admit(c)
  PROVE  IInv'
<1>1. PICK j \in Jobs :
           /\ state[j] = "none" /\ j \notin ToSet(queue)
           /\ \A d \in Callers : hand[d] # j
           /\ \A t \in Threads : cur[t] # j
           /\ hand' = [hand EXCEPT ![c] = j]
           /\ order' \in Seq(Jobs) /\ Distinct(order')
           /\ state' \in [Jobs -> States] /\ asked' \in [Jobs -> Keys \cup {NoKey}]
           /\ ToSet(order') = {i \in Jobs : state'[i] # "none"}
           /\ \A i \in Jobs : state'[i] # "none" => asked'[i] \in Keys
           /\ state'[j] = "queued" /\ asked'[j] = want[c]
           /\ \A i \in Jobs \ {j} : state[i] \in Active \/ state'[i] \in Active
                                      => state'[i] = state[i] /\ asked'[i] = asked[i]
  BY AdmitEffect
<1>2. /\ pc[c] = "found" /\ pc' = [pc EXCEPT ![c] = "listed"]
      /\ want' = [want EXCEPT ![c] = NoKey]
      /\ UNCHANGED <<registered, queue, todo, worker, at, cur, restarts>>
      /\ \A i \in Listed : ~ (state[i] \in Active /\ asked[i] = want[c])
  BY DEF Admit, threadVars, Twins
<1>3. TypeOK'
  BY <1>1, <1>2 DEF TypeOK, IInv
<1>4. OrderInv'
  BY <1>1 DEF OrderInv, Listed
<1>5. CallerInv'
  BY <1>1, <1>2 DEF IInv, CallerInv, TypeOK, Active, ConstantsAssumption
<1>6. QueueInv'
  BY <1>1, <1>2 DEF IInv, QueueInv, TypeOK, Active, ToSet
<1>7. ThreadInv'
  BY <1>1, <1>2 DEF IInv, ThreadInv, TypeOK, Active
<1>8. JobInv'
  BY <1>1, <1>2 DEF IInv, JobInv, CallerInv, TypeOK, Active, ConstantsAssumption
<1>9. TwinInv'
  BY <1>1, <1>2 DEF IInv, TwinInv, OrderInv, Active
<1> QED BY <1>3, <1>4, <1>5, <1>6, <1>7, <1>8, <1>9 DEF IInv

\* The job goes from its caller to the queue, and nowhere else.
LEMMA PutKeeps ==
  ASSUME ConstantsAssumption, IInv, NEW c \in Callers, Put(c)
  PROVE  IInv'
<1>1. /\ pc[c] = "listed" /\ pc' = [pc EXCEPT ![c] = "put"]
      /\ queue' = Append(queue, hand[c]) /\ hand' = [hand EXCEPT ![c] = NoJob]
      /\ UNCHANGED <<registered, order, state, asked, want, todo, worker, at, cur, restarts>>
  BY DEF Put, jobVars, threadVars
<1>2. /\ hand[c] \in Jobs /\ hand[c] # NoJob /\ state[hand[c]] = "queued"
      /\ hand[c] \notin ToSet(queue)
      /\ \A d \in Callers : hand[d] = hand[c] => d = c
      /\ \A t \in Threads : at[t] = "took" => cur[t] # hand[c]
  BY <1>1 DEF IInv, CallerInv, QueueInv, ThreadInv, TypeOK
<1>3. queue' \in Seq(Jobs) /\ Distinct(queue') /\ ToSet(queue') = ToSet(queue) \cup {hand[c]}
  BY <1>1, <1>2, AppendRange DEF IInv, QueueInv, TypeOK
<1>4. TypeOK'
  BY <1>1, <1>3 DEF IInv, TypeOK
<1>5. OrderInv' /\ TwinInv'
  BY <1>1 DEF IInv, OrderInv, TwinInv, Listed
<1>6. CallerInv'
  BY <1>1, <1>2 DEF IInv, CallerInv, TypeOK
<1>7. QueueInv'
  <2>1. ToSet(queue) \subseteq Jobs
    BY DEF IInv, TypeOK, ToSet
  <2>2. \A d \in Callers : hand'[d] = IF d = c THEN NoJob ELSE hand[d]
    BY <1>1 DEF IInv, TypeOK
  <2> QED BY <1>1, <1>2, <1>3, <2>1, <2>2 DEF IInv, QueueInv, ConstantsAssumption
<1>8. ThreadInv'
  <2> SUFFICES ASSUME NEW t \in Threads PROVE ThreadInv!(t)'
    BY DEF ThreadInv
  <2>1. cur[t] \in Jobs \cup {NoJob}
    BY DEF IInv, TypeOK
  <2> QED BY <1>1, <1>2, <1>3, <2>1 DEF IInv, ThreadInv, TypeOK, ConstantsAssumption
<1>9. JobInv'
  BY <1>1, <1>2, <1>3 DEF IInv, JobInv, TypeOK
<1> QED BY <1>4, <1>5, <1>6, <1>7, <1>8, <1>9 DEF IInv

\* No second thread is started while the worker lives.
LEMMA EnsureWorkerKeeps ==
  ASSUME ConstantsAssumption, IInv, NEW c \in Callers, EnsureWorker(c)
  PROVE  IInv'
<1>1. /\ pc[c] = "put" /\ Leave(c)
      /\ UNCHANGED <<registered, order, state, asked, queue, hand, todo, restarts>>
  BY DEF EnsureWorker, jobVars
<1>2. CASE UNCHANGED <<worker, at, cur>>
  <2>1. TypeOK' /\ CallerInv'
    BY <1>1, <1>2 DEF IInv, TypeOK, CallerInv, Leave
  <2>2. OrderInv' /\ QueueInv' /\ ThreadInv' /\ JobInv' /\ TwinInv'
    BY <1>1, <1>2 DEF IInv, OrderInv, QueueInv, ThreadInv, JobInv, TwinInv, Listed
  <2> QED BY <2>1, <2>2 DEF IInv
<1>3. ASSUME NEW t \in Threads, worker = NoThread, at[t] = "off", worker' = t,
             at' = [at EXCEPT ![t] = "get"], cur' = cur
      PROVE  IInv'
  <2>1. TypeOK' /\ CallerInv'
    BY <1>1, <1>3 DEF IInv, TypeOK, CallerInv, Leave
  <2>2. OrderInv' /\ QueueInv' /\ TwinInv'
    BY <1>1, <1>3 DEF IInv, OrderInv, QueueInv, TwinInv, Listed
  <2>3. \A u \in Threads : at[u] = "off"
    BY <1>3 DEF IInv, ThreadInv, TypeOK, ConstantsAssumption
  <2>4. ThreadInv'
    BY <1>1, <1>3, <2>3 DEF IInv, ThreadInv, TypeOK
  <2>5. JobInv'
    BY <1>1, <1>3, <2>3 DEF IInv, JobInv, TypeOK
  <2> QED BY <2>1, <2>2, <2>4, <2>5 DEF IInv
<1> QED BY <1>2, <1>3 DEF EnsureWorker, threadVars

\* The job goes from the queue to the worker, and nowhere else.
LEMMA TakeKeeps ==
  ASSUME ConstantsAssumption, IInv, NEW t \in Threads, Take(t)
  PROVE  IInv'
<1>1. /\ at[t] = "get" /\ queue # <<>>
      /\ cur' = [cur EXCEPT ![t] = Head(queue)] /\ queue' = Tail(queue)
      /\ at' = [at EXCEPT ![t] = "took"]
      /\ UNCHANGED <<registered, order, state, asked, pc, want, hand, todo, worker, restarts>>
  BY DEF Take, jobVars, callerVars
<1> DEFINE j == Head(queue)
<1>2. /\ j \in Jobs /\ j \in ToSet(queue)
      /\ queue' \in Seq(Jobs) /\ Distinct(queue') /\ ToSet(queue') = ToSet(queue) \ {j}
  BY <1>1, TailRange DEF IInv, QueueInv, TypeOK
<1> HIDE DEF j
<1>3. state[j] = "queued" /\ \A c \in Callers : hand[c] # j
  BY <1>2 DEF IInv, QueueInv
<1>4. cur' = [cur EXCEPT ![t] = j]
  BY <1>1 DEF j
<1>5. TypeOK'
  BY <1>1, <1>2, <1>4 DEF IInv, TypeOK
<1>6. OrderInv' /\ TwinInv' /\ CallerInv'
  BY <1>1 DEF IInv, OrderInv, TwinInv, CallerInv, Listed
<1>7. QueueInv'
  BY <1>1, <1>2 DEF IInv, QueueInv
<1>8. ThreadInv'
  BY <1>1, <1>2, <1>3, <1>4 DEF IInv, ThreadInv, TypeOK, ConstantsAssumption
<1>9. JobInv'
  BY <1>1, <1>2, <1>3, <1>4 DEF IInv, JobInv, TypeOK
<1> QED BY <1>5, <1>6, <1>7, <1>8, <1>9 DEF IInv

\* The job the worker took is the only one to become running.
LEMMA BeginKeeps ==
  ASSUME ConstantsAssumption, IInv, NEW t \in Threads, Begin(t)
  PROVE  IInv'
<1> DEFINE j == cur[t]
<1>1. /\ at[t] = "took" /\ j \in Jobs /\ state[j] = "queued"
      /\ j \notin ToSet(queue) /\ \A c \in Callers : hand[c] # j
  BY DEF Begin, IInv, ThreadInv, TypeOK
<1>2. /\ state' = [state EXCEPT ![j] = "running"] /\ at' = [at EXCEPT ![t] = "run"]
      /\ UNCHANGED <<registered, order, asked, queue, pc, want, hand, todo, worker, cur, restarts>>
  BY <1>1 DEF Begin, callerVars
<1>3. \A u \in Threads : u # t => at[u] = "off"
  BY <1>1 DEF IInv, ThreadInv
<1>4. cur[t] = j
  OBVIOUS
<1> HIDE DEF j
<1>5. TypeOK'
  BY <1>1, <1>2 DEF IInv, TypeOK, States
<1>6. OrderInv'
  BY <1>1, <1>2 DEF IInv, OrderInv, TypeOK, Listed
<1>7. CallerInv'
  BY <1>1, <1>2 DEF IInv, CallerInv, TypeOK
<1>8. QueueInv'
  <2>1. ToSet(queue) \subseteq Jobs
    BY DEF IInv, TypeOK, ToSet
  <2> QED BY <1>1, <1>2, <2>1 DEF IInv, QueueInv, TypeOK
<1>9. ThreadInv'
  BY <1>1, <1>2, <1>3, <1>4 DEF IInv, ThreadInv, TypeOK
<1>10. JobInv'
  BY <1>1, <1>2, <1>3, <1>4 DEF IInv, JobInv, TypeOK
<1>11. TwinInv'
  BY <1>1, <1>2 DEF IInv, TwinInv, TypeOK, Active
<1> QED BY <1>5, <1>6, <1>7, <1>8, <1>9, <1>10, <1>11 DEF IInv

\* What End leaves: no running job, and every waiting job as it was.
LEMMA EndEffect ==
  ASSUME ConstantsAssumption, IInv, NEW t \in Threads, End(t)
  PROVE  /\ cur[t] \in Jobs /\ state[cur[t]] = "running"
         /\ order' \in Seq(Jobs) /\ Distinct(order')
         /\ state' \in [Jobs -> States] /\ asked' \in [Jobs -> Keys \cup {NoKey}]
         /\ ToSet(order') = {i \in Jobs : state'[i] # "none"}
         /\ \A i \in Jobs : state'[i] # "none" => asked'[i] \in Keys
         /\ \A i \in Jobs : state'[i] # "running"
         /\ \A i \in Jobs : state[i] = "queued" <=> state'[i] = "queued"
         /\ \A i \in Jobs : state'[i] \in Active => asked'[i] = asked[i]
<1>1. PICK e \in Ended : Save(order, [state EXCEPT ![cur[t]] = e], asked)
  BY DEF End
<1> DEFINE j == cur[t]
           s == [state EXCEPT ![j] = e]
           F == Forgotten(order, s)
<1>2. j \in Jobs /\ state[j] = "running"
  BY DEF End, IInv, ThreadInv, TypeOK
<1>3. \A i \in Jobs : state[i] = "running" => i = j
  BY DEF End, IInv, ThreadInv, JobInv
<1>4. s \in [Jobs -> States] /\ s[j] = e /\ \A i \in Jobs : i # j => s[i] = state[i]
  BY <1>2 DEF IInv, TypeOK, States, Ended
<1>5. /\ order' = Trimmed(order, s)
      /\ state' = [i \in Jobs |-> IF i \in F THEN "none" ELSE s[i]]
      /\ asked' = [i \in Jobs |-> IF i \in F THEN NoKey ELSE asked[i]]
  BY <1>1 DEF Save
<1> HIDE DEF s, j
<1>6. /\ F \subseteq Jobs /\ \A i \in F : s[i] \in Ended
      /\ order' \in Seq(Jobs) /\ Distinct(order') /\ ToSet(order') = ToSet(order) \ F
  BY <1>4, <1>5, TrimEffect DEF IInv, OrderInv, TypeOK
<1> HIDE DEF F
<1>7. state' \in [Jobs -> States] /\ asked' \in [Jobs -> Keys \cup {NoKey}]
  BY <1>4, <1>5 DEF IInv, TypeOK, States
<1>8. \A i \in Jobs : s[i] # "none" <=> state[i] # "none"
  BY <1>2, <1>4 DEF Ended
<1>9. ToSet(order') = {i \in Jobs : state'[i] # "none"}
  BY <1>4, <1>5, <1>6, <1>8 DEF IInv, OrderInv, Listed, Ended
<1>10. \A i \in Jobs : state'[i] # "none" => asked'[i] \in Keys
  BY <1>5, <1>8 DEF IInv, OrderInv
<1>11. /\ \A i \in Jobs : state'[i] # "running"
       /\ \A i \in Jobs : state[i] = "queued" <=> state'[i] = "queued"
       /\ \A i \in Jobs : state'[i] \in Active => asked'[i] = asked[i]
  BY <1>2, <1>3, <1>4, <1>5, <1>6 DEF Active, Ended
<1> QED BY <1>2, <1>6, <1>7, <1>9, <1>10, <1>11 DEF j

\* The ended job is let go of; no waiting job is forgotten.
LEMMA EndKeeps ==
  ASSUME ConstantsAssumption, IInv, NEW t \in Threads, End(t)
  PROVE  IInv'
<1>1. /\ order' \in Seq(Jobs) /\ Distinct(order')
      /\ state' \in [Jobs -> States] /\ asked' \in [Jobs -> Keys \cup {NoKey}]
      /\ ToSet(order') = {i \in Jobs : state'[i] # "none"}
      /\ \A i \in Jobs : state'[i] # "none" => asked'[i] \in Keys
      /\ \A i \in Jobs : state'[i] # "running"
      /\ \A i \in Jobs : state[i] = "queued" <=> state'[i] = "queued"
      /\ \A i \in Jobs : state'[i] \in Active => asked'[i] = asked[i]
  BY EndEffect
<1>2. /\ at[t] = "run"
      /\ at' = [at EXCEPT ![t] = "get"] /\ cur' = [cur EXCEPT ![t] = NoJob]
      /\ UNCHANGED <<registered, queue, pc, want, hand, todo, worker, restarts>>
  BY DEF End, callerVars
<1>3. \A u \in Threads : u # t => at[u] = "off"
  BY <1>2 DEF IInv, ThreadInv
<1>4. TypeOK'
  BY <1>1, <1>2 DEF IInv, TypeOK
<1>5. OrderInv'
  BY <1>1 DEF OrderInv, Listed
<1>6. CallerInv'
  BY <1>1, <1>2 DEF IInv, CallerInv, TypeOK
<1>7. QueueInv'
  <2>1. ToSet(queue) \subseteq Jobs
    BY DEF IInv, TypeOK, ToSet
  <2> QED BY <1>1, <1>2, <2>1 DEF IInv, QueueInv
<1>8. ThreadInv'
  BY <1>2, <1>3 DEF IInv, ThreadInv, TypeOK, ConstantsAssumption
<1>9. JobInv'
  <2>1. \A u \in Threads : at[u] # "took"
    BY <1>2, <1>3
  <2> QED BY <1>1, <1>2, <2>1 DEF IInv, JobInv
<1>10. TwinInv'
  BY <1>1 DEF IInv, TwinInv, Active
<1> QED BY <1>4, <1>5, <1>6, <1>7, <1>8, <1>9, <1>10 DEF IInv

\* The invariant says nothing that deleting a project could break.
LEMMA StutterKeeps ==
  ASSUME ConstantsAssumption, IInv,
         UNCHANGED <<order, state, asked, queue, pc, want, hand, todo, worker, at, cur, restarts>>,
         registered' \subseteq registered
  PROVE  IInv'
BY DEF IInv, TypeOK, OrderInv, CallerInv, QueueInv, ThreadInv, JobInv, TwinInv, Listed

\* Every step keeps the invariant.
LEMMA NextKeeps == ConstantsAssumption /\ IInv /\ [Next]_vars => IInv'
<1> SUFFICES ASSUME ConstantsAssumption, IInv, [Next]_vars PROVE IInv'
  OBVIOUS
<1>1. ASSUME NEW c \in Callers, Submit(c) PROVE IInv'
  BY <1>1, CallerStepKeeps, AdmitKeeps, PutKeeps, EnsureWorkerKeeps DEF Submit, CallerStep
<1>2. CASE Poll
  BY <1>2, PollKeeps
<1>3. ASSUME NEW t \in Threads, Work(t) PROVE IInv'
  BY <1>3, TakeKeeps, BeginKeeps, EndKeeps DEF Work
<1>4. CASE DeleteProject
  BY <1>4, StutterKeeps DEF DeleteProject, jobVars, callerVars, threadVars
<1>5. CASE Restart
  BY <1>5, RestartKeeps
<1>6. CASE UNCHANGED vars
  BY <1>6, StutterKeeps DEF vars, jobVars, callerVars, threadVars
<1> QED BY <1>1, <1>2, <1>3, <1>4, <1>5, <1>6 DEF Next

\* The invariant holds of every reachable state.
LEMMA Invariance == Spec => []IInv
<1>1. Init => IInv
  BY ConstantsAssumption, InitInvariant
<1>2. IInv /\ [Next]_vars => IInv'
  BY ConstantsAssumption, NextKeeps
<1> QED BY <1>1, <1>2, PTL DEF Spec

----------------------------------------------------------------------------
(* The theorems. *)

\* Every variable of the queue keeps its type in every reachable state.
THEOREM TypeCorrect == Spec => []TypeOK
<1>1. IInv => TypeOK
  BY DEF IInv
<1> QED BY <1>1, Invariance, PTL

\* However many callers submit and however their steps interleave, two active
\* jobs never ask for the same run (JobManager.submit's coalescing).
THEOREM NoTwinsAlways == Spec => []NoTwins
<1>1. IInv => NoTwins
  BY DEF IInv, OrderInv, TwinInv, NoTwins
<1> QED BY <1>1, Invariance, PTL

\* At most one job runs, and _worker is the thread that runs it.
THEOREM OneRunAlways == Spec => []OneRun
<1>1. IInv => OneRun
  <2> SUFFICES ASSUME IInv PROVE OneRun
    OBVIOUS
  <2>1. \A i \in Listed : state[i] = "running" =>
          worker \in Threads /\ at[worker] = "run" /\ cur[worker] = i
    BY DEF IInv, OrderInv, JobInv, ThreadInv
  <2> QED BY <2>1, ConstantsAssumption DEF OneRun, ConstantsAssumption
<1> QED BY <1>1, Invariance, PTL

\* A job that waits is on its way to the worker in exactly one place, and no
\* other job is: none is lost between the list and the queue, none is run twice.
THEOREM DeliveryAlways == Spec => []Delivery
<1>1. ASSUME IInv, NEW j \in Jobs
      PROVE  Cardinality(Holders(j)) = IF j \in Waiting THEN 1 ELSE 0
  <2>1. j \in Waiting <=> state[j] = "queued"
    BY <1>1 DEF IInv, OrderInv, Waiting
  <2>2. ASSUME NEW h \in Holders(j)
        PROVE  \/ \E c \in Callers : hand[c] = j /\ h = <<"caller", c>>
               \/ \E i \in DOMAIN queue : queue[i] = j /\ h = <<"queue", i>>
               \/ \E t \in Threads : cur[t] = j /\ at[t] = "took" /\ h = <<"thread", t>>
    BY DEF Holders
  <2>3. CASE state[j] # "queued"
    <3>1. \A i \in DOMAIN queue : queue[i] # j
      BY <1>1, <2>3 DEF IInv, QueueInv, ToSet
    <3>2. Holders(j) = {}
      BY <1>1, <2>2, <2>3, <3>1, ConstantsAssumption DEF IInv, CallerInv, ThreadInv, ConstantsAssumption
    <3> QED BY <2>1, <2>3, <3>2, FS_EmptySet
  <2>4. CASE state[j] = "queued"
    <3>1. \E h : Holders(j) = {h}
      <4>1. CASE \E c \in Callers : hand[c] = j
        <5>1. PICK c \in Callers : hand[c] = j
          BY <4>1
        <5>2. \A i \in DOMAIN queue : queue[i] # j
          BY <1>1, <5>1 DEF IInv, QueueInv, ToSet
        <5>3. \A t \in Threads : ~ (cur[t] = j /\ at[t] = "took")
          BY <1>1, <5>1 DEF IInv, ThreadInv
        <5>4. \A d \in Callers : hand[d] = j => d = c
          BY <1>1, <5>1, ConstantsAssumption DEF IInv, CallerInv, ConstantsAssumption
        <5>5. Holders(j) = {<<"caller", c>>}
          BY <5>1, <5>2, <5>3, <5>4 DEF Holders
        <5> QED BY <5>5
      <4>2. CASE j \in ToSet(queue)
        <5>1. PICK i \in DOMAIN queue : queue[i] = j
          BY <4>2 DEF ToSet
        <5>2. \A k \in DOMAIN queue : queue[k] = j => k = i
          BY <1>1, <5>1 DEF IInv, QueueInv, Distinct
        <5>3. \A c \in Callers : hand[c] # j
          BY <1>1, <4>2 DEF IInv, QueueInv
        <5>4. \A t \in Threads : ~ (cur[t] = j /\ at[t] = "took")
          BY <1>1, <4>2 DEF IInv, ThreadInv
        <5>5. Holders(j) = {<<"queue", i>>}
          BY <5>1, <5>2, <5>3, <5>4 DEF Holders
        <5> QED BY <5>5
      <4>3. CASE \E t \in Threads : at[t] = "took" /\ cur[t] = j
        <5>1. PICK t \in Threads : at[t] = "took" /\ cur[t] = j
          BY <4>3
        <5>2. \A u \in Threads : cur[u] = j /\ at[u] = "took" => u = t
          BY <1>1, <5>1 DEF IInv, ThreadInv
        <5>3. \A c \in Callers : hand[c] # j
          BY <1>1, <5>1 DEF IInv, ThreadInv
        <5>4. \A i \in DOMAIN queue : queue[i] # j
          BY <1>1, <5>1 DEF IInv, ThreadInv, ToSet
        <5>5. Holders(j) = {<<"thread", t>>}
          BY <5>1, <5>2, <5>3, <5>4 DEF Holders
        <5> QED BY <5>5
      <4> QED BY <1>1, <2>4, <4>1, <4>2, <4>3 DEF IInv, JobInv
    <3> QED BY <2>1, <2>4, <3>1, FS_Singleton
  <2> QED BY <2>3, <2>4
<1>2. IInv => Delivery
  BY <1>1 DEF Delivery
<1> QED BY <1>2, Invariance, PTL
----------------------------------------------------------------------------
(* The list does not grow without bound. *)

\* In a list without repetition a set of jobs stands at as many places as it
\* has members in the list.
LEMMA PlacesOf ==
  ASSUME NEW S, NEW o \in Seq(S), Distinct(o), NEW P, IsFiniteSet(P)
  PROVE  LET places == {i \in DOMAIN o : o[i] \in P} IN
         IsFiniteSet(places) /\ Cardinality(places) = Cardinality(ToSet(o) \cap P)
<1> DEFINE Q == {i \in DOMAIN o : o[i] \in P}
           T == ToSet(o) \cap P
           f == [i \in Q |-> o[i]]
<1>1. f \in [Q -> T]
  BY DEF ToSet
<1>2. \A i, k \in Q : f[i] = f[k] => i = k
  BY DEF Distinct
<1>3. \A x \in T : \E i \in Q : f[i] = x
  BY DEF ToSet
<1>4. f \in Bijection(Q, T)
  BY <1>1, <1>2, <1>3 DEF Bijection, Injection, Surjection, IsInjective
<1>5. DOMAIN o = 1..Len(o) /\ Len(o) \in Nat
  OBVIOUS
<1>6. IsFiniteSet(DOMAIN o)
  BY <1>5, FS_Interval
<1>7. IsFiniteSet(Q)
  BY <1>6, FS_Subset
<1>8. Cardinality(T) = Cardinality(Q)
  BY <1>4, <1>7, FS_Bijection DEF ExistsBijection
<1> QED BY <1>7, <1>8

\* The jobs that wait and those that ended are few.
InState(A) == {j \in Jobs : state[j] \in A}
RetainInv == /\ Cardinality(InState(Ended)) <= Keep
             /\ Cardinality(InState({"queued"})) <= MaxQueued

\* Sets of jobs are finite, and smaller when they hold less.
LEMMA JobSets ==
  ASSUME ConstantsAssumption, NEW A \in SUBSET Jobs, NEW B \in SUBSET A
  PROVE  /\ IsFiniteSet(A) /\ Cardinality(A) \in Nat
         /\ IsFiniteSet(B) /\ Cardinality(B) \in Nat /\ Cardinality(B) <= Cardinality(A)
<1>1. IsFiniteSet(A)
  BY FS_Subset DEF ConstantsAssumption
<1>2. IsFiniteSet(B) /\ Cardinality(B) <= Cardinality(A)
  BY <1>1, FS_Subset
<1> QED BY <1>1, <1>2, FS_CardinalityType

\* A job is admitted while fewer than MaxQueued wait.
LEMMA AdmitRetains ==
  ASSUME ConstantsAssumption, IInv, RetainInv, NEW c \in Callers, Admit(c)
  PROVE  RetainInv'
<1>1. PICK j \in Fresh :
        Save(Append(order, j), [state EXCEPT ![j] = "queued"], [asked EXCEPT ![j] = want[c]])
  BY DEF Admit
<1>2. j \in Jobs /\ \A i \in Jobs : state'[i] \in {"none", IF i = j THEN "queued" ELSE state[i]}
  BY <1>1 DEF Save, Fresh, IInv, TypeOK
<1>3. InState(Ended)' \subseteq InState(Ended)
  BY <1>2 DEF InState, Ended
<1>4. InState({"queued"})' \subseteq InState({"queued"}) \cup {j}
  BY <1>2 DEF InState
<1>5. Cardinality(InState({"queued"})) < MaxQueued
  <2>1. Waiting = InState({"queued"})
    BY DEF Waiting, InState, IInv, OrderInv
  <2> QED BY <2>1 DEF Admit
<1> DEFINE W == InState({"queued"})
<1>6. IsFiniteSet(W) /\ Cardinality(W) \in Nat
  BY JobSets DEF InState
<1>7. Cardinality(W \cup {j}) \in {Cardinality(W), Cardinality(W) + 1}
  BY <1>6, FS_AddElement
<1>8. W \cup {j} \subseteq Jobs
  BY <1>2 DEF InState
<1>9. /\ Cardinality(W \cup {j}) \in Nat
      /\ Cardinality(InState({"queued"})') \in Nat
      /\ Cardinality(InState({"queued"})') <= Cardinality(W \cup {j})
  BY <1>4, <1>8, JobSets
<1>10. /\ Cardinality(InState(Ended)) \in Nat /\ Cardinality(InState(Ended)') \in Nat
       /\ Cardinality(InState(Ended)') <= Cardinality(InState(Ended))
  <2>1. InState(Ended) \subseteq Jobs
    BY DEF InState
  <2> QED BY <1>3, <2>1, JobSets
<1>11. Cardinality(InState(Ended)') <= Keep
  BY <1>10 DEF RetainInv, ConstantsAssumption
<1>12. Cardinality(InState({"queued"})') <= MaxQueued
  BY <1>5, <1>6, <1>7, <1>9 DEF ConstantsAssumption
<1> QED BY <1>11, <1>12 DEF RetainInv

\* A job that ends is one more, and _trim() forgets one if that is too many.
LEMMA EndRetains ==
  ASSUME ConstantsAssumption, IInv, RetainInv, NEW t \in Threads, End(t)
  PROVE  RetainInv'
<1>1. PICK e \in Ended : Save(order, [state EXCEPT ![cur[t]] = e], asked)
  BY DEF End
<1>2. cur[t] \in Jobs /\ state[cur[t]] = "running"
  BY DEF End, IInv, ThreadInv, TypeOK
<1>3. PICK s \in [Jobs -> States] : s = [state EXCEPT ![cur[t]] = e]
  BY <1>2 DEF IInv, TypeOK, States, Ended
<1>4. PICK j \in Jobs : j = cur[t]
  BY <1>2
<1>5. s[j] = e /\ \A i \in Jobs : i # j => s[i] = state[i]
  BY <1>3, <1>4 DEF IInv, TypeOK
<1>6. PICK E \in SUBSET Jobs : E = InState(Ended) \cup {j}
  BY DEF InState
<1>7. E = {i \in Jobs : s[i] \in Ended}
  BY <1>1, <1>2, <1>4, <1>5, <1>6 DEF InState, Ended
<1>8. E \subseteq ToSet(order)
  BY <1>2, <1>4, <1>6 DEF InState, Ended, IInv, OrderInv, Listed
<1>9. Cardinality(EndedAt(order, s)) = Cardinality(E)
  <2>1. IsFiniteSet(E)
    BY <1>6, JobSets
  <2>2. order \in Seq(Jobs) /\ Distinct(order)
    BY DEF IInv, TypeOK, OrderInv
  <2>3. Cardinality({i \in DOMAIN order : order[i] \in E}) = Cardinality(ToSet(order) \cap E)
    BY <2>1, <2>2, PlacesOf
  <2>4. {i \in DOMAIN order : order[i] \in E} = EndedAt(order, s)
    BY <1>7, <2>2 DEF EndedAt
  <2>5. ToSet(order) \cap E = E
    BY <1>8
  <2> QED BY <2>3, <2>4, <2>5
<1>10. IsFiniteSet(InState(Ended)) /\ Cardinality(InState(Ended)) \in Nat /\ Cardinality(InState(Ended)) <= Keep
  BY JobSets DEF InState, RetainInv
<1>11. IsFiniteSet(E) /\ Cardinality(E) \in Nat /\ Cardinality(E) <= Keep + 1
  <2>1. Cardinality(E) \in {Cardinality(InState(Ended)), Cardinality(InState(Ended)) + 1}
    BY <1>6, <1>10, FS_AddElement
  <2> QED BY <1>6, <1>10, <2>1, JobSets DEF ConstantsAssumption
<1>12. PICK F \in SUBSET Jobs : F = Forgotten(order, s)
  BY TrimEffect DEF IInv, TypeOK, OrderInv
<1>13. \A i \in Jobs : state'[i] = IF i \in F THEN "none" ELSE s[i]
  BY <1>1, <1>3, <1>12 DEF Save
<1>14. InState(Ended)' = E \ F
  BY <1>7, <1>13 DEF InState, Ended
<1>15. Cardinality(InState(Ended)') <= Keep
  <2>1. CASE Overfull(order, s)
    <3>1. PICK i \in DOMAIN order : F = {order[i]} /\ order[i] \in E
      <4>1. EndedAt(order, s) # {}
        BY <1>9, <2>1, FS_EmptySet DEF Overfull, ConstantsAssumption
      <4>2. EndedAt(order, s) \subseteq Nat
        <5>1. order \in Seq(Jobs)
          BY DEF IInv, TypeOK
        <5> QED BY <5>1 DEF EndedAt
      <4>3. OldestEnded(order, s) \in EndedAt(order, s)
        BY <4>1, <4>2, LeastNatural DEF OldestEnded
      <4>4. F = {order[OldestEnded(order, s)]}
        BY <1>12, <2>1 DEF Forgotten
      <4>5. \A k \in DOMAIN order : order[k] \in Jobs
        BY DEF IInv, TypeOK
      <4> QED BY <1>7, <4>3, <4>4, <4>5 DEF EndedAt
    <3>2. Cardinality(E \ {order[i]}) = Cardinality(E) - 1
      BY <1>11, <3>1, FS_RemoveElement
    <3> QED BY <1>11, <1>14, <3>1, <3>2 DEF ConstantsAssumption
  <2>2. CASE ~ Overfull(order, s)
    <3>1. F = {}
      BY <1>12, <2>2 DEF Forgotten
    <3>2. ~ (Cardinality(E) > Keep)
      BY <1>9, <2>2 DEF Overfull
    <3> QED BY <1>11, <1>14, <3>1, <3>2 DEF ConstantsAssumption
  <2> QED BY <2>1, <2>2
<1>16. InState({"queued"})' = InState({"queued"})
  BY EndEffect DEF InState
<1> QED BY <1>15, <1>16 DEF RetainInv

\* The other steps end no job and let none wait.
LEMMA OthersRetain ==
  ASSUME ConstantsAssumption, RetainInv,
         \A j \in Jobs : \/ state'[j] = state[j]
                         \/ state'[j] \in {"none", "running"}
  PROVE  RetainInv'
<1>1. /\ InState(Ended)' \in SUBSET InState(Ended) /\ InState(Ended) \in SUBSET Jobs
      /\ InState({"queued"})' \in SUBSET InState({"queued"}) /\ InState({"queued"}) \in SUBSET Jobs
  BY DEF InState, Ended
<1>2. /\ Cardinality(InState(Ended)) \in Nat /\ Cardinality(InState(Ended)') \in Nat
      /\ Cardinality(InState(Ended)') <= Cardinality(InState(Ended))
  BY <1>1, JobSets
<1>3. /\ Cardinality(InState({"queued"})) \in Nat /\ Cardinality(InState({"queued"})') \in Nat
      /\ Cardinality(InState({"queued"})') <= Cardinality(InState({"queued"}))
  BY <1>1, JobSets
<1> QED BY <1>2, <1>3 DEF RetainInv, ConstantsAssumption

\* However long the program runs, the list holds no more than keep jobs that ended and
\* max_queued that wait, each once, and what is not in it is forgotten everywhere.
THEOREM RetentionAlways == Spec => []Retention
<1>1. Init => RetainInv
  <2> SUFFICES ASSUME Init PROVE RetainInv
    OBVIOUS
  <2>1. InState(Ended) = {} /\ InState({"queued"}) = {}
    BY DEF Init, InState, Ended
  <2> QED BY <2>1, FS_EmptySet, ConstantsAssumption DEF RetainInv, ConstantsAssumption
<1>2. IInv /\ RetainInv /\ [Next]_vars => RetainInv'
  <2> SUFFICES ASSUME IInv, RetainInv, [Next]_vars PROVE RetainInv'
    OBVIOUS
  <2>1. ASSUME NEW c \in Callers, Admit(c) PROVE RetainInv'
    BY <2>1, AdmitRetains, ConstantsAssumption
  <2>2. ASSUME NEW t \in Threads, End(t) PROVE RetainInv'
    BY <2>2, EndRetains, ConstantsAssumption
  <2>3. ASSUME NEW t \in Threads, Begin(t) PROVE RetainInv'
    <3>1. cur[t] \in Jobs \cup {NoJob} /\ state \in [Jobs -> States]
      BY DEF IInv, TypeOK
    <3>2. \A j \in Jobs : state'[j] = state[j] \/ state'[j] = "running"
      BY <2>3, <3>1 DEF Begin
    <3> QED BY <3>2, OthersRetain, ConstantsAssumption
  <2>4. CASE Restart
    <3>1. \A j \in Jobs : state'[j] = "none"
      BY <2>4 DEF Restart
    <3> QED BY <3>1, OthersRetain, ConstantsAssumption
  <2>5. ASSUME state' = state PROVE RetainInv'
    BY <2>5, OthersRetain, ConstantsAssumption
  <2>6. ASSUME NEW c \in Callers, Submit(c), ~ Admit(c) PROVE RetainInv'
    BY <2>5, <2>6 DEF Submit, Request, Coalesce, Refuse, Put, EnsureWorker, jobVars
  <2>7. CASE Poll \/ DeleteProject \/ UNCHANGED vars \/ \E t \in Threads : Take(t)
    BY <2>5, <2>7 DEF Poll, PollPass, PollNext, DeleteProject, vars, jobVars, Take
  <2> QED BY <2>1, <2>2, <2>3, <2>4, <2>6, <2>7 DEF Next, Work
<1>3. IInv /\ RetainInv => Retention
  <2> SUFFICES ASSUME IInv, RetainInv PROVE Retention
    OBVIOUS
  <2>1. order \in Seq(Jobs) /\ Distinct(order) /\ Listed = {j \in Jobs : state[j] # "none"}
    BY DEF IInv, TypeOK, OrderInv
  <2>2. Cardinality(EndedAt(order, state)) <= Keep
    <3>1. IsFiniteSet(InState(Ended))
      BY JobSets, ConstantsAssumption DEF InState
    <3>2. Cardinality({i \in DOMAIN order : order[i] \in InState(Ended)}) = Cardinality(ToSet(order) \cap InState(Ended))
      BY <2>1, <3>1, PlacesOf
    <3>3. {i \in DOMAIN order : order[i] \in InState(Ended)} = EndedAt(order, state)
      BY <2>1 DEF EndedAt, InState
    <3>4. ToSet(order) \cap InState(Ended) = InState(Ended)
      BY <2>1 DEF Listed, InState, Ended
    <3> QED BY <3>2, <3>3, <3>4 DEF RetainInv
  <2>3. Waiting = InState({"queued"})
    BY <2>1 DEF Waiting, InState
  <2>4. Cardinality(Listed) = Len(order)
    <3>1. IsFiniteSet(Jobs)
      BY ConstantsAssumption DEF ConstantsAssumption
    <3>2. Cardinality({i \in DOMAIN order : order[i] \in Jobs}) = Cardinality(ToSet(order) \cap Jobs)
      BY <2>1, <3>1, PlacesOf
    <3>3. {i \in DOMAIN order : order[i] \in Jobs} = 1..Len(order) /\ Len(order) \in Nat
      BY <2>1
    <3>4. Cardinality(1..Len(order)) = Len(order)
      <4>1. PICK n \in Nat : n = Len(order)
        BY <3>3
      <4>2. Cardinality(1..n) = IF 1 > n THEN 0 ELSE n - 1 + 1
        BY FS_Interval
      <4> QED BY <4>1, <4>2
    <3>5. ToSet(order) \cap Jobs = Listed
      BY <2>1 DEF Listed
    <3> QED BY <3>2, <3>3, <3>4, <3>5
  <2> QED BY <2>1, <2>2, <2>3, <2>4 DEF Retention, RetainInv
<1> QED BY <1>1, <1>2, <1>3, Invariance, PTL DEF Spec

----------------------------------------------------------------------------
(* The queue implements RunQueue. *)

\* Finitely many jobs ask for no more runs than there are jobs.
LEMMA FewerKeysThanJobs ==
  ASSUME NEW S, IsFiniteSet(S), NEW a
  PROVE  Cardinality({a[j] : j \in S}) <= Cardinality(S)
<1> DEFINE T == {a[j] : j \in S}
           f == [j \in S |-> a[j]]
<1>1. f \in Surjection(S, T)
  BY DEF Surjection
<1> HIDE DEF f, T
<1>2. Cardinality(T) <= Cardinality(S)
  BY <1>1, FS_Surjection
<1> QED BY <1>2 DEF T

\* What waits and what runs, read off the states of the jobs.
LEMMA WhatWaits ==
  ASSUME IInv
  PROVE  /\ Waiting = {j \in Jobs : state[j] = "queued"}
         /\ RunningJobs = {j \in Jobs : state[j] = "running"}
BY DEF IInv, OrderInv, Waiting, RunningJobs

\* The run of the running job is the current one; with none running, none is.
LEMMA WhatRuns ==
  ASSUME IInv
  PROVE  /\ \A j \in Jobs : state[j] = "running" => Current = asked[j]
         /\ (\A j \in Jobs : state[j] # "running") => Current = NoKey
<1>1. ASSUME NEW j \in Jobs, state[j] = "running" PROVE Current = asked[j]
  <2>1. \A i \in Jobs : state[i] = "running" => i = j
    BY <1>1 DEF IInv, JobInv, ThreadInv
  <2>2. RunningJobs = {j}
    BY <1>1, <2>1, WhatWaits
  <2> QED BY <2>2 DEF Current
<1>2. ASSUME \A j \in Jobs : state[j] # "running" PROVE Current = NoKey
  BY <1>2, WhatWaits DEF Current
<1> QED BY <1>1, <1>2

\* Admit accepts the run the caller asks for.
LEMMA AdmitAccepts ==
  ASSUME ConstantsAssumption, IInv, NEW c \in Callers, Admit(c)
  PROVE  Promise!Accept(want[c])
<1>1. PICK j \in Jobs :
           /\ state[j] = "none"
           /\ ToSet(order') = {i \in Jobs : state'[i] # "none"}
           /\ state'[j] = "queued" /\ asked'[j] = want[c]
           /\ \A i \in Jobs \ {j} : state[i] \in Active \/ state'[i] \in Active
                                      => state'[i] = state[i] /\ asked'[i] = asked[i]
  BY AdmitEffect
<1>2. want[c] \in Keys /\ \A i \in Jobs : ~ (state[i] \in Active /\ asked[i] = want[c])
  BY DEF Admit, Twins, IInv, CallerInv, OrderInv, Active
<1>3. want[c] \notin Pending
  BY <1>2, WhatWaits DEF Pending, Active
<1>4. want[c] # Current
  <2>1. CASE \E i \in Jobs : state[i] = "running"
    BY <1>2, <2>1, WhatRuns DEF Active
  <2>2. CASE \A i \in Jobs : state[i] # "running"
    BY <1>2, <2>2, WhatRuns DEF ConstantsAssumption
  <2> QED BY <2>1, <2>2
<1>5. Cardinality(Pending) < MaxQueued
  <2>1. Waiting \in SUBSET Jobs
    BY WhatWaits
  <2>2. IsFiniteSet(Waiting) /\ Cardinality(Waiting) \in Nat
    BY <2>1, FS_Subset, FS_CardinalityType DEF ConstantsAssumption
  <2>3. Cardinality(Pending) <= Cardinality(Waiting) /\ IsFiniteSet(Pending)
    <3>1. [i \in Waiting |-> asked[i]] \in Surjection(Waiting, Pending)
      BY DEF Surjection, Pending
    <3>2. IsFiniteSet(Pending)
      BY <2>2, <3>1, FS_Surjection
    <3> QED BY <2>2, <3>2, FewerKeysThanJobs DEF Pending
  <2>4. Cardinality(Pending) \in Nat
    BY <2>3, FS_CardinalityType
  <2> QED BY <2>2, <2>3, <2>4 DEF Admit, ConstantsAssumption
<1>6. /\ Waiting' = {i \in Jobs : state'[i] = "queued"}
      /\ RunningJobs' = {i \in Jobs : state'[i] = "running"}
  BY <1>1 DEF Waiting, RunningJobs, Listed
<1>7. Waiting' = Waiting \cup {j} /\ \A i \in Waiting : asked'[i] = asked[i]
  BY <1>1, <1>6, WhatWaits DEF Active
<1>8. Pending' = Pending \cup {want[c]}
  <2>1. Pending' = {asked'[i] : i \in Waiting \cup {j}}
    BY <1>7 DEF Pending
  <2> QED BY <1>1, <1>7, <2>1 DEF Pending
<1>9. RunningJobs' = RunningJobs /\ \A i \in RunningJobs : asked'[i] = asked[i]
  BY <1>1, <1>6, WhatWaits DEF Active
<1>10. Current' = Current
  BY <1>9 DEF Current
<1>11. Promise!Cardinality(Pending) = Cardinality(Pending)
  BY DEF Promise!Cardinality, Cardinality
<1>12. UNCHANGED Current
  BY <1>10
<1> QED BY <1>3, <1>4, <1>5, <1>8, <1>11, <1>12 DEF Promise!Accept

\* Begin starts the run of the job the worker took.
LEMMA BeginStarts ==
  ASSUME ConstantsAssumption, IInv, NEW t \in Threads, Begin(t)
  PROVE  asked[cur[t]] \in Keys /\ Promise!Start(asked[cur[t]])
<1> DEFINE j == cur[t]
<1>1. /\ at[t] = "took" /\ j \in Jobs /\ state[j] = "queued" /\ asked[j] \in Keys
  BY DEF Begin, IInv, ThreadInv, OrderInv, TypeOK
<1>2. state' = [state EXCEPT ![j] = "running"] /\ UNCHANGED <<order, asked>>
  BY <1>1 DEF Begin
<1>3. \A i \in Jobs : state[i] # "running"
  BY <1>1 DEF IInv, ThreadInv, JobInv
<1>4. \A i \in Jobs : state'[i] = IF i = j THEN "running" ELSE state[i]
  BY <1>2 DEF IInv, TypeOK
<1>5. \A i \in Jobs : state[i] = "queued" /\ asked[i] = asked[j] => i = j
  BY <1>1 DEF IInv, TwinInv, Active
<1> HIDE DEF j
<1>6. /\ Waiting' = {i \in Jobs : state'[i] = "queued"}
      /\ RunningJobs' = {i \in Jobs : state'[i] = "running"}
  BY <1>1, <1>2, <1>4 DEF Waiting, RunningJobs, Listed, IInv, OrderInv
<1>7. Waiting' = Waiting \ {j} /\ j \in Waiting
  BY <1>1, <1>4, <1>6, WhatWaits
<1>8. Pending' = Pending \ {asked[j]} /\ asked[j] \in Pending
  <2>1. Pending' = {asked[i] : i \in Waiting \ {j}}
    BY <1>2, <1>7 DEF Pending
  <2> QED BY <1>5, <1>7, <2>1, WhatWaits DEF Pending
<1>9. Current = NoKey
  BY <1>3, WhatRuns
<1>10. RunningJobs' = {j}
  BY <1>1, <1>3, <1>4, <1>6
<1>11. Current' = asked[j]
  BY <1>2, <1>10 DEF Current
<1> QED BY <1>1, <1>8, <1>9, <1>11 DEF Promise!Start, j

\* End stops the run.
LEMMA EndStops ==
  ASSUME ConstantsAssumption, IInv, NEW t \in Threads, End(t)
  PROVE  Promise!Stop
<1>1. /\ cur[t] \in Jobs /\ state[cur[t]] = "running"
      /\ ToSet(order') = {i \in Jobs : state'[i] # "none"}
      /\ \A i \in Jobs : state'[i] # "running"
      /\ \A i \in Jobs : state[i] = "queued" <=> state'[i] = "queued"
      /\ \A i \in Jobs : state'[i] \in Active => asked'[i] = asked[i]
  BY EndEffect
<1>2. Current # NoKey
  BY <1>1, WhatRuns DEF IInv, OrderInv, ConstantsAssumption
<1>3. Waiting' = {i \in Jobs : state'[i] = "queued"} /\ RunningJobs' = {}
  BY <1>1 DEF Waiting, RunningJobs, Listed
<1>4. Waiting' = Waiting /\ \A i \in Waiting : asked'[i] = asked[i]
  BY <1>1, <1>3, WhatWaits DEF Active
<1>5. Pending' = Pending
  <2>1. Pending' = {asked'[i] : i \in Waiting}
    BY <1>4 DEF Pending
  <2> QED BY <1>4, <2>1 DEF Pending
<1>6. Current' = NoKey
  BY <1>3 DEF Current
<1> QED BY <1>2, <1>5, <1>6 DEF Promise!Stop

\* A restart forgets what waited or ran.
LEMMA RestartResets ==
  ASSUME Restart
  PROVE  Promise!Reset
<1>1. Waiting' = {} /\ RunningJobs' = {}
  BY DEF Restart, Waiting, RunningJobs, Listed, ToSet
<1>2. Pending' = {} /\ Current' = NoKey
  BY <1>1 DEF Pending, Current
<1> QED BY <1>2 DEF Promise!Reset

\* The steps that list no job and change no state are invisible to RunQueue.
LEMMA OthersStutter ==
  ASSUME UNCHANGED <<order, state, asked>>
  PROVE  UNCHANGED Promise!vars
<1>1. Listed' = Listed /\ Waiting' = Waiting /\ RunningJobs' = RunningJobs
  BY DEF Listed, Waiting, RunningJobs
<1>2. Pending' = Pending /\ Current' = Current
  BY <1>1 DEF Pending, Current
<1> QED BY <1>2 DEF Promise!vars

\* JobManager implements RunQueue: with coalescing, put outside the lock, one
\* worker and restarts, what a caller sees is a set of runs that wait, each
\* once, at most MaxQueued of them, and one run at a time.
THEOREM QueueKeepsPromise == Spec => KeepsPromise
<1>1. Init => Promise!Init
  <2> SUFFICES ASSUME Init PROVE Promise!Init
    OBVIOUS
  <2>1. Waiting = {} /\ RunningJobs = {}
    BY DEF Init, Waiting, RunningJobs, Listed, ToSet
  <2> QED BY <2>1 DEF Promise!Init, Pending, Current
<1>2. IInv /\ [Next]_vars => [Promise!Next]_(Promise!vars)
  <2> SUFFICES ASSUME IInv, [Next]_vars PROVE [Promise!Next]_(Promise!vars)
    OBVIOUS
  <2>1. ASSUME NEW c \in Callers, Admit(c) PROVE Promise!Next
    <3>1. want[c] \in Keys
      BY <2>1 DEF Admit, IInv, CallerInv
    <3> QED BY <2>1, <3>1, AdmitAccepts, ConstantsAssumption DEF Promise!Next
  <2>2. ASSUME NEW c \in Callers, Submit(c), ~ Admit(c) PROVE UNCHANGED Promise!vars
    <3>1. UNCHANGED <<order, state, asked>>
      BY <2>2 DEF Submit, Request, Coalesce, Refuse, Put, EnsureWorker, jobVars
    <3> QED BY <3>1, OthersStutter
  <2>3. ASSUME NEW t \in Threads, Begin(t) PROVE Promise!Next
    BY <2>3, BeginStarts, ConstantsAssumption DEF Promise!Next
  <2>4. ASSUME NEW t \in Threads, End(t) PROVE Promise!Next
    BY <2>4, EndStops, ConstantsAssumption DEF Promise!Next
  <2>5. CASE Restart
    BY <2>5, RestartResets DEF Promise!Next
  <2>6. CASE Poll \/ DeleteProject \/ UNCHANGED vars \/ \E t \in Threads : Take(t)
    <3>1. UNCHANGED <<order, state, asked>>
      BY <2>6 DEF Poll, PollPass, PollNext, DeleteProject, vars, jobVars, Take
    <3> QED BY <3>1, OthersStutter
  <2> QED BY <2>1, <2>2, <2>3, <2>4, <2>5, <2>6 DEF Next, Work
<1> QED BY <1>1, <1>2, Invariance, PTL DEF Spec, KeepsPromise, Promise!Spec
=============================================================================
