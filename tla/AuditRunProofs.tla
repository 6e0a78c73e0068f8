--------------------------- MODULE AuditRunProofs ---------------------------
(***************************************************************************)
(* What holds of AuditRun for every number of prompts, tasks, samples and  *)
(* threads, all prices, every cap and every budget; then of Selection, for *)
(* every list of candidates, of the analyst's lines and of pages; and of   *)
(* Sentiment, for every crawl's samples, store and vendor.                 *)
(***************************************************************************)
EXTENDS AuditRun, Selection, Sentiment, FoldTheorems, TLAPS

Taken(a) == a.cited + a.uncited + a.failures

\* The counters of one audit, by where it is.
AuditInv(a) ==
  /\ a.at \in {"queued", "reused", "raised"} => Taken(a) = 0 /\ a.calls = 0
  /\ a.at = "loop" => Taken(a) = a.calls /\ a.calls < Samples
  /\ a.at \in {"asking", "broken"} => Taken(a) + 1 = a.calls
  /\ a.at = "full" => Taken(a) = Samples /\ a.calls = Samples
  /\ a.at = "agreed" => Agreed(a)
  /\ a.at \in {"open", "refused"} => Taken(a) > 0

Settled == (Over \ {"broken"}) \cup {"reused"}

\* What the main thread knows of the futures before `next`.
MainInv ==
  /\ \A t \in Tasks : t < next => audit[t].at \in Settled
  /\ \A t \in Tasks : t \in outcomes <=> \/ audit[t].at = "reused"
                                         \/ t < next /\ audit[t].at # "raised"
  /\ stop <=> \E t \in Tasks : t < next /\ audit[t].at \in {"raised", "refused"}
  /\ phase \in {"keywords", "store", "done"} => next = NumTasks + 1
  /\ phase = "audit" => keywordCalls = 0
  /\ phase = "keywords" => ~ stop
  /\ stop => keywordCalls = 0

\* What is in the database.
StoreInv ==
  /\ snapshots \subseteq outcomes \ Reused
  /\ \A t \in outcomes \ Reused : PromptOf[t] < cursor => t \in snapshots /\ t \in samples
  /\ phase \in {"audit", "keywords"} => cursor = 1
  /\ phase = "done" => cursor = NumPrompts + 1

\* The inductive invariant.
IInv == /\ TypeOK /\ MainInv /\ StoreInv
        /\ \A t \in Tasks : AuditInv(audit[t])

\* The invariant holds initially.
LEMMA InitInvariant == ConstantsAssumption /\ Init => IInv
<1> SUFFICES ASSUME ConstantsAssumption, Init PROVE IInv
  OBVIOUS
<1>1. PICK recent \in SUBSET Tasks :
        /\ audit = [t \in Tasks |-> IF t \in recent THEN [Fresh EXCEPT !.at = "reused"] ELSE Fresh]
        /\ outcomes = recent
  BY DEF Init
<1>2. ASSUME NEW t \in Tasks
      PROVE  /\ audit[t] \in Audits /\ AuditInv(audit[t])
             /\ audit[t].at \in {"queued", "reused"}
             /\ audit[t].at = "reused" <=> t \in outcomes
  <2>1. CASE t \in recent
    BY <1>1, <2>1 DEF Fresh, Audits, AuditInv, Taken, Agreed, ConstantsAssumption
  <2>2. CASE t \notin recent
    BY <1>1, <2>2 DEF Fresh, Audits, AuditInv, Taken, Agreed, ConstantsAssumption
  <2> QED BY <2>1, <2>2
<1>3. audit \in [Tasks -> Audits]
  BY <1>1, <1>2
<1>8. stop \in BOOLEAN
  BY Zenon DEF Init
<1>4. TypeOK
  BY <1>1, <1>3, <1>8 DEF ConstantsAssumption, Init, TypeOK
<1>5. \A t \in Tasks : ~ (t < next)
  BY DEF Init, Tasks
<1>6. MainInv
  BY <1>2, <1>5 DEF Init, MainInv
<1>7. StoreInv
  BY <1>1, <1>2, <1>5 DEF Init, StoreInv, Reused, ConstantsAssumption, Prompts
<1> QED BY <1>2, <1>4, <1>6, <1>7 DEF IInv

\* A step of one audit that is not over keeps the invariant if its new
\* counters are right: nothing else looks at an audit before it is over.
LEMMA AuditStep ==
  ASSUME ConstantsAssumption, IInv, NEW t \in Tasks, NEW a \in Audits, AuditInv(a),
         audit[t].at \in Running \cup {"queued"}, a.at \in Running \cup Over,
         audit' = [audit EXCEPT ![t] = a], calls' \in 0..MaxCalls, left' \in 0..Budget,
         UNCHANGED <<phase, mainVars, keywordVars, storeVars>>
  PROVE  IInv'
<1>1. /\ audit' \in [Tasks -> Audits] /\ audit'[t] = a
      /\ \A u \in Tasks : u # t => audit'[u] = audit[u]
  BY DEF IInv, TypeOK
<1>2. /\ audit[t].at \notin Settled /\ audit[t].at # "reused" /\ a.at # "reused"
  BY DEF Running, Over, Settled
<1>3. ~ (t < next)
  BY <1>2 DEF IInv, MainInv
<1>4. TypeOK'
  BY <1>1 DEF IInv, TypeOK, mainVars, keywordVars, storeVars
<1>5. MainInv'
  BY <1>1, <1>2, <1>3 DEF IInv, MainInv, mainVars, keywordVars
<1>6. Reused' = Reused
  BY <1>1, <1>2 DEF Reused
<1>7. StoreInv'
  BY <1>6 DEF IInv, StoreInv, mainVars, storeVars
<1> QED BY <1>1, <1>4, <1>5, <1>7 DEF IInv

\* Every step of a pool thread keeps the invariant.
LEMMA SamplingKeeps ==
  ASSUME ConstantsAssumption, IInv, NEW t \in Tasks, Sampling(t)
  PROVE  IInv'
<1> DEFINE o == audit[t]
<1>1. /\ o \in Audits /\ AuditInv(o)
      /\ calls \in 0..MaxCalls /\ left \in 0..Budget
      /\ Samples \in Nat \ {0} /\ MinSamples \in Nat \ {0} /\ MaxCalls \in Nat /\ Budget \in Nat
  BY DEF IInv, TypeOK, ConstantsAssumption
<1>2. /\ o.cited \in 0..Samples /\ o.uncited \in 0..Samples
      /\ o.failures \in 0..Samples /\ o.calls \in 0..Samples
  BY <1>1 DEF Audits
<1>3. CASE Begin(t)
  <2> DEFINE x == "loop"
             a == [o EXCEPT !.at = x]
  <2>1. x \in Over \cup Running
    BY <1>1, <1>2, <1>3 DEF Begin, AuditInv, Taken, Over, Running
  <2> HIDE DEF x
  <2>2. /\ a \in Audits /\ a.at = x /\ a.cited = o.cited /\ a.uncited = o.uncited
        /\ a.failures = o.failures /\ a.calls = o.calls
    BY <1>1, <2>1 DEF Audits
  <2>3. AuditInv(a) /\ a.at \in Running \cup Over
    BY <1>1, <1>2, <1>3, <2>1, <2>2 DEF Begin, AuditInv, Taken, Over, Running, x
  <2> USE DEF x
  <2> QED BY <1>1, <1>3, <2>2, <2>3, AuditStep DEF Begin, Becomes, planVars, Running
<1>4. CASE SkipOpen(t)
  <2> DEFINE x == "open"
             f == IF o.calls = 0 THEN 1 ELSE o.failures
             a == [o EXCEPT !.at = x, !.failures = f]
  <2>1. x \in Over \cup Running /\ f \in 0..Samples
    BY <1>1, <1>2, <1>4 DEF SkipOpen, AuditInv, Taken, Over, Running
  <2> HIDE DEF x, f
  <2>2. /\ a \in Audits /\ a.at = x /\ a.cited = o.cited /\ a.uncited = o.uncited
        /\ a.failures = f /\ a.calls = o.calls
    BY <1>1, <2>1 DEF Audits
  <2>3. AuditInv(a) /\ a.at \in Running \cup Over
    BY <1>1, <1>2, <1>4, <2>1, <2>2 DEF SkipOpen, AuditInv, Taken, Over, Running, x, f
  <2> USE DEF x, f
  <2> QED BY <1>1, <1>4, <2>2, <2>3, AuditStep DEF SkipOpen, Becomes, planVars, Running
<1>5. CASE ReserveSample(t)
  <2> DEFINE x == "asking"
             k == o.calls + 1
             a == [o EXCEPT !.at = x, !.calls = k]
  <2>1. x \in Over \cup Running /\ k \in 0..Samples
    BY <1>1, <1>2, <1>5 DEF ReserveSample, AuditInv, Taken, Over, Running
  <2> HIDE DEF x, k
  <2>2. /\ a \in Audits /\ a.at = x /\ a.cited = o.cited /\ a.uncited = o.uncited
        /\ a.failures = o.failures /\ a.calls = k
    BY <1>1, <2>1 DEF Audits
  <2>3. AuditInv(a) /\ a.at \in Running \cup Over
    BY <1>1, <1>2, <1>5, <2>1, <2>2 DEF ReserveSample, AuditInv, Taken, Over, Running, x, k
  <2>4. Price[t] \in Nat
    BY DEF ConstantsAssumption
  <2>5. calls' \in 0..MaxCalls /\ left' \in 0..Budget
    BY <1>1, <1>5, <2>4 DEF ReserveSample, Reserve, Affords
  <2> USE DEF x, k
  <2> QED BY <1>5, <2>2, <2>3, <2>5, AuditStep DEF ReserveSample, Becomes, Running
<1>6. CASE RefuseSample(t)
  <2> DEFINE x == IF o.calls = 0 THEN "raised" ELSE "refused"
             a == [o EXCEPT !.at = x]
  <2>1. x \in Over \cup Running
    BY <1>1, <1>2, <1>6 DEF RefuseSample, AuditInv, Taken, Over, Running
  <2> HIDE DEF x
  <2>2. /\ a \in Audits /\ a.at = x /\ a.cited = o.cited /\ a.uncited = o.uncited
        /\ a.failures = o.failures /\ a.calls = o.calls
    BY <1>1, <2>1 DEF Audits
  <2>3. AuditInv(a) /\ a.at \in Running \cup Over
    BY <1>1, <1>2, <1>6, <2>1, <2>2 DEF RefuseSample, AuditInv, Taken, Over, Running, x
  <2> USE DEF x
  <2> QED BY <1>1, <1>6, <2>2, <2>3, AuditStep DEF RefuseSample, Becomes, planVars, Running
<1>7. ASSUME NEW cites \in BOOLEAN, Answered(t, cites)
      PROVE  IInv'
  <2> DEFINE b == IF cites THEN [o EXCEPT !.cited = o.cited + 1]
                  ELSE [o EXCEPT !.uncited = o.uncited + 1]
             a == [b EXCEPT !.at = AfterAnswer(b)]
  <2>1. o.at = "asking" /\ Taken(o) + 1 = o.calls
    BY <1>1, <1>7 DEF Answered, AuditInv
  <2>2. /\ b \in Audits /\ b.calls = o.calls /\ b.failures = o.failures
        /\ b.cited + b.uncited = o.cited + o.uncited + 1
    <3>1. CASE cites
      BY <1>1, <1>2, <2>1, <3>1 DEF Audits, Taken
    <3>2. CASE ~ cites
      BY <1>1, <1>2, <2>1, <3>2 DEF Audits, Taken
    <3> QED BY <3>1, <3>2
  <2>3. Taken(b) = b.calls
    BY <1>2, <2>1, <2>2 DEF Taken, Audits
  <2> HIDE DEF b
  <2>4. /\ a \in Audits /\ a.at = AfterAnswer(b) /\ a.cited = b.cited
        /\ a.uncited = b.uncited /\ a.failures = b.failures /\ a.calls = b.calls
    BY <2>2 DEF Audits, AfterAnswer, Over, Running
  <2>5. AuditInv(a) /\ a.at \in Running \cup Over
    BY <1>1, <2>2, <2>3, <2>4 DEF Audits, AfterAnswer, Agreed, AuditInv, Taken, Over, Running
  <2> USE DEF b
  <2> QED BY <1>1, <1>7, <2>1, <2>4, <2>5, AuditStep DEF Answered, Becomes, planVars, Running
<1>8. CASE Failed(t)
  <2> DEFINE x == IF o.calls = Samples THEN "full" ELSE "loop"
             f == o.failures + 1
             a == [o EXCEPT !.at = x, !.failures = f]
  <2>1. x \in Over \cup Running /\ f \in 0..Samples
    BY <1>1, <1>2, <1>8 DEF Failed, AuditInv, Taken, Over, Running
  <2> HIDE DEF x, f
  <2>2. /\ a \in Audits /\ a.at = x /\ a.cited = o.cited /\ a.uncited = o.uncited
        /\ a.failures = f /\ a.calls = o.calls
    BY <1>1, <2>1 DEF Audits
  <2>3. AuditInv(a) /\ a.at \in Running \cup Over
    BY <1>1, <1>2, <1>8, <2>1, <2>2 DEF Failed, AuditInv, Taken, Over, Running, x, f
  <2> USE DEF x, f
  <2> QED BY <1>1, <1>8, <2>2, <2>3, AuditStep DEF Failed, Becomes, planVars, Running
<1>9. CASE Breaks(t)
  <2> DEFINE x == "broken"
             a == [o EXCEPT !.at = x]
  <2>1. x \in Over \cup Running
    BY <1>1, <1>2, <1>9 DEF Breaks, AuditInv, Taken, Over, Running
  <2> HIDE DEF x
  <2>2. /\ a \in Audits /\ a.at = x /\ a.cited = o.cited /\ a.uncited = o.uncited
        /\ a.failures = o.failures /\ a.calls = o.calls
    BY <1>1, <2>1 DEF Audits
  <2>3. AuditInv(a) /\ a.at \in Running \cup Over
    BY <1>1, <1>2, <1>9, <2>1, <2>2 DEF Breaks, AuditInv, Taken, Over, Running, x
  <2> USE DEF x
  <2> QED BY <1>1, <1>9, <2>2, <2>3, AuditStep DEF Breaks, Becomes, planVars, Running
<1> QED BY <1>3, <1>4, <1>5, <1>6, <1>7, <1>8, <1>9 DEF Sampling

\* A step that leaves the pool and the futures alone keeps what an audit's
\* counters say.
LEMMA SameAudits ==
  ASSUME IInv, audit' = audit
  PROVE  /\ \A t \in Tasks : AuditInv(audit'[t])
         /\ Reused' = Reused
  BY DEF IInv, Reused

\* The future `next` is collected, or passed over: the outcomes and the stop
\* reason are what MainInv says of one future more.
LEMMA CollectStep ==
  ASSUME ConstantsAssumption, IInv, next \in Tasks, phase = "audit", next' = next + 1,
         audit[next].at \in Settled,
         stop' = (stop \/ audit[next].at \in {"raised", "refused"}),
         outcomes' = IF audit[next].at \in {"raised", "reused"} THEN outcomes
                     ELSE outcomes \cup {next},
         engineCalls' \in Nat, spent' \in Nat,
         UNCHANGED <<phase, audit, planVars, keywordVars, storeVars>>
  PROVE  IInv'
<1>1. next \in 1..NumTasks /\ next' \in 1..(NumTasks + 1) /\ NumTasks \in Nat
  BY DEF IInv, TypeOK, ConstantsAssumption, Tasks
<1>2. stop' \in BOOLEAN
  BY Zenon DEF IInv, TypeOK
<1>3. outcomes' \subseteq Tasks
  BY DEF IInv, TypeOK
<1>4. TypeOK'
  BY <1>1, <1>2, <1>3 DEF IInv, TypeOK, planVars, keywordVars, storeVars
<1>5. \A t \in Tasks : t < next' <=> t < next \/ t = next
  BY <1>1 DEF Tasks
<1>6. MainInv'
  <2>1. \A t \in Tasks : t < next' => audit'[t].at \in Settled
    BY <1>5 DEF IInv, MainInv
  <2>2. \A t \in Tasks : t \in outcomes' <=> \/ audit'[t].at = "reused"
                                             \/ t < next' /\ audit'[t].at # "raised"
    BY <1>5 DEF IInv, MainInv
  <2>3. stop <=> \E t \in Tasks : t < next /\ audit[t].at \in {"raised", "refused"}
    BY DEF IInv, MainInv
  <2>4. stop' <=> \E t \in Tasks : t < next' /\ audit'[t].at \in {"raised", "refused"}
    BY <1>5, <2>3
  <2>5. keywordCalls' = 0 /\ phase' = "audit"
    BY DEF IInv, MainInv, keywordVars
  <2> QED BY <2>1, <2>2, <2>4, <2>5 DEF MainInv
<1>7. /\ snapshots' = snapshots /\ samples' = samples /\ cursor' = 1 /\ phase' = "audit"
  BY DEF IInv, StoreInv, storeVars
<1>8. \A t \in Tasks : PromptOf[t] \in 1..NumPrompts
  BY DEF ConstantsAssumption, Prompts
<1>9. StoreInv'
  BY <1>3, <1>7, <1>8, SameAudits DEF IInv, StoreInv
<1> QED BY <1>4, <1>6, <1>9, SameAudits DEF IInv

\* The main thread's steps over the futures keep the invariant.
LEMMA CollectingKeeps ==
  ASSUME ConstantsAssumption, IInv,
         PassReused \/ \E t \in Tasks : Collect(t) \/ CollectRefusal(t)
  PROVE  IInv'
<1>1. /\ engineCalls \in Nat /\ spent \in Nat /\ stop \in BOOLEAN
      /\ \A t \in Tasks : audit[t].calls \in Nat /\ Price[t] \in Nat
  <2>1. stop \in BOOLEAN
    BY Zenon DEF IInv, TypeOK
  <2>2. ASSUME NEW t \in Tasks PROVE audit[t].calls \in Nat /\ Price[t] \in Nat
    BY DEF IInv, TypeOK, Audits, ConstantsAssumption
  <2> QED BY <2>1, <2>2 DEF IInv, TypeOK
<1>2. CASE PassReused
  <2>1. /\ next \in Tasks /\ audit[next].at = "reused" /\ stop' = stop /\ outcomes' = outcomes
    BY <1>2 DEF PassReused, Reused
  <2> QED BY <1>1, <1>2, <2>1, CollectStep DEF PassReused, Settled
<1>3. ASSUME NEW t \in Tasks, Collect(t) PROVE IInv'
  <2>1. /\ next = t /\ phase = "audit"
        /\ audit[t].at \in Settled /\ audit[t].at \notin {"raised", "reused"}
    BY <1>3 DEF Collect, Awaited, Settled, Over
  <2>2. engineCalls' \in Nat /\ spent' \in Nat
    <3>1. Cost(t) \in Nat
      BY <1>1 DEF Cost
    <3> QED BY <1>1, <1>3, <3>1 DEF Collect
  <2>3. stop' = (stop \/ audit[next].at \in {"raised", "refused"})
    BY <1>1, <1>3, <2>1 DEF Collect
  <2>4. /\ outcomes' = IF audit[next].at \in {"raised", "reused"} THEN outcomes
                       ELSE outcomes \cup {next}
        /\ next' = next + 1 /\ UNCHANGED <<phase, audit, planVars, keywordVars, storeVars>>
    BY <1>3, <2>1 DEF Collect
  <2> QED BY <2>1, <2>2, <2>3, <2>4, CollectStep
<1>4. ASSUME NEW t \in Tasks, CollectRefusal(t) PROVE IInv'
  <2>1. /\ next = t /\ phase = "audit" /\ audit[t].at \in Settled /\ audit[t].at = "raised"
    BY <1>4 DEF CollectRefusal, Awaited, Settled, Over
  <2>2. stop' = (stop \/ audit[next].at \in {"raised", "refused"})
    BY <1>1, <1>4, <2>1 DEF CollectRefusal
  <2>3. /\ outcomes' = IF audit[next].at \in {"raised", "reused"} THEN outcomes
                       ELSE outcomes \cup {next}
        /\ next' = next + 1 /\ engineCalls' = engineCalls /\ spent' = spent
        /\ UNCHANGED <<phase, audit, planVars, keywordVars, storeVars>>
    BY <1>4, <2>1 DEF CollectRefusal
  <2> QED BY <1>1, <2>1, <2>2, <2>3, CollectStep
<1> QED BY <1>2, <1>3, <1>4

\* A step that only changes the phase keeps the invariant if the new phase is
\* one the rest of the state allows.
LEMMA PhaseStep ==
  ASSUME ConstantsAssumption, IInv,
         phase' \in {"draining", "keywords", "store", "done", "failed", "crashed"},
         phase' \in {"keywords", "store", "done"} => next = NumTasks + 1,
         phase' = "keywords" => ~ stop /\ cursor = 1,
         phase' = "done" => cursor = NumPrompts + 1,
         UNCHANGED <<audit, planVars, mainVars, keywordVars, storeVars>>
  PROVE  IInv'
<1>1. /\ calls' = calls /\ left' = left /\ next' = next /\ stop' = stop /\ outcomes' = outcomes
      /\ engineCalls' = engineCalls /\ spent' = spent /\ keywordCalls' = keywordCalls
      /\ keywords' = keywords /\ cursor' = cursor /\ snapshots' = snapshots /\ samples' = samples
  BY DEF planVars, mainVars, keywordVars, storeVars
<1>2. TypeOK'
  BY <1>1 DEF IInv, TypeOK
<1>3. MainInv'
  BY <1>1 DEF IInv, MainInv
<1>4. StoreInv'
  BY <1>1, SameAudits DEF IInv, StoreInv
<1> QED BY <1>2, <1>3, <1>4, SameAudits DEF IInv

\* The steps that only move the main thread on keep the invariant.
LEMMA MovingKeeps ==
  ASSUME ConstantsAssumption, IInv,
         \/ \E t \in Tasks : CollectError(t)
         \/ Drained \/ EndAudit \/ EndLookUps \/ StoreRun \/ StoreFails \/ Crash
  PROVE  IInv'
<1>1. /\ next \in 1..(NumTasks + 1) /\ cursor \in 1..(NumPrompts + 1)
      /\ NumTasks \in Nat /\ NumPrompts \in Nat
  BY DEF IInv, TypeOK, ConstantsAssumption
<1>2. phase \in {"keywords", "store", "done"} => next = NumTasks + 1
  BY DEF IInv, MainInv
<1>3. phase = "audit" => cursor = 1
  BY DEF IInv, StoreInv
<1>4. CASE (\E t \in Tasks : CollectError(t)) \/ Drained \/ StoreFails \/ Crash
  BY <1>4, PhaseStep DEF CollectError, Drained, StoreFails, Crash
<1>5. CASE EndAudit
  <2>1. next = NumTasks + 1
    BY <1>1, <1>5 DEF EndAudit, Tasks
  <2> QED BY <1>3, <1>5, <2>1, PhaseStep DEF EndAudit
<1>6. CASE EndLookUps
  BY <1>2, <1>6, PhaseStep DEF EndLookUps
<1>7. CASE StoreRun
  <2>1. cursor = NumPrompts + 1
    BY <1>1, <1>7 DEF StoreRun, Prompts
  <2> QED BY <1>2, <1>7, <2>1, PhaseStep DEF StoreRun
<1> QED BY <1>4, <1>5, <1>6, <1>7

\* A keyword lookup that breaks the run keeps the invariant.
LEMMA LookUpBreaksKeeps ==
  ASSUME ConstantsAssumption, IInv, LookUpBreaks
  PROVE  IInv'
<1>1. /\ phase' = "failed" /\ phase = "keywords"
      /\ UNCHANGED <<audit, next, stop, outcomes, engineCalls, spent, keywordCalls, keywords,
                     cursor, snapshots, samples>>
  BY DEF LookUpBreaks, mainVars, keywordVars, storeVars
<1>2. calls' \in 0..MaxCalls /\ left' \in 0..Budget
  BY DEF IInv, TypeOK, ConstantsAssumption, LookUpBreaks, Affords, Reserve
<1>3. TypeOK'
  BY <1>1, <1>2 DEF IInv, TypeOK
<1>4. MainInv'
  BY <1>1 DEF IInv, MainInv
<1>5. StoreInv'
  BY <1>1, SameAudits DEF IInv, StoreInv
<1> QED BY <1>1, <1>3, <1>4, <1>5, SameAudits DEF IInv

\* A keyword lookup keeps the invariant.
LEMMA LookUpKeeps ==
  ASSUME ConstantsAssumption, IInv, LookUp
  PROVE  IInv'
<1>1. /\ phase = "keywords" /\ keywords' = keywords - 1 /\ keywords > 0
      /\ UNCHANGED <<phase, audit, next, stop, outcomes, engineCalls, cursor, snapshots, samples>>
  BY DEF LookUp, storeVars
<1>2. /\ KeywordPrice \in Nat /\ Keywords \in Nat /\ MaxCalls \in Nat /\ Budget \in Nat
      /\ calls \in 0..MaxCalls /\ left \in 0..Budget
      /\ keywordCalls \in Nat /\ spent \in Nat /\ keywords \in 0..Keywords
  BY DEF IInv, TypeOK, ConstantsAssumption
<1>3. /\ calls' \in 0..MaxCalls /\ left' \in 0..Budget
      /\ keywordCalls' \in Nat /\ spent' \in Nat
  BY <1>2 DEF LookUp, Affords, Reserve, planVars
<1>4. keywords' \in 0..Keywords
  BY <1>1, <1>2
<1>5. TypeOK'
  BY <1>1, <1>3, <1>4 DEF IInv, TypeOK
<1>6. MainInv'
  BY <1>1 DEF IInv, MainInv
<1>7. StoreInv'
  BY <1>1, SameAudits DEF IInv, StoreInv
<1> QED BY <1>1, <1>5, <1>6, <1>7, SameAudits DEF IInv

\* The writes keep the invariant: the prompts before the cursor are complete.
LEMMA StoringKeeps ==
  ASSUME ConstantsAssumption, IInv, StoreSnapshot \/ StoreSamples
  PROVE  IInv'
<1>1. /\ phase = "store" /\ cursor \in 1..NumPrompts /\ NumPrompts \in Nat
      /\ UNCHANGED <<phase, audit, calls, left, next, stop, outcomes, engineCalls, spent,
                     keywordCalls, keywords>>
  BY DEF StoreSnapshot, StoreSamples, planVars, mainVars, keywordVars, Prompts, ConstantsAssumption
<1>2. outcomes \subseteq Tasks /\ \A t \in Tasks : PromptOf[t] \in 1..NumPrompts
  BY DEF IInv, TypeOK, ConstantsAssumption, Prompts
<1>3. MainInv'
  BY <1>1 DEF IInv, MainInv
<1>4. CASE StoreSnapshot
  <2>1. PICK t \in Unwritten : snapshots' = snapshots \cup {t}
    BY <1>4 DEF StoreSnapshot
  <2>2. t \in outcomes \ Reused /\ cursor' = cursor /\ samples' = samples
    BY <1>4, <2>1 DEF Unwritten, StoreSnapshot
  <2>3. TypeOK'
    BY <1>1, <1>2, <2>1, <2>2 DEF IInv, TypeOK
  <2>4. StoreInv'
    BY <1>1, <2>1, <2>2, SameAudits DEF IInv, StoreInv
  <2> QED BY <1>1, <1>3, <2>3, <2>4, SameAudits DEF IInv
<1>5. CASE StoreSamples
  <2>1. /\ Unwritten = {} /\ cursor' = cursor + 1 /\ snapshots' = snapshots
        /\ samples' = samples \cup {t \in outcomes \ Reused : PromptOf[t] = cursor}
    BY <1>5 DEF StoreSamples
  <2>2. samples' \subseteq Tasks /\ cursor' \in 1..(NumPrompts + 1)
    BY <1>1, <1>2, <2>1 DEF IInv, TypeOK
  <2>3. TypeOK'
    BY <1>1, <2>1, <2>2 DEF IInv, TypeOK
  <2>4. \A t \in outcomes \ Reused : PromptOf[t] < cursor' => t \in snapshots /\ t \in samples'
    <3> TAKE t \in outcomes \ Reused
    <3>1. CASE PromptOf[t] = cursor
      BY <2>1, <3>1 DEF Unwritten
    <3>2. CASE PromptOf[t] # cursor
      BY <1>1, <1>2, <2>1, <3>2 DEF IInv, StoreInv
    <3> QED BY <3>1, <3>2
  <2>5. StoreInv'
    BY <1>1, <2>1, <2>4, SameAudits DEF IInv, StoreInv
  <2> QED BY <1>1, <1>3, <2>3, <2>5, SameAudits DEF IInv
<1> QED BY <1>4, <1>5

\* Every step keeps the invariant.
LEMMA InvariantKept == ConstantsAssumption /\ IInv /\ [Next]_vars => IInv'
<1> SUFFICES ASSUME ConstantsAssumption, IInv, [Next]_vars PROVE IInv'
  OBVIOUS
<1>1. ASSUME NEW t \in Tasks, Sampling(t) PROVE IInv'
  BY <1>1, SamplingKeeps
<1>2. CASE PassReused \/ \E t \in Tasks : Collect(t) \/ CollectRefusal(t)
  BY <1>2, CollectingKeeps
<1>3. CASE \/ \E t \in Tasks : CollectError(t)
           \/ Drained \/ EndAudit \/ EndLookUps \/ StoreRun \/ StoreFails \/ Crash
  BY <1>3, MovingKeeps
<1>4. CASE LookUp \/ LookUpBreaks
  BY <1>4, LookUpKeeps, LookUpBreaksKeeps
<1>5. CASE StoreSnapshot \/ StoreSamples
  BY <1>5, StoringKeeps
<1>6. CASE UNCHANGED vars
  <2>1. UNCHANGED <<phase, audit, calls, left, next, stop, outcomes, engineCalls, spent,
                    keywordCalls, keywords, cursor, snapshots, samples>>
    BY <1>6 DEF vars, planVars, mainVars, keywordVars, storeVars
  <2>2. TypeOK' /\ MainInv'
    BY <2>1 DEF IInv, TypeOK, MainInv
  <2>3. StoreInv'
    BY <2>1, SameAudits DEF IInv, StoreInv
  <2> QED BY <2>1, <2>2, <2>3, SameAudits DEF IInv
<1> QED BY <1>1, <1>2, <1>3, <1>4, <1>5, <1>6 DEF Next, Finishing

\* The invariant holds in every reachable state.
LEMMA InvariantAlways == ASSUME ConstantsAssumption PROVE Spec => []IInv
<1>1. Init => IInv
  BY InitInvariant
<1>2. IInv /\ [Next]_vars => IInv'
  BY InvariantKept
<1> QED BY <1>1, <1>2, PTL DEF Spec

\* The counters of every audit, and of the run, stay within the plan's caps.
THEOREM TypeCorrect == ASSUME ConstantsAssumption PROVE Spec => []TypeOK
<1>1. IInv => TypeOK
  BY DEF IInv
<1> QED BY <1>1, InvariantAlways, PTL

\* When the run's row is written, no answer that was paid for is missing from
\* the database, whatever the caps, the prices and the failures were.
THEOREM PaidKeptAlways == ASSUME ConstantsAssumption PROVE Spec => []PaidKept
<1>1. IInv => PaidKept
  <2> SUFFICES ASSUME IInv, phase = "done", NEW t \in Tasks, Answers(t) > 0
               PROVE  t \in snapshots \cap samples
    BY DEF PaidKept
  <2>1. audit[t] \in Audits /\ AuditInv(audit[t])
    BY DEF IInv, TypeOK
  <2>2. audit[t].at \notin {"queued", "reused", "raised"}
    BY <2>1 DEF AuditInv, Answers, Taken, Audits
  <2>3. t < next
    BY DEF IInv, MainInv, Tasks, ConstantsAssumption
  <2>4. t \in outcomes \ Reused
    BY <2>2, <2>3 DEF IInv, MainInv, Reused
  <2>5. PromptOf[t] < cursor
    <3>1. PromptOf[t] \in 1..NumPrompts /\ NumPrompts \in Nat
      BY DEF ConstantsAssumption, Prompts
    <3> QED BY <3>1 DEF IInv, StoreInv
  <2> QED BY <2>4, <2>5 DEF IInv, StoreInv
<1> QED BY <1>1, InvariantAlways, PTL

\* The run is reported as stopped early exactly when a task was refused, and
\* no keyword is paid for after that.
THEOREM StopReportedAlways == ASSUME ConstantsAssumption PROVE Spec => []StopReported
<1>1. IInv => StopReported
  <2> SUFFICES ASSUME IInv, phase \in {"keywords", "store", "done"}
               PROVE  /\ stop <=> \E t \in Tasks : audit[t].at \in {"raised", "refused"}
                      /\ stop => keywordCalls = 0
    BY DEF StopReported
  <2>1. \A t \in Tasks : t < next
    BY DEF IInv, MainInv, Tasks, ConstantsAssumption
  <2> QED BY <2>1 DEF IInv, MainInv
<1> QED BY <1>1, InvariantAlways, PTL

\* An audit that nobody refused took every sample or stopped on answers that
\* agree, and no snapshot is made of nothing.
THEOREM SampledAlways == ASSUME ConstantsAssumption PROVE Spec => []Sampled
<1>1. IInv => Sampled
  <2> SUFFICES ASSUME IInv, NEW t \in Tasks
               PROVE  LET a == audit[t] IN
                      /\ a.at \in {"full", "agreed"} =>
                           \/ a.calls = Samples
                           \/ Answers(t) >= MinSamples /\ (a.cited = 0 \/ a.uncited = 0)
                      /\ t \in snapshots => Answers(t) + a.failures > 0
    BY DEF Sampled
  <2>1. audit[t] \in Audits /\ AuditInv(audit[t])
    BY DEF IInv, TypeOK
  <2>2. /\ Samples \in Nat \ {0} /\ MinSamples \in Nat \ {0}
        /\ audit[t].cited \in Nat /\ audit[t].uncited \in Nat /\ audit[t].failures \in Nat
    BY <2>1 DEF ConstantsAssumption, Audits
  <2>3. ASSUME t \in snapshots
        PROVE  audit[t].at \in {"full", "agreed", "open", "refused"}
    BY <2>3 DEF IInv, MainInv, StoreInv, Reused, Settled, Over
  <2> QED BY <2>1, <2>2, <2>3 DEF AuditInv, Agreed, Taken, Answers
<1> QED BY <1>1, InvariantAlways, PTL

----------------------------------------------------------------------------
(* What the run counts, against what its audits were charged.              *)

\* s[n] is what the first n tasks come to, of x per task.
PartialSums(s, x) ==
  /\ s \in [0..NumTasks -> Nat] /\ s[0] = 0
  /\ \A t \in Tasks : s[t] = s[t - 1] + x[t]

CallsOf == [t \in Tasks |-> audit[t].calls]
CostOf == [t \in Tasks |-> Cost(t)]

\* The main thread has added up the calls and the money of the futures before
\* `next`; the plan has those of all tasks, of the futures still ahead too.
\* A lookup that breaks is in the plan only.
AccountInv == \E c, m :
  /\ PartialSums(c, CallsOf) /\ PartialSums(m, CostOf)
  /\ engineCalls = c[next - 1]
  /\ phase # "failed" =>
       /\ calls = c[NumTasks] + keywordCalls
       /\ Budget - left = m[NumTasks] + (spent - m[next - 1])

\* One task's share grew by d: so did every sum that it is part of.
LEMMA SumsRaised ==
  ASSUME ConstantsAssumption, NEW x, NEW y, NEW s, PartialSums(s, x),
         NEW t \in Tasks, NEW d \in Nat, y[t] = x[t] + d,
         \A u \in Tasks : x[u] \in Nat /\ (u # t => y[u] = x[u])
  PROVE  \E g : /\ PartialSums(g, y)
                /\ \A n \in 0..NumTasks : g[n] = IF n >= t THEN s[n] + d ELSE s[n]
<1> DEFINE g == [n \in 0..NumTasks |-> IF n >= t THEN s[n] + d ELSE s[n]]
<1>1. NumTasks \in Nat /\ t \in 1..NumTasks /\ Tasks = 1..NumTasks
  BY DEF ConstantsAssumption, Tasks
<1>2. \A n \in 0..NumTasks : s[n] \in Nat
  BY DEF PartialSums
<1>3. g \in [0..NumTasks -> Nat]
  BY <1>2
<1>7. g[0] = 0
  <2>1. s[0] = 0 /\ ~ (0 >= t) /\ 0 \in 0..NumTasks
    BY <1>1 DEF PartialSums
  <2> QED BY <2>1
<1>4. ASSUME NEW u \in Tasks PROVE g[u] = g[u - 1] + y[u]
  <2>1. u \in 0..NumTasks /\ u - 1 \in 0..NumTasks /\ u \in Int /\ t \in Int
    BY <1>1
  <2>2. s[u] = s[u - 1] + x[u] /\ x[u] \in Nat
    BY DEF PartialSums
  <2>3. s[u] \in Nat /\ s[u - 1] \in Nat
    BY <1>2, <2>1
  <2>4. /\ g[u] = IF u >= t THEN s[u] + d ELSE s[u]
        /\ g[u - 1] = IF u - 1 >= t THEN s[u - 1] + d ELSE s[u - 1]
    BY <2>1
  <2> HIDE DEF g
  <2>5. CASE u = t
    BY <2>1, <2>2, <2>3, <2>4, <2>5
  <2>6. CASE u # t
    <3>1. y[u] = x[u] /\ (u >= t <=> u - 1 >= t)
      BY <2>1, <2>6
    <3> QED BY <2>1, <2>2, <2>3, <2>4, <3>1
  <2> QED BY <2>5, <2>6
<1>5. PartialSums(g, y)
  BY <1>3, <1>4, <1>7 DEF PartialSums
<1> QED BY <1>5

\* What every use of the sums starts from.
LEMMA Shares ==
  ASSUME ConstantsAssumption, IInv
  PROVE  /\ NumTasks \in Nat /\ next \in 1..(NumTasks + 1) /\ Tasks = 1..NumTasks
         /\ calls \in Nat /\ left \in Int /\ Budget \in Nat
         /\ engineCalls \in Nat /\ keywordCalls \in Nat /\ spent \in Nat
         /\ \A t \in Tasks : /\ audit[t].calls \in Nat /\ Price[t] \in Nat /\ Cost(t) \in Nat
                             /\ CallsOf[t] = audit[t].calls /\ CostOf[t] = Cost(t)
<1>1. ASSUME NEW t \in Tasks
      PROVE  audit[t].calls \in Nat /\ Price[t] \in Nat /\ Cost(t) \in Nat
  <2>1. audit[t].calls \in Nat /\ Price[t] \in Nat
    BY DEF IInv, TypeOK, Audits, ConstantsAssumption
  <2> QED BY <2>1 DEF Cost
<1> QED BY <1>1 DEF IInv, TypeOK, ConstantsAssumption, Tasks, CallsOf, CostOf

\* The sums the accounts look at.
LEMMA SumsAt ==
  ASSUME ConstantsAssumption, IInv, NEW x, NEW s, PartialSums(s, x)
  PROVE  /\ s[NumTasks] \in Nat /\ s[next - 1] \in Nat
         /\ next \in Tasks => /\ s[next] \in Nat /\ s[next] = s[next - 1] + x[next]
                              /\ next + 1 - 1 = next
<1>1. NumTasks \in Nat /\ next \in 1..(NumTasks + 1) /\ Tasks = 1..NumTasks
  BY Shares
<1>2. NumTasks \in 0..NumTasks /\ next - 1 \in 0..NumTasks
  BY <1>1
<1>3. s[NumTasks] \in Nat /\ s[next - 1] \in Nat
  BY <1>2 DEF PartialSums
<1>4. ASSUME next \in Tasks
      PROVE  s[next] \in Nat /\ s[next] = s[next - 1] + x[next] /\ next + 1 - 1 = next
  <2>1. next \in 0..NumTasks /\ next + 1 - 1 = next
    BY <1>1, <1>4
  <2> QED BY <1>4, <2>1 DEF PartialSums
<1> QED BY <1>3, <1>4

\* The accounts hold initially: nothing was asked, of nobody.
LEMMA AccountInit == ConstantsAssumption /\ Init => AccountInv
<1> SUFFICES ASSUME ConstantsAssumption, Init PROVE AccountInv
  OBVIOUS
<1> DEFINE z == [n \in 0..NumTasks |-> 0]
<1>1. NumTasks \in Nat /\ Tasks = 1..NumTasks /\ Budget \in Nat
  BY DEF ConstantsAssumption, Tasks
<1>2. ASSUME NEW t \in Tasks PROVE audit[t].calls = 0 /\ Cost(t) = 0
  <2>1. audit[t].calls = 0
    BY DEF Init, Fresh
  <2>2. Price[t] \in Nat
    BY DEF ConstantsAssumption
  <2> QED BY <2>1, <2>2 DEF Cost
<1>3. PartialSums(z, CallsOf) /\ PartialSums(z, CostOf)
  BY <1>1, <1>2 DEF PartialSums, CallsOf, CostOf
<1>4. /\ engineCalls = z[next - 1] /\ calls = z[NumTasks] + keywordCalls
      /\ Budget - left = z[NumTasks] + (spent - z[next - 1])
  BY <1>1 DEF Init
<1> QED BY <1>3, <1>4 DEF AccountInv

\* A step that leaves every audit's calls alone, and what the plan and the main
\* thread have counted, or that breaks the run.
LEMMA SameShares ==
  ASSUME AccountInv, CallsOf' = CallsOf, CostOf' = CostOf,
         UNCHANGED <<next, engineCalls, spent>>, phase = "failed" => phase' = "failed",
         \/ phase' = "failed"
         \/ UNCHANGED <<calls, left, keywordCalls>>
  PROVE  AccountInv'
<1>1. PICK c, m :
        /\ PartialSums(c, CallsOf) /\ PartialSums(m, CostOf)
        /\ engineCalls = c[next - 1]
        /\ phase # "failed" =>
             /\ calls = c[NumTasks] + keywordCalls
             /\ Budget - left = m[NumTasks] + (spent - m[next - 1])
  BY DEF AccountInv
<1>2. /\ PartialSums(c, CallsOf') /\ PartialSums(m, CostOf')
      /\ engineCalls' = c[next' - 1]
      /\ phase' # "failed" =>
           /\ calls' = c[NumTasks] + keywordCalls'
           /\ Budget - left' = m[NumTasks] + (spent' - m[next' - 1])
  BY <1>1
<1> QED BY <1>2 DEF AccountInv

\* A reservation is in the plan's accounts and in those of its task, which the
\* main thread has not reached.
LEMMA ReserveAccounts ==
  ASSUME ConstantsAssumption, IInv, AccountInv, NEW t \in Tasks, ReserveSample(t), Pool
  PROVE  AccountInv'
<1>1. PICK c, m :
        /\ PartialSums(c, CallsOf) /\ PartialSums(m, CostOf)
        /\ engineCalls = c[next - 1]
        /\ phase # "failed" =>
             /\ calls = c[NumTasks] + keywordCalls
             /\ Budget - left = m[NumTasks] + (spent - m[next - 1])
  BY DEF AccountInv
<1>2. /\ audit' = [audit EXCEPT ![t].at = "asking", ![t].calls = @ + 1]
      /\ calls' = calls + 1 /\ left' = left - Price[t] /\ audit[t].at = "loop"
      /\ UNCHANGED <<phase, next, engineCalls, spent, keywordCalls>>
  BY DEF ReserveSample, Reserve, Becomes, mainVars, keywordVars
<1>3. ~ (t < next)
  BY <1>2 DEF IInv, MainInv, Settled, Over
<1>4. /\ audit'[t].calls = audit[t].calls + 1
      /\ \A u \in Tasks : u # t => audit'[u] = audit[u]
  BY <1>2 DEF IInv, TypeOK, Audits
<1>5. /\ CallsOf'[t] = CallsOf[t] + 1
      /\ \A u \in Tasks : CallsOf[u] \in Nat /\ (u # t => CallsOf'[u] = CallsOf[u])
  BY <1>4, Shares DEF CallsOf
<1>6. /\ CostOf'[t] = CostOf[t] + Price[t]
      /\ \A u \in Tasks : CostOf[u] \in Nat /\ (u # t => CostOf'[u] = CostOf[u])
  <2>1. CostOf'[t] = audit'[t].calls * Price[t]
    BY DEF CostOf, Cost
  <2>2. (audit[t].calls + 1) * Price[t] = audit[t].calls * Price[t] + Price[t]
    BY Shares
  <2> QED BY <1>4, <2>1, <2>2, Shares DEF CostOf, Cost
<1>7. PICK g : /\ PartialSums(g, CallsOf')
               /\ \A n \in 0..NumTasks : g[n] = IF n >= t THEN c[n] + 1 ELSE c[n]
  BY <1>1, <1>5, SumsRaised
<1>8. PICK h : /\ PartialSums(h, CostOf')
               /\ \A n \in 0..NumTasks : h[n] = IF n >= t THEN m[n] + Price[t] ELSE m[n]
  <2> DEFINE p == Price[t]
  <2>1. p \in Nat
    BY Shares
  <2>2. PartialSums(m, CostOf) /\ CostOf'[t] = CostOf[t] + p
    BY <1>1, <1>6
  <2> HIDE DEF p
  <2>3. \E h : /\ PartialSums(h, CostOf')
               /\ \A n \in 0..NumTasks : h[n] = IF n >= t THEN m[n] + p ELSE m[n]
    BY <1>6, <2>1, <2>2, SumsRaised
  <2> QED BY <2>3 DEF p
<1>9. /\ g[next - 1] = c[next - 1] /\ g[NumTasks] = c[NumTasks] + 1
      /\ h[next - 1] = m[next - 1] /\ h[NumTasks] = m[NumTasks] + Price[t]
  <2>1. /\ NumTasks \in 0..NumTasks /\ next - 1 \in 0..NumTasks
        /\ NumTasks >= t /\ ~ (next - 1 >= t)
    BY <1>3, Shares
  <2> QED BY <1>7, <1>8, <2>1
<1>10. /\ m[NumTasks] \in Nat /\ m[next - 1] \in Nat /\ c[NumTasks] \in Nat
       /\ calls \in Nat /\ left \in Int /\ Budget \in Nat /\ keywordCalls \in Nat
       /\ spent \in Nat /\ Price[t] \in Nat
  BY <1>1, SumsAt, Shares
<1>11. engineCalls' = g[next' - 1]
  BY <1>1, <1>2, <1>9
<1>12. phase # "failed"
  BY DEF Pool
<1>13. calls' = g[NumTasks] + keywordCalls'
  BY <1>1, <1>2, <1>9, <1>10, <1>12
<1>14. Budget - left' = h[NumTasks] + (spent' - h[next' - 1])
  <2>1. Budget - left = m[NumTasks] + (spent - m[next - 1])
    BY <1>1, <1>12
  <2>2. left' = left - Price[t] /\ spent' = spent /\ next' = next
    BY <1>2
  <2> QED BY <1>9, <1>10, <2>1, <2>2
<1> QED BY <1>7, <1>8, <1>11, <1>13, <1>14 DEF AccountInv

\* The main thread adds the calls and the money of the future `next`.
LEMMA CollectAccounts ==
  ASSUME ConstantsAssumption, IInv, AccountInv, next \in Tasks, next' = next + 1,
         engineCalls' = engineCalls + audit[next].calls, spent' = spent + Cost(next),
         UNCHANGED <<phase, audit, calls, left, keywordCalls>>
  PROVE  AccountInv'
<1>1. PICK c, m :
        /\ PartialSums(c, CallsOf) /\ PartialSums(m, CostOf)
        /\ engineCalls = c[next - 1]
        /\ phase # "failed" =>
             /\ calls = c[NumTasks] + keywordCalls
             /\ Budget - left = m[NumTasks] + (spent - m[next - 1])
  BY DEF AccountInv
<1>2. c[next] = c[next - 1] + audit[next].calls /\ m[next] = m[next - 1] + Cost(next)
  BY <1>1, SumsAt, Shares
<1>3. /\ m[NumTasks] \in Nat /\ m[next - 1] \in Nat /\ m[next] \in Nat
      /\ next' - 1 = next /\ Cost(next) \in Nat /\ spent \in Nat
  <2>1. PartialSums(m, CostOf)
    BY <1>1
  <2>2. m[NumTasks] \in Nat /\ m[next - 1] \in Nat /\ m[next] \in Nat
    BY <2>1, SumsAt, Zenon
  <2>3. next' - 1 = next
    BY Shares
  <2> QED BY <2>2, <2>3, Shares
<1>4. PartialSums(c, CallsOf') /\ PartialSums(m, CostOf')
  BY <1>1 DEF CallsOf, CostOf, Cost
<1>5. engineCalls' = c[next' - 1]
  BY <1>1, <1>2, <1>3
<1>6. spent' - m[next' - 1] = spent - m[next - 1]
  BY <1>2, <1>3
<1>7. phase' # "failed" =>
        /\ calls' = c[NumTasks] + keywordCalls'
        /\ Budget - left' = m[NumTasks] + (spent' - m[next' - 1])
  BY <1>1, <1>6
<1> QED BY <1>4, <1>5, <1>7 DEF AccountInv

\* A lookup is paid for where it is counted.
LEMMA LookUpAccounts ==
  ASSUME ConstantsAssumption, IInv, AccountInv, LookUp
  PROVE  AccountInv'
<1>1. PICK c, m :
        /\ PartialSums(c, CallsOf) /\ PartialSums(m, CostOf)
        /\ engineCalls = c[next - 1]
        /\ phase # "failed" =>
             /\ calls = c[NumTasks] + keywordCalls
             /\ Budget - left = m[NumTasks] + (spent - m[next - 1])
  BY DEF AccountInv
<1>2. UNCHANGED <<phase, audit, next, engineCalls>> /\ phase = "keywords"
  BY DEF LookUp
<1>3. \/ UNCHANGED <<calls, left, keywordCalls, spent>>
      \/ /\ calls' = calls + 1 /\ left' = left - KeywordPrice
         /\ keywordCalls' = keywordCalls + 1 /\ spent' = spent + KeywordPrice
  BY DEF LookUp, Reserve, planVars
<1>4. m[NumTasks] \in Nat /\ m[next - 1] \in Nat /\ c[NumTasks] \in Nat /\ KeywordPrice \in Nat
  BY <1>1, SumsAt DEF ConstantsAssumption
<1>7. calls \in Nat /\ left \in Int /\ Budget \in Nat /\ keywordCalls \in Nat /\ spent \in Nat
  BY Shares
<1>5. PartialSums(c, CallsOf') /\ PartialSums(m, CostOf')
  BY <1>1, <1>2 DEF CallsOf, CostOf, Cost
<1>6. engineCalls' = c[next' - 1]
  BY <1>1, <1>2
<1>8. calls' = c[NumTasks] + keywordCalls'
  BY <1>1, <1>2, <1>3, <1>4, <1>7
<1>9. Budget - left' = m[NumTasks] + (spent' - m[next' - 1])
  <2> DEFINE q == m[next - 1]
  <2>1. Budget - left = m[NumTasks] + (spent - q) /\ q \in Nat /\ m[next' - 1] = q
    BY <1>1, <1>2, <1>4
  <2> HIDE DEF q
  <2>2. Budget - left' = m[NumTasks] + (spent' - q)
    BY <1>3, <1>4, <1>7, <2>1
  <2> QED BY <2>1, <2>2
<1> QED BY <1>5, <1>6, <1>8, <1>9 DEF AccountInv

\* Every step keeps the accounts.
LEMMA AccountKept == ConstantsAssumption /\ IInv /\ AccountInv /\ [Next]_vars => AccountInv'
<1> SUFFICES ASSUME ConstantsAssumption, IInv, AccountInv, [Next]_vars PROVE AccountInv'
  OBVIOUS
<1>1. ASSUME NEW t \in Tasks, Sampling(t) PROVE AccountInv'
  <2>1. CASE ReserveSample(t)
    BY <1>1, <2>1, ReserveAccounts DEF Sampling
  <2>2. ASSUME NEW a, Becomes(t, a), a.calls = audit[t].calls,
               UNCHANGED <<phase, planVars, mainVars, keywordVars>>
        PROVE  AccountInv'
    <3>1. \A u \in Tasks : audit'[u].calls = audit[u].calls
      BY <2>2 DEF Becomes, IInv, TypeOK
    <3>2. CallsOf' = CallsOf /\ CostOf' = CostOf
      BY <3>1 DEF CallsOf, CostOf, Cost
    <3> QED BY <2>2, <3>2, SameShares DEF planVars, mainVars, keywordVars
  <2>3. audit[t] \in Audits
    BY DEF IInv, TypeOK
  <2>4. CASE Begin(t) \/ SkipOpen(t) \/ RefuseSample(t) \/ Failed(t) \/ Breaks(t)
    <3>1. UNCHANGED <<phase, planVars, mainVars, keywordVars>>
      BY <2>4 DEF Begin, SkipOpen, RefuseSample, Failed, Breaks
    <3>2. ASSUME NEW x, NEW f,
                 Becomes(t, [audit[t] EXCEPT !.at = x, !.failures = f])
                   \/ Becomes(t, [audit[t] EXCEPT !.at = x])
          PROVE  AccountInv'
      <4>1. [audit[t] EXCEPT !.at = x, !.failures = f].calls = audit[t].calls
        BY <2>3 DEF Audits
      <4>2. [audit[t] EXCEPT !.at = x].calls = audit[t].calls
        BY <2>3 DEF Audits
      <4> QED BY <2>2, <3>1, <3>2, <4>1, <4>2
    <3>3. CASE Begin(t)
      BY <3>2, <3>3, Zenon DEF Begin
    <3>4. CASE SkipOpen(t)
      BY <3>2, <3>4, Zenon DEF SkipOpen
    <3>5. CASE RefuseSample(t)
      BY <3>2, <3>5, Zenon DEF RefuseSample
    <3>6. CASE Failed(t)
      BY <3>2, <3>6, Zenon DEF Failed
    <3>7. CASE Breaks(t)
      BY <3>2, <3>7, Zenon DEF Breaks
    <3> QED BY <2>4, <3>3, <3>4, <3>5, <3>6, <3>7
  <2>5. ASSUME NEW cites \in BOOLEAN, Answered(t, cites) PROVE AccountInv'
    <3> DEFINE b == IF cites THEN [audit[t] EXCEPT !.cited = audit[t].cited + 1]
                    ELSE [audit[t] EXCEPT !.uncited = audit[t].uncited + 1]
               a == [b EXCEPT !.at = AfterAnswer(b)]
    <3>1. Becomes(t, a) /\ UNCHANGED <<phase, planVars, mainVars, keywordVars>>
      BY <2>5 DEF Answered
    <3>2. a.calls = audit[t].calls
      BY <2>3 DEF Audits
    <3> QED BY <2>2, <3>1, <3>2
  <2> QED BY <1>1, <2>1, <2>4, <2>5 DEF Sampling
<1>2. CASE PassReused \/ \E t \in Tasks : Collect(t) \/ CollectRefusal(t)
  <2>1. PICK t \in Tasks :
          /\ next = t /\ next' = next + 1 /\ UNCHANGED <<phase, audit, calls, left, keywordCalls>>
          /\ \/ Collect(t)
             \/ audit[t].at \in {"raised", "reused"} /\ UNCHANGED <<engineCalls, spent>>
    BY <1>2 DEF PassReused, Collect, CollectRefusal, Awaited, Reused, planVars, keywordVars
  <2>2. engineCalls' = engineCalls + audit[t].calls /\ spent' = spent + Cost(t)
    <3>1. CASE Collect(t)
      BY <3>1 DEF Collect
    <3>2. CASE audit[t].at \in {"raised", "reused"} /\ UNCHANGED <<engineCalls, spent>>
      <4>1. audit[t].calls = 0 /\ Price[t] \in Nat /\ engineCalls \in Nat /\ spent \in Nat
        BY <3>2, Shares DEF IInv, AuditInv
      <4>2. Cost(t) = 0
        BY <4>1 DEF Cost
      <4> QED BY <3>2, <4>1, <4>2
    <3> QED BY <2>1, <3>1, <3>2
  <2> QED BY <2>1, <2>2, CollectAccounts
<1>3. CASE LookUp
  BY <1>3, LookUpAccounts
<1>4. CASE \/ \E t \in Tasks : CollectError(t)
           \/ Drained \/ EndAudit \/ EndLookUps \/ StoreRun \/ StoreFails \/ Crash
           \/ LookUpBreaks \/ StoreSnapshot \/ StoreSamples \/ UNCHANGED vars
  <2>1. /\ audit' = audit /\ UNCHANGED <<next, engineCalls, spent>>
        /\ phase = "failed" => phase' = "failed"
        /\ phase' = "failed" \/ UNCHANGED <<calls, left, keywordCalls>>
    BY <1>4 DEF CollectError, Awaited, Drained, EndAudit, EndLookUps, StoreRun, StoreFails, Crash,
                LookUpBreaks, StoreSnapshot, StoreSamples, vars, mainVars, planVars, keywordVars
  <2>2. CallsOf' = CallsOf /\ CostOf' = CostOf
    BY <2>1 DEF CallsOf, CostOf, Cost
  <2> QED BY <2>1, <2>2, SameShares
<1> QED BY <1>1, <1>2, <1>3, <1>4 DEF Next, Finishing

\* When the run's row is written it accounts for every call that was reserved
\* and for all the money, whatever was refused, failed or reused on the way.
THEOREM AccountedAlways == ASSUME ConstantsAssumption PROVE Spec => []Accounted
<1>1. Init => AccountInv
  BY AccountInit
<1>2. IInv /\ AccountInv /\ [Next]_vars => AccountInv'
  BY AccountKept
<1>3. IInv /\ AccountInv => Accounted
  <2> SUFFICES ASSUME IInv, AccountInv, phase = "done"
               PROVE  engineCalls + keywordCalls = calls /\ spent = Budget - left
    BY DEF Accounted
  <2>1. PICK c, m :
          /\ PartialSums(c, CallsOf) /\ PartialSums(m, CostOf)
          /\ engineCalls = c[next - 1]
          /\ calls = c[NumTasks] + keywordCalls
          /\ Budget - left = m[NumTasks] + (spent - m[next - 1])
    BY DEF AccountInv
  <2>2. next - 1 = NumTasks /\ NumTasks \in Nat
    BY DEF IInv, MainInv, ConstantsAssumption
  <2>3. m[NumTasks] \in Nat /\ spent \in Nat
    BY <2>1, SumsAt, Shares
  <2> QED BY <2>1, <2>2, <2>3
<1> QED BY <1>1, <1>2, <1>3, InvariantAlways, PTL DEF Spec

-----------------------------------------------------------------------------
(* The tracked set. *)

\* Two sets, one onto the other without repeating, are as large.
Matches(S, T, b) == b \in [S -> T] /\ (\A y \in T : \E x \in S : b[x] = y) /\ \A x, y \in S : b[x] = b[y] => x = y
LEMMA SameSize ==
  ASSUME NEW S, IsFiniteSet(S), NEW T, NEW b, Matches(S, T, b)
  PROVE  IsFiniteSet(T) /\ Cardinality(T) = Cardinality(S)
<1>1. b \in Bijection(S, T)
  BY DEF Matches, Bijection, Injection, Surjection, IsInjective
<1>2. ExistsBijection(S, T)
  BY <1>1 DEF ExistsBijection
<1> QED BY <1>2, FS_Bijection, FS_CardinalityType

\* The first q of a set of numbers.
Low(T, q) == {t \in T : Cardinality({u \in T : u < t}) < q}
LEMMA LowSize ==
  ASSUME NEW T \in SUBSET Int, IsFiniteSet(T), NEW q \in Nat
  PROVE  /\ Cardinality(Low(T, q)) = Smaller(q, Cardinality(T))
         /\ \A t \in Low(T, q) : \A u \in T : u < t => u \in Low(T, q)
<1> DEFINE n == Cardinality(T)
           rank(t) == Cardinality({u \in T : u < t})
           m == Smaller(q, n)
           b == [k \in 1..m |-> InTurn(T)[k]]
<1>0. \A x \in T : x \in Int
  OBVIOUS
<1>1. n \in Nat
  BY FS_CardinalityType
<1>2. m \in Nat /\ m <= n /\ m <= q /\ (m = n \/ m = q)
  BY <1>1 DEF Smaller
<1>3. /\ InTurn(T) \in [1..n -> T]
      /\ \A i \in T : \E k \in 1..n : InTurn(T)[k] = i
      /\ \A j, k \in 1..n : j < k <=> InTurn(T)[j] < InTurn(T)[k]
      /\ \A i \in T : InTurn(T)[rank(i) + 1] = i
  BY InTurnUp
<1>4. \A t \in T : IsFiniteSet({u \in T : u < t}) /\ rank(t) \in Nat
  <2> SUFFICES ASSUME NEW t \in T PROVE IsFiniteSet({u \in T : u < t}) /\ rank(t) \in Nat
    OBVIOUS
  <2>1. IsFiniteSet({u \in T : u < t})
    BY FS_Subset
  <2> QED BY <2>1, FS_CardinalityType
<1>5. \A t, u \in T : u < t => rank(u) < rank(t)
  <2> SUFFICES ASSUME NEW t \in T, NEW u \in T, u < t PROVE rank(u) < rank(t)
    OBVIOUS
  <2> DEFINE A == {x \in T : x < u}
             B == {x \in T : x < t}
  <2>0. t \in Int /\ u \in Int
    BY <1>0
  <2>6. u \in B /\ u \notin A
    BY <2>0
  <2>7. \A x \in A : x \in B
    <3> SUFFICES ASSUME NEW x \in A PROVE x \in B
      OBVIOUS
    <3>1. x \in T /\ x < u /\ x \in Int
      BY <1>0
    <3>2. x < t
      BY <2>0, <3>1
    <3> QED BY <3>1, <3>2
  <2>1. A \in SUBSET B /\ u \in B /\ u \notin A
    <3> HIDE DEF A, B
    <3> QED BY <2>6, <2>7
  <2>3. IsFiniteSet(B)
    BY <1>4
  <2> HIDE DEF A, B
  <2>4. Cardinality(A) <= Cardinality(B) /\ Cardinality(A) # Cardinality(B) /\ IsFiniteSet(A)
    BY <2>1, <2>3, FS_Subset
  <2>5. Cardinality(A) \in Nat /\ Cardinality(B) \in Nat
    BY <2>3, <2>4, FS_CardinalityType
  <2>2. Cardinality(A) < Cardinality(B)
    BY <2>4, <2>5
  <2> QED BY <2>2 DEF A, B
<1>6. \A t \in T : rank(t) < n
  <2> SUFFICES ASSUME NEW t \in T PROVE rank(t) < n
    OBVIOUS
  <2> DEFINE A == {x \in T : x < t}
  <2>1. A \in SUBSET T /\ A # T
    OBVIOUS
  <2> HIDE DEF A
  <2>2. Cardinality(A) <= Cardinality(T) /\ Cardinality(A) # Cardinality(T) /\ IsFiniteSet(A)
    BY <2>1, FS_Subset
  <2>3. Cardinality(A) \in Nat
    BY <2>2, FS_CardinalityType
  <2> QED BY <1>1, <2>2, <2>3 DEF A
<1> DEFINE f == InTurn(T)
           r == [t \in T |-> rank(t)]
<1>7. /\ f \in [1..n -> T] /\ r \in [T -> 0..(n - 1)]
      /\ \A t \in T : f[r[t] + 1] = t
      /\ \A j, k \in 1..n : j < k <=> f[j] < f[k]
      /\ \A t \in T : t \in Low(T, q) <=> r[t] < q
  <2>1. \A t \in T : rank(t) \in 0..(n - 1)
    BY <1>1, <1>4, <1>6
  <2>2. \A t \in T : t \in Low(T, q) <=> rank(t) < q
    BY DEF Low
  <2> HIDE DEF rank, f
  <2>3. r \in [T -> 0..(n - 1)] /\ \A t \in T : r[t] = rank(t)
    BY <2>1
  <2> QED BY <1>3, <2>2, <2>3 DEF f
<1>12. \A t \in Low(T, q) : t \in T
  BY DEF Low
<1> HIDE DEF f, r, n
<1>13. \A j, k \in 1..n : f[j] = f[k] => j = k
  <2> SUFFICES ASSUME NEW j \in 1..n, NEW k \in 1..n, f[j] = f[k] PROVE j = k
    OBVIOUS
  <2>1. f[j] \in Int /\ f[k] \in Int /\ j \in Int /\ k \in Int
    <3>1. f[j] \in T /\ f[k] \in T
      BY <1>7
    <3>2. f[j] \in Int /\ f[k] \in Int
      BY <1>0, <3>1
    <3>3. j \in Int /\ k \in Int
      OBVIOUS
    <3> QED BY <3>2, <3>3
  <2>2. ~ (j < k) /\ ~ (k < j)
    BY <1>7, <2>1
  <2> QED BY <2>1, <2>2
<1>14. \A k \in 1..n : r[f[k]] = k - 1
  <2> SUFFICES ASSUME NEW k \in 1..n PROVE r[f[k]] = k - 1
    OBVIOUS
  <2>1. f[k] \in T
    BY <1>7
  <2>2. r[f[k]] \in 0..(n - 1) /\ f[r[f[k]] + 1] = f[k]
    BY <1>7, <2>1
  <2>3. r[f[k]] + 1 \in 1..n
    BY <1>1, <2>2
  <2>4. r[f[k]] + 1 = k
    BY <1>13, <2>2, <2>3
  <2> QED BY <2>2, <2>4
<1>8. Matches(1..m, Low(T, q), b)
  <2>1. \A k \in 1..m : k \in 1..n /\ b[k] = f[k] /\ f[k] \in Low(T, q)
    <3> SUFFICES ASSUME NEW k \in 1..m PROVE k \in 1..n /\ b[k] = f[k] /\ f[k] \in Low(T, q)
      OBVIOUS
    <3>1. k \in 1..n /\ b[k] = f[k]
      BY <1>1, <1>2 DEF f
    <3>2. f[k] \in T /\ r[f[k]] < q
      BY <1>2, <1>7, <1>14, <3>1
    <3> QED BY <1>7, <3>1, <3>2
  <2>2. b \in [1..m -> Low(T, q)]
    BY <2>1
  <2> HIDE DEF b
  <2>3. \A t \in Low(T, q) : \E k \in 1..m : b[k] = t
    <3> SUFFICES ASSUME NEW t \in Low(T, q) PROVE \E k \in 1..m : b[k] = t
      OBVIOUS
    <3>1. t \in T /\ r[t] < q /\ r[t] \in 0..(n - 1) /\ f[r[t] + 1] = t
      BY <1>7, <1>12
    <3>2. r[t] + 1 \in 1..m
      BY <1>1, <1>2, <3>1
    <3> QED BY <2>1, <3>1, <3>2
  <2>4. \A x, y \in 1..m : b[x] = b[y] => x = y
    BY <1>13, <2>1
  <2> QED BY <2>2, <2>3, <2>4 DEF Matches
<1>9. IsFiniteSet(1..m) /\ Cardinality(1..m) = m
  BY <1>2, FS_Interval
<1> HIDE DEF b, m
<1>10. Cardinality(Low(T, q)) = m
  BY <1>8, <1>9, SameSize
<1>11. \A t \in Low(T, q) : \A u \in T : u < t => u \in Low(T, q)
  <2> SUFFICES ASSUME NEW t \in Low(T, q), NEW u \in T, u < t PROVE u \in Low(T, q)
    OBVIOUS
  <2>1. t \in T /\ rank(t) < q /\ rank(t) \in Nat /\ rank(u) \in Nat /\ rank(u) < rank(t)
    BY <1>4, <1>5, <1>12 DEF Low
  <2> HIDE DEF rank
  <2>2. rank(u) < q
    BY <2>1
  <2> QED BY <2>2 DEF Low, rank
<1> QED BY <1>10, <1>11 DEF m, n

\* No two turns are the same.
LEMMA TurnsApart ==
  ASSUME NEW k \in Nat, NEW p \in Nat, NEW q \in Nat, NEW a \in 1..k, NEW b \in 1..k
  PROVE  /\ k * p + a \in Int /\ k * q + b \in Int
         /\ p < q => k * p + a < k * q + b
         /\ k * p + a = k * q + b => p = q /\ a = b
<1>1. \A x, y \in Nat : x < y => k * x + k <= k * y
  <2> SUFFICES ASSUME NEW x \in Nat, NEW y \in Nat, x < y PROVE k * x + k <= k * y
    OBVIOUS
  <2>1. PICK d \in Nat : y = x + 1 + d
    <3>1. y - x - 1 \in Nat /\ y = x + 1 + (y - x - 1)
      OBVIOUS
    <3> QED BY <3>1
  <2>2. k * y = k * x + k + k * d /\ k * d \in Nat /\ k * x \in Nat
    BY <2>1
  <2> QED BY <2>2
<1>2. k * p \in Nat /\ k * q \in Nat
  OBVIOUS
<1> DEFINE x == k * p
           y == k * q
<1>3. (p < q => x + k <= y) /\ (q < p => y + k <= x) /\ (p = q => x = y)
  BY <1>1
<1> HIDE DEF x, y
<1> QED BY <1>2, <1>3 DEF x, y

\* The stages are a list without repetition; a pool lists the candidates of a set, once each.
StagesListed == \E n \in Nat : DOMAIN Stages = 1..n /\ \A i, j \in 1..n : Stages[i] = Stages[j] => i = j
Rated(c) == c.score \in Int /\ c.volume \in Int /\ c.real \in BOOLEAN /\ c.stage \in Range1(Stages)
PoolOf(n, pool, C) ==
  /\ DOMAIN pool = 1..n /\ Matches(1..n, C, pool)
  /\ \A c \in C : Rated(c)
OfStage(C, s) == {c \in C : c.stage = s}

LEMMA StagesNumbered ==
  ASSUME StagesListed
  PROVE  /\ Len(Stages) \in Nat
         /\ \A s \in Range1(Stages) : StageNumber(s) \in 1..Len(Stages) /\ Stages[StageNumber(s)] = s
<1>1. PICK n \in Nat : DOMAIN Stages = 1..n /\ \A i, j \in 1..n : Stages[i] = Stages[j] => i = j
  BY DEF StagesListed
<1>2. Len(Stages) = n
  BY <1>1
<1>3. \A s \in Range1(Stages) : \E i \in DOMAIN Stages : Stages[i] = s
  BY DEF Range1
<1>4. \A s \in Range1(Stages) : StageNumber(s) \in DOMAIN Stages /\ Stages[StageNumber(s)] = s
  BY <1>3 DEF StageNumber
<1> QED BY <1>1, <1>2, <1>4

LEMMA RanksFill ==
  ASSUME NEW S, IsFiniteSet(S), NEW R, Orders(S, R)
  PROVE  \A p \in 0..(Cardinality(S) - 1) : \E x \in S : Cardinality(Preceding(S, R, x)) = p
<1> DEFINE m == Cardinality(S)
           o == [n \in 1..Cardinality(S) |-> CHOOSE x \in S : Cardinality(Preceding(S, R, x)) = n - 1]
           rank == [x \in S |-> Cardinality(Preceding(S, R, x))]
<1>1. Enumerates(S, R, o) /\ \A x \in S : o[Cardinality(Preceding(S, R, x)) + 1] = x
  <2>1. o = [n \in 1..Cardinality(S) |-> CHOOSE x \in S : Cardinality(Preceding(S, R, x)) = n - 1]
    OBVIOUS
  <2> HIDE DEF o
  <2> QED BY <2>1, RankLists
<1>2. m \in Nat
  BY FS_CardinalityType
<1>3. \A x \in S : Cardinality(Preceding(S, R, x)) \in 0..(Cardinality(S) - 1)
  BY RankOrders
<1> HIDE DEF o
<1>4. rank \in [S -> 0..(m - 1)] /\ \A x \in S : o[rank[x] + 1] = x
  BY <1>1, <1>3
<1>5. /\ o \in [1..m -> S]
      /\ \A x, y \in 1..m : x < y <=> <<o[x], o[y]>> \in R
  BY <1>1 DEF Enumerates
<1> SUFFICES ASSUME NEW p \in 0..(m - 1) PROVE \E x \in S : rank[x] = p
  BY DEF rank
<1> HIDE DEF rank, m
<1>6. p + 1 \in 1..m /\ o[p + 1] \in S
  BY <1>2, <1>5
<1> DEFINE x == o[p + 1]
           j == rank[x] + 1
<1>7. x \in S /\ rank[x] \in 0..(m - 1) /\ j \in 1..m /\ o[j] = o[p + 1]
  BY <1>2, <1>4, <1>6
<1>8. <<x, x>> \notin R
  BY <1>6 DEF Orders
<1>9. ~ (j < p + 1) /\ ~ (p + 1 < j)
  BY <1>5, <1>6, <1>7, <1>8
<1>10. rank[x] = p
  BY <1>2, <1>7, <1>9
<1> QED BY <1>7, <1>10

\* In a stage each place is one candidate's.
LEMMA PlacesFill ==
  ASSUME NEW n \in Nat, NEW pool, NEW C, PoolOf(n, pool, C), NEW s, NEW B, B = Bucket(pool, s)
  PROVE  /\ IsFiniteSet(B) /\ B \in SUBSET (1..n) /\ Cardinality(B) \in Nat
         /\ \A i \in B : Place(pool, i) \in 0..(Cardinality(B) - 1)
         /\ \A i, j \in B : Before(pool, i, j) => Place(pool, i) < Place(pool, j)
         /\ \A i, j \in B : i = j \/ Before(pool, i, j) \/ Before(pool, j, i)
         /\ \A p \in 0..(Cardinality(B) - 1) : \E i \in B : Place(pool, i) = p
<1> DEFINE R == {x \in B \X B : Before(pool, x[1], x[2])}
<1>1. B \in SUBSET (1..n) /\ IsFiniteSet(B)
  <2>1. B \in SUBSET (1..n)
    BY DEF Bucket, PoolOf
  <2> QED BY <2>1, PlacesOf
<1>2. Cardinality(B) \in Nat
  BY <1>1, FS_CardinalityType
<1>3. \A i, j \in B : <<i, j>> \in R <=> Before(pool, i, j)
  OBVIOUS
<1>4. Orders(B, R)
  <2>1. \A i \in B : pool[i].score \in Int /\ pool[i].volume \in Int /\ pool[i].real \in BOOLEAN /\ i \in Int
    <3>1. \A i \in B : i \in 1..n
      BY <1>1
    <3>2. \A i \in 1..n : pool[i] \in C
      BY DEF PoolOf, Matches
    <3> QED BY <3>1, <3>2 DEF PoolOf, Rated
  <2>2. \A i \in B : ~ Before(pool, i, i)
    BY <2>1 DEF Before
  <2>3. \A i, j, k \in B : Before(pool, i, j) /\ Before(pool, j, k) => Before(pool, i, k)
    BY <2>1 DEF Before
  <2>4. \A i, j \in B : i = j \/ Before(pool, i, j) \/ Before(pool, j, i)
    BY <2>1 DEF Before
  <2> HIDE DEF R
  <2> QED BY <1>3, <2>2, <2>3, <2>4 DEF Orders
<1>5. \A i \in B : Place(pool, i) = Cardinality(Preceding(B, R, i))
  <2> SUFFICES ASSUME NEW i \in B PROVE Place(pool, i) = Cardinality(Preceding(B, R, i))
    OBVIOUS
  <2>1. B = Bucket(pool, pool[i].stage)
    BY DEF Bucket
  <2>2. {j \in B : Before(pool, j, i)} = Preceding(B, R, i)
    BY <1>3 DEF Preceding
  <2> QED BY <2>1, <2>2 DEF Place
<1> HIDE DEF R
<1>6. \A x \in B : /\ Cardinality(Preceding(B, R, x)) \in 0..(Cardinality(B) - 1)
                   /\ \A y \in B : <<y, x>> \in R => Cardinality(Preceding(B, R, y)) < Cardinality(Preceding(B, R, x))
  BY <1>1, <1>4, RankOrders
<1>8. \A p \in 0..(Cardinality(B) - 1) : \E i \in B : Cardinality(Preceding(B, R, i)) = p
  BY <1>1, <1>4, RanksFill
<1>9. \A i, j \in B : i = j \/ Before(pool, i, j) \/ Before(pool, j, i)
  BY <1>3, <1>4 DEF Orders
<1>10. \A i \in B : Place(pool, i) \in 0..(Cardinality(B) - 1)
  BY <1>5, <1>6
<1>11. \A i, j \in B : Before(pool, i, j) => Place(pool, i) < Place(pool, j)
  <2> SUFFICES ASSUME NEW i \in B, NEW j \in B, Before(pool, i, j) PROVE Place(pool, i) < Place(pool, j)
    OBVIOUS
  <2>1. Cardinality(Preceding(B, R, i)) < Cardinality(Preceding(B, R, j))
    BY <1>3, <1>6
  <2>2. Place(pool, i) = Cardinality(Preceding(B, R, i)) /\ Place(pool, j) = Cardinality(Preceding(B, R, j))
    BY <1>5
  <2> QED BY <2>1, <2>2
<1>12. \A p \in 0..(Cardinality(B) - 1) : \E i \in B : Place(pool, i) = p
  <2> SUFFICES ASSUME NEW p \in 0..(Cardinality(B) - 1) PROVE \E i \in B : Place(pool, i) = p
    OBVIOUS
  <2>1. PICK i \in B : Cardinality(Preceding(B, R, i)) = p
    BY <1>8
  <2>2. Place(pool, i) = p
    BY <1>5, <2>1
  <2> QED BY <2>2
<1> QED BY <1>1, <1>2, <1>9, <1>10, <1>11, <1>12

\* The turns a set of candidates fills, whatever order they are in, and of these a stage's
\* places among the first q.
Turn(p, s) == Len(Stages) * p + StageNumber(s)
Places(C, s) == 0..(Cardinality(OfStage(C, s)) - 1)
TurnsOf(C) == {t \in Int : \E s \in Range1(Stages) : \E p \in Places(C, s) : t = Turn(p, s)}
Share(C, q, s) == {p \in Places(C, s) : Turn(p, s) \in Low(TurnsOf(C), q)}

LEMMA PlacesOfStage ==
  ASSUME NEW n \in Nat, NEW pool, NEW C, PoolOf(n, pool, C), NEW s
  PROVE  /\ Cardinality(OfStage(C, s)) \in Nat
         /\ \A i \in Bucket(pool, s) : i \in 1..n /\ pool[i].stage = s /\ Place(pool, i) \in Places(C, s)
         /\ \A i, j \in Bucket(pool, s) : Place(pool, i) = Place(pool, j) => i = j
         /\ \A i, j \in Bucket(pool, s) : Place(pool, i) < Place(pool, j) => Before(pool, i, j)
         /\ \A p \in Places(C, s) : \E i \in Bucket(pool, s) : Place(pool, i) = p
<1> DEFINE B == Bucket(pool, s)
           D == OfStage(C, s)
           b == [i \in B |-> pool[i]]
<1>1. /\ IsFiniteSet(B) /\ B \in SUBSET (1..n) /\ Cardinality(B) \in Nat
      /\ \A i \in B : Place(pool, i) \in 0..(Cardinality(B) - 1)
      /\ \A i, j \in B : Before(pool, i, j) => Place(pool, i) < Place(pool, j)
      /\ \A i, j \in B : i = j \/ Before(pool, i, j) \/ Before(pool, j, i)
      /\ \A p \in 0..(Cardinality(B) - 1) : \E i \in B : Place(pool, i) = p
  BY PlacesFill
<1>2. Matches(B, D, b)
  BY DEF Matches, PoolOf, OfStage, Bucket
<1>3. \A i \in B : pool[i].stage = s
  BY DEF Bucket
<1> HIDE DEF B, D, b
<1>4. Cardinality(D) = Cardinality(B)
  BY <1>1, <1>2, SameSize
<1> DEFINE m == Cardinality(B)
           place == [i \in B |-> Place(pool, i)]
<1>5. m \in Nat /\ place \in [B -> 0..(m - 1)] /\ \A i \in B : place[i] = Place(pool, i)
  BY <1>1
<1> HIDE DEF m, place
<1>6. \A i, j \in B : (place[i] = place[j] => i = j) /\ (place[i] < place[j] => Before(pool, i, j))
  <2> SUFFICES ASSUME NEW i \in B, NEW j \in B
               PROVE  (place[i] = place[j] => i = j) /\ (place[i] < place[j] => Before(pool, i, j))
    OBVIOUS
  <2>1. place[i] \in Int /\ place[j] \in Int
    BY <1>5
  <2>2. (Before(pool, i, j) => place[i] < place[j]) /\ (Before(pool, j, i) => place[j] < place[i])
    BY <1>1, <1>5
  <2>3. i = j \/ Before(pool, i, j) \/ Before(pool, j, i)
    BY <1>1
  <2> QED BY <2>1, <2>2, <2>3
<1>7. Places(C, s) = 0..(m - 1) /\ Cardinality(OfStage(C, s)) = m
  BY <1>4 DEF Places, D, m
<1>8. \A i \in B : i \in 1..n /\ pool[i].stage = s /\ Place(pool, i) \in Places(C, s)
  BY <1>1, <1>3, <1>7 DEF m
<1>9. \A p \in Places(C, s) : \E i \in B : Place(pool, i) = p
  BY <1>1, <1>7 DEF m
<1>10. \A i, j \in B : Place(pool, i) = Place(pool, j) => i = j
  BY <1>5, <1>6
<1>11. \A i, j \in B : Place(pool, i) < Place(pool, j) => Before(pool, i, j)
  BY <1>5, <1>6
<1> QED BY <1>5, <1>7, <1>8, <1>9, <1>10, <1>11 DEF B

\* Turns of different places or stages differ.
LEMMA TurnsDiffer ==
  ASSUME StagesListed, NEW r \in Range1(Stages), NEW s \in Range1(Stages), NEW p \in Nat, NEW q \in Nat
  PROVE  /\ Turn(p, r) \in Int
         /\ p < q => Turn(p, r) < Turn(q, s)
         /\ Turn(p, r) = Turn(q, s) => p = q /\ r = s
<1>1. /\ Len(Stages) \in Nat
      /\ StageNumber(r) \in 1..Len(Stages) /\ Stages[StageNumber(r)] = r
      /\ StageNumber(s) \in 1..Len(Stages) /\ Stages[StageNumber(s)] = s
  BY StagesNumbered
<1> DEFINE k == Len(Stages)
           a == StageNumber(r)
           b == StageNumber(s)
<1>2. a = b => r = s
  BY <1>1
<1>3. k \in Nat /\ a \in 1..k /\ b \in 1..k
  BY <1>1
<1> HIDE DEF k, a, b
<1>4. /\ k * p + a \in Int /\ (p < q => k * p + a < k * q + b)
      /\ (k * p + a = k * q + b => p = q /\ a = b)
  BY <1>3, TurnsApart
<1>5. Turn(p, r) = k * p + a /\ Turn(q, s) = k * q + b
  BY DEF Turn, k, a, b
<1> QED BY <1>2, <1>4, <1>5

LEMMA TurnsMatch ==
  ASSUME StagesListed, NEW n \in Nat, NEW pool, NEW C, PoolOf(n, pool, C)
  PROVE  /\ Matches(1..n, TurnsOf(C), Rounds(pool))
         /\ \A i \in 1..n : /\ pool[i].stage \in Range1(Stages) /\ i \in Bucket(pool, pool[i].stage)
                            /\ Rounds(pool)[i] = Turn(Place(pool, i), pool[i].stage)
<1> DEFINE turn == Rounds(pool)
<1>1. \A i \in 1..n : pool[i] \in C /\ pool[i].stage \in Range1(Stages) /\ i \in Bucket(pool, pool[i].stage)
  BY DEF PoolOf, Matches, Rated, Bucket
<1>2. turn = [i \in 1..n |-> Turn(Place(pool, i), pool[i].stage)]
  BY DEF Rounds, Turn, PoolOf
<1>3. \A i \in 1..n : Place(pool, i) \in Places(C, pool[i].stage) /\ Place(pool, i) \in Nat
  <2> SUFFICES ASSUME NEW i \in 1..n PROVE Place(pool, i) \in Places(C, pool[i].stage) /\ Place(pool, i) \in Nat
    OBVIOUS
  <2>1. Place(pool, i) \in Places(C, pool[i].stage)
    BY <1>1, PlacesOfStage
  <2> QED BY <2>1 DEF Places
<1> HIDE DEF turn
<1>4. \A i \in 1..n : turn[i] = Turn(Place(pool, i), pool[i].stage)
  BY <1>2
<1>5. \A i \in 1..n : turn[i] \in TurnsOf(C)
  <2> SUFFICES ASSUME NEW i \in 1..n PROVE turn[i] \in TurnsOf(C)
    OBVIOUS
  <2>1. Turn(Place(pool, i), pool[i].stage) \in Int
    BY <1>1, <1>3, TurnsDiffer
  <2> QED BY <1>1, <1>3, <1>4, <2>1 DEF TurnsOf
<1>6. \A t \in TurnsOf(C) : \E i \in 1..n : turn[i] = t
  <2> SUFFICES ASSUME NEW t \in TurnsOf(C) PROVE \E i \in 1..n : turn[i] = t
    OBVIOUS
  <2>4. PICK s \in Range1(Stages) : \E p \in Places(C, s) : t = Turn(p, s)
    BY DEF TurnsOf
  <2>1. PICK p \in Places(C, s) : t = Turn(p, s)
    BY <2>4
  <2>2. PICK i \in Bucket(pool, s) : Place(pool, i) = p
    BY PlacesOfStage
  <2>3. i \in 1..n /\ pool[i].stage = s
    BY PlacesOfStage
  <2> QED BY <1>4, <2>1, <2>2, <2>3
<1>7. \A i, j \in 1..n : turn[i] = turn[j] => i = j
  <2> SUFFICES ASSUME NEW i \in 1..n, NEW j \in 1..n, turn[i] = turn[j] PROVE i = j
    OBVIOUS
  <2> DEFINE r == pool[i].stage
             s == pool[j].stage
             p == Place(pool, i)
             q == Place(pool, j)
  <2>1. Turn(p, r) = Turn(q, s)
    BY <1>4
  <2>2. r \in Range1(Stages) /\ s \in Range1(Stages) /\ p \in Nat /\ q \in Nat
    BY <1>1, <1>3
  <2>3. i \in Bucket(pool, r) /\ j \in Bucket(pool, s)
    BY <1>1
  <2> HIDE DEF r, s, p, q
  <2>4. p = q /\ r = s
    BY <2>1, <2>2, TurnsDiffer
  <2> QED BY <2>3, <2>4, PlacesOfStage DEF p, q
<1>8. Matches(1..n, TurnsOf(C), turn)
  BY <1>2, <1>5, <1>6, <1>7 DEF Matches
<1> QED BY <1>1, <1>4, <1>8 DEF turn

LEMMA PickOf ==
  ASSUME StagesListed, NEW n \in Nat, NEW pool, NEW C, PoolOf(n, pool, C), NEW q \in Nat
  PROVE  /\ TurnsOf(C) \in SUBSET Int /\ IsFiniteSet(TurnsOf(C)) /\ Cardinality(TurnsOf(C)) = n
         /\ \A i \in 1..n : i \in BalancedPick(pool, q) <=> Rounds(pool)[i] \in Low(TurnsOf(C), q)
<1> DEFINE turn == Rounds(pool)
           T == TurnsOf(C)
<1>1. Matches(1..n, T, turn)
  BY TurnsMatch
<1>2. T \in SUBSET Int
  BY DEF TurnsOf
<1>3. BalancedPick(pool, q) = {i \in 1..n : Cardinality({j \in 1..n : turn[j] < turn[i]}) < q}
  BY DEF BalancedPick, PoolOf
<1> HIDE DEF turn, T
<1>4. IsFiniteSet(1..n) /\ Cardinality(1..n) = n
  BY FS_Interval
<1>5. IsFiniteSet(T) /\ Cardinality(T) = n
  BY <1>1, <1>4, SameSize
<1>6. ASSUME NEW i \in 1..n
      PROVE  Cardinality({j \in 1..n : turn[j] < turn[i]}) = Cardinality({u \in T : u < turn[i]})
  <2> DEFINE A == {j \in 1..n : turn[j] < turn[i]}
             B == {u \in T : u < turn[i]}
             b == [j \in A |-> turn[j]]
  <2>1. Matches(A, B, b)
    BY <1>1 DEF Matches
  <2>2. IsFiniteSet(A)
    BY <1>4, FS_Subset
  <2> HIDE DEF A, B, b
  <2>3. Cardinality(A) = Cardinality(B)
    BY <2>1, <2>2, SameSize
  <2> QED BY <2>3 DEF A, B
<1>7. \A i \in 1..n : i \in BalancedPick(pool, q) <=> turn[i] \in Low(T, q)
  <2> SUFFICES ASSUME NEW i \in 1..n PROVE i \in BalancedPick(pool, q) <=> turn[i] \in Low(T, q)
    OBVIOUS
  <2>1. turn[i] \in T
    BY <1>1 DEF Matches
  <2> QED BY <1>3, <1>6, <2>1 DEF Low
<1> QED BY <1>2, <1>5, <1>7 DEF turn, T

\* What is picked, and each stage's share of it, depend on the candidates and not on their order.
LEMMA PickShares ==
  ASSUME StagesListed, NEW n \in Nat, NEW pool, NEW C, PoolOf(n, pool, C), NEW q \in Nat,
         NEW M, M = {pool[i] : i \in BalancedPick(pool, q)}
  PROVE  /\ M \in SUBSET C /\ Cardinality(M) = Smaller(q, Cardinality(C)) /\ Cardinality(C) = n /\ IsFiniteSet(M)
         /\ \A s \in Range1(Stages) : Cardinality({c \in M : c.stage = s}) = Cardinality(Share(C, q, s))
<1> DEFINE P == BalancedPick(pool, q)
           turn == Rounds(pool)
           T == TurnsOf(C)
           t == [i \in P |-> turn[i]]
           b == [i \in P |-> pool[i]]
<1>1. P \in SUBSET (1..n)
  BY DEF BalancedPick, PoolOf
<1>2. IsFiniteSet(1..n) /\ Cardinality(1..n) = n /\ IsFiniteSet(P)
  BY <1>1, FS_Interval, FS_Subset
<1>3. T \in SUBSET Int /\ IsFiniteSet(T) /\ Cardinality(T) = n /\ \A i \in 1..n : i \in P <=> turn[i] \in Low(T, q)
  BY PickOf
<1>4. Matches(1..n, T, turn)
  BY TurnsMatch
<1>5. \A i \in 1..n : /\ pool[i].stage \in Range1(Stages) /\ i \in Bucket(pool, pool[i].stage)
                      /\ turn[i] = Turn(Place(pool, i), pool[i].stage)
  BY TurnsMatch
<1>6. Matches(1..n, C, pool)
  BY DEF PoolOf
<1> HIDE DEF P, turn, T
<1>7. Cardinality(C) = n
  BY <1>2, <1>6, SameSize
<1>8. Cardinality(Low(T, q)) = Smaller(q, n)
  BY <1>3, LowSize
<1>9. Matches(P, Low(T, q), t)
  <2>1. Low(T, q) \in SUBSET T
    BY DEF Low
  <2> QED BY <1>1, <1>3, <1>4, <2>1 DEF Matches
<1>10. Matches(P, M, b) /\ M \in SUBSET C
  BY <1>1, <1>6 DEF Matches, P
<1>11. Cardinality(Low(T, q)) = Cardinality(P) /\ Cardinality(M) = Cardinality(P) /\ IsFiniteSet(M)
  <2> HIDE DEF t, b
  <2> QED BY <1>2, <1>9, <1>10, SameSize
<1>12. ASSUME NEW s \in Range1(Stages)
       PROVE  Cardinality({c \in M : c.stage = s}) = Cardinality(Share(C, q, s))
  <2> DEFINE D == {i \in P : pool[i].stage = s}
             E == {c \in M : c.stage = s}
             e == [i \in D |-> pool[i]]
             f == [i \in D |-> Place(pool, i)]
  <2>1. Matches(D, E, e)
    BY <1>10 DEF Matches
  <2>2. \A i \in D : i \in Bucket(pool, s) /\ turn[i] = Turn(Place(pool, i), s) /\ turn[i] \in Low(T, q)
    BY <1>1, <1>3, <1>5
  <2>3. \A i \in Bucket(pool, s) : i \in 1..n /\ pool[i].stage = s
    BY PlacesOfStage
  <2>4. Matches(D, Share(C, q, s), f)
    <3>1. \A i \in D : Place(pool, i) \in Share(C, q, s)
      BY <2>2, PlacesOfStage DEF Share, T
    <3>2. \A p \in Share(C, q, s) : \E i \in D : Place(pool, i) = p
      <4> SUFFICES ASSUME NEW p \in Share(C, q, s) PROVE \E i \in D : Place(pool, i) = p
        OBVIOUS
      <4>1. p \in Places(C, s) /\ Turn(p, s) \in Low(T, q)
        BY DEF Share, T
      <4>2. PICK i \in Bucket(pool, s) : Place(pool, i) = p
        BY <4>1, PlacesOfStage
      <4>3. i \in 1..n /\ pool[i].stage = s
        BY <2>3
      <4>4. turn[i] \in Low(T, q)
        BY <1>5, <4>1, <4>2, <4>3
      <4> QED BY <1>3, <4>2, <4>3, <4>4
    <3>3. \A i, j \in D : Place(pool, i) = Place(pool, j) => i = j
      BY <2>2, PlacesOfStage
    <3> HIDE DEF D
    <3> QED BY <3>1, <3>2, <3>3 DEF Matches
  <2>5. IsFiniteSet(D)
    BY <1>2, FS_Subset
  <2> HIDE DEF D, E, e, f
  <2>6. Cardinality(E) = Cardinality(D) /\ Cardinality(Share(C, q, s)) = Cardinality(D)
    BY <2>1, <2>4, <2>5, SameSize
  <2> QED BY <2>6 DEF E
<1> QED BY <1>7, <1>8, <1>10, <1>11, <1>12

\* A stage that still has a candidate is at most one behind any other.
LEMMA SharesEven ==
  ASSUME StagesListed, NEW n \in Nat, NEW pool, NEW C, PoolOf(n, pool, C), NEW q \in Nat,
         NEW r \in Range1(Stages), NEW s \in Range1(Stages), NEW k \in Places(C, r), k \notin Share(C, q, r)
  PROVE  Cardinality(Share(C, q, s)) <= Cardinality(Share(C, q, r)) + 1
<1> DEFINE T == TurnsOf(C)
           A == Share(C, q, s)
           B == Share(C, q, r)
           m == Cardinality(OfStage(C, r))
           b == [p \in A \ {0} |-> p - 1]
<1>1. T \in SUBSET Int /\ IsFiniteSet(T)
  BY PickOf
<1>2. \A t \in Low(T, q) : t \in T /\ \A u \in T : u < t => u \in Low(T, q)
  <2> HIDE DEF T
  <2> QED BY <1>1, LowSize DEF Low
<1>3. m \in Nat /\ Places(C, r) = 0..(m - 1)
  BY PlacesOfStage DEF Places
<1>4. \A p \in Places(C, r) : p \in Nat /\ Turn(p, r) \in T
  <2> SUFFICES ASSUME NEW p \in Places(C, r) PROVE p \in Nat /\ Turn(p, r) \in T
    OBVIOUS
  <2>1. p \in Nat
    BY <1>3
  <2>2. Turn(p, r) \in Int
    BY <2>1, TurnsDiffer
  <2> QED BY <2>1, <2>2 DEF TurnsOf
<1>5. A \in SUBSET Nat /\ IsFiniteSet(A) /\ \A p \in A : Turn(p, s) \in Low(T, q)
  <2>1. Cardinality(OfStage(C, s)) \in Nat
    BY PlacesOfStage
  <2>2. A \in SUBSET (0..(Cardinality(OfStage(C, s)) - 1))
    BY DEF Share, Places
  <2>3. IsFiniteSet(0..(Cardinality(OfStage(C, s)) - 1))
    BY <2>1, FS_Interval
  <2> HIDE DEF A
  <2>4. IsFiniteSet(A)
    BY <2>2, <2>3, FS_Subset
  <2>5. A \in SUBSET Nat
    BY <2>2
  <2> QED BY <2>4, <2>5 DEF A, Share
<1>6. IsFiniteSet(B) /\ \A p \in Places(C, r) : p \in B <=> Turn(p, r) \in Low(T, q)
  <2>1. IsFiniteSet(0..(m - 1))
    BY <1>3, FS_Interval
  <2>2. B \in SUBSET (0..(m - 1))
    BY <1>3 DEF Share
  <2> HIDE DEF B
  <2>3. IsFiniteSet(B)
    BY <2>1, <2>2, FS_Subset
  <2> QED BY <2>3 DEF B, Share
<1>7. \A p \in A \ {0} : p - 1 \in B
  <2> SUFFICES ASSUME NEW p \in A \ {0} PROVE p - 1 \in B
    OBVIOUS
  <2>1. p \in Nat /\ p - 1 \in Nat /\ Turn(p, s) \in Low(T, q)
    BY <1>5
  <2>2. Turn(p - 1, r) < Turn(p, s)
    BY <2>1, TurnsDiffer
  <2>3. CASE p - 1 \in Places(C, r)
    BY <1>2, <1>4, <1>6, <2>1, <2>2, <2>3
  <2>4. CASE p - 1 \notin Places(C, r)
    <3>1. k \in Nat /\ k < p /\ Turn(k, r) \in T
      BY <1>3, <1>4, <2>1, <2>4
    <3>2. Turn(k, r) < Turn(p, s)
      BY <2>1, <3>1, TurnsDiffer
    <3>3. Turn(k, r) \in Low(T, q)
      BY <1>2, <2>1, <3>1, <3>2
    <3> QED BY <1>6, <3>3
  <2> QED BY <2>3, <2>4
<1> HIDE DEF A, B
<1>8. b \in Injection(A \ {0}, B)
  <2>1. b \in [A \ {0} -> B] /\ \A x, y \in A \ {0} : b[x] = b[y] => x = y
    BY <1>5, <1>7
  <2> QED BY <2>1 DEF Injection, IsInjective
<1>9. Cardinality(A \ {0}) <= Cardinality(B)
  <2> HIDE DEF b
  <2> QED BY <1>6, <1>8, FS_Injection
<1>10. Cardinality(A \ {0}) = IF 0 \in A THEN Cardinality(A) - 1 ELSE Cardinality(A)
  BY <1>5, FS_RemoveElement
<1>11. Cardinality(A) \in Nat /\ Cardinality(B) \in Nat
  BY <1>5, <1>6, FS_CardinalityType
<1> QED BY <1>9, <1>10, <1>11 DEF A, B

\* Who is passed over: its stage has its share, and nobody in it was worse.
PassedOver(C, q, M, c) ==
  /\ c.stage \in Range1(Stages)
  /\ \A s \in Range1(Stages) : Cardinality(Share(C, q, s)) <= Cardinality(Share(C, q, c.stage)) + 1
  /\ \A k \in M : k.stage = c.stage => k.score >= c.score
LEMMA PickFair ==
  ASSUME StagesListed, NEW n \in Nat, NEW pool, NEW C, PoolOf(n, pool, C), NEW q \in Nat,
         NEW M, M = {pool[i] : i \in BalancedPick(pool, q)}, NEW c \in C \ M
  PROVE  PassedOver(C, q, M, c)
<1> DEFINE P == BalancedPick(pool, q)
           turn == Rounds(pool)
           T == TurnsOf(C)
<1>1. PICK i \in 1..n : pool[i] = c
  BY DEF PoolOf, Matches
<1>2. P \in SUBSET (1..n) /\ i \notin P
  <2>1. P \in SUBSET (1..n)
    BY DEF BalancedPick, PoolOf
  <2> QED BY <1>1, <2>1
<1>3. \A j \in 1..n : j \in P <=> turn[j] \in Low(T, q)
  BY PickOf
<1>4. \A j \in 1..n : /\ pool[j].stage \in Range1(Stages) /\ j \in Bucket(pool, pool[j].stage)
                      /\ turn[j] = Turn(Place(pool, j), pool[j].stage)
  BY TurnsMatch
<1>5. Matches(1..n, T, turn)
  BY TurnsMatch
<1>6. T \in SUBSET Int /\ IsFiniteSet(T)
  BY PickOf
<1> HIDE DEF P, turn, T
<1>7. \A t \in Low(T, q) : \A u \in T : u < t => u \in Low(T, q)
  BY <1>6, LowSize
<1>8. \A j \in 1..n : turn[j] \in T
  BY <1>5 DEF Matches
<1> DEFINE r == c.stage
           k == Place(pool, i)
<1>9. r \in Range1(Stages) /\ i \in Bucket(pool, r) /\ turn[i] = Turn(k, r)
  BY <1>1, <1>4
<1>10. k \in Places(C, r)
  <2> HIDE DEF r
  <2> QED BY <1>9, PlacesOfStage
<1>11. k \notin Share(C, q, r)
  <2>1. turn[i] \notin Low(T, q)
    BY <1>2, <1>3
  <2> HIDE DEF r, k
  <2> QED BY <1>9, <2>1 DEF Share, T
<1>12. \A s \in Range1(Stages) : Cardinality(Share(C, q, s)) <= Cardinality(Share(C, q, r)) + 1
  <2> HIDE DEF r, k
  <2> QED BY <1>9, <1>10, <1>11, SharesEven
<1>13. ASSUME NEW m \in M, m.stage = r
       PROVE  m.score >= c.score
  <2>1. PICK j \in P : pool[j] = m
    BY DEF P
  <2>2. j \in 1..n /\ turn[j] \in Low(T, q) /\ turn[i] \notin Low(T, q) /\ j # i
    BY <1>2, <1>3, <2>1
  <2>3. ~ (turn[i] < turn[j])
    BY <1>1, <1>7, <1>8, <2>2
  <2> DEFINE h == Place(pool, j)
  <2>4. j \in Bucket(pool, r) /\ turn[j] = Turn(h, r)
    BY <1>4, <1>13, <2>1, <2>2
  <2> HIDE DEF r, h, k
  <2>5. h \in Nat /\ k \in Nat
    <3>1. h \in Places(C, r) /\ Cardinality(OfStage(C, r)) \in Nat
      BY <2>4, PlacesOfStage DEF h
    <3> QED BY <1>10, <3>1 DEF Places
  <2>6. ~ (k < h)
    BY <1>9, <2>3, <2>4, <2>5, TurnsDiffer
  <2>7. h # k
    BY <1>9, <2>2, <2>4, PlacesOfStage DEF h, k
  <2>8. Before(pool, j, i)
    <3>1. h < k
      BY <2>5, <2>6, <2>7
    <3> QED BY <1>9, <2>4, <3>1, PlacesOfStage DEF h, k
  <2>9. m.score \in Int /\ c.score \in Int
    <3>1. m \in C
      BY <2>1, <2>2 DEF PoolOf, Matches
    <3> QED BY <3>1 DEF PoolOf, Rated
  <2> QED BY <1>1, <2>1, <2>8, <2>9 DEF Before
<1> QED BY <1>9, <1>12, <1>13 DEF PassedOver

\* A fair pick of q candidates.
FairPick(C, q, M) ==
  /\ M \in SUBSET C /\ IsFiniteSet(M) /\ Cardinality(M) = Smaller(q, Cardinality(C))
  /\ \A s \in Range1(Stages) : Cardinality({c \in M : c.stage = s}) = Cardinality(Share(C, q, s))
  /\ \A c \in C \ M : PassedOver(C, q, M, c)
LEMMA PicksFairly ==
  ASSUME StagesListed, NEW n \in Nat, NEW pool, NEW C, PoolOf(n, pool, C), NEW q \in Nat
  PROVE  FairPick(C, q, {pool[i] : i \in BalancedPick(pool, q)})
<1> DEFINE M == {pool[i] : i \in BalancedPick(pool, q)}
<1>1. M = {pool[i] : i \in BalancedPick(pool, q)}
  OBVIOUS
<1> HIDE DEF M
<1>2. /\ M \in SUBSET C /\ IsFiniteSet(M) /\ Cardinality(M) = Smaller(q, Cardinality(C))
      /\ \A s \in Range1(Stages) : Cardinality({c \in M : c.stage = s}) = Cardinality(Share(C, q, s))
  BY <1>1, PickShares
<1>3. \A c \in C \ M : PassedOver(C, q, M, c)
  BY <1>1, PickFair
<1> QED BY <1>2, <1>3 DEF FairPick, M

\* The pool of a type, from candidates in any order.
Wanted(D, t) == {c \in D : c.keep /\ c.type = t}
LEMMA PoolListed ==
  ASSUME NEW N \in Nat, NEW list, NEW D, PoolOf(N, list, D), NEW t
  PROVE  /\ Cardinality(Wanted(D, t)) \in Nat
         /\ PoolOf(Cardinality(Wanted(D, t)), PoolFor(list, t), Wanted(D, t))
         /\ Range1(PoolFor(list, t)) = Wanted(D, t)
<1> DEFINE I == {i \in 1..N : list[i].keep /\ list[i].type = t}
           pool == Entries(list, I)
           C == Wanted(D, t)
           b == [i \in I |-> list[i]]
           n == Cardinality(I)
<1>1. I \in SUBSET (1..N) /\ IsFiniteSet(I) /\ I \in SUBSET Int
  <2>1. I \in SUBSET (1..N)
    OBVIOUS
  <2> HIDE DEF I
  <2> QED BY <2>1, PlacesOf
<1>2. PoolFor(list, t) = pool
  <2>1. {i \in DOMAIN list : list[i].keep /\ list[i].type = t} = I
    BY DEF PoolOf
  <2>2. PoolFor(list, t) = Entries(list, {i \in DOMAIN list : list[i].keep /\ list[i].type = t})
    BY Zenon DEF PoolFor, Those
  <2> HIDE DEF I
  <2> QED BY <2>1, <2>2
<1>3. Matches(I, C, b)
  BY DEF Matches, PoolOf, Wanted
<1>4. n \in Nat
  BY <1>1, FS_CardinalityType
<1>5. Cardinality(C) = n
  <2> HIDE DEF I, C, b
  <2> QED BY <1>1, <1>3, SameSize
<1>6. \A i \in I : b[i] = list[i]
  OBVIOUS
<1> HIDE DEF I, C, b
<1>7. /\ DOMAIN pool = 1..n
      /\ \A k \in 1..n : InTurn(I)[k] \in I /\ pool[k] = list[InTurn(I)[k]]
      /\ \A i \in I : \E k \in 1..n : InTurn(I)[k] = i /\ pool[k] = list[i]
  BY <1>1, EntriesOf
<1>8. \A j, k \in 1..n : InTurn(I)[j] = InTurn(I)[k] => j = k
  <2> SUFFICES ASSUME NEW j \in 1..n, NEW k \in 1..n, InTurn(I)[j] = InTurn(I)[k] PROVE j = k
    OBVIOUS
  <2>1. \A x, y \in 1..n : x < y <=> InTurn(I)[x] < InTurn(I)[y]
    BY <1>1, InTurnUp
  <2>2. InTurn(I)[j] \in Int /\ j \in Int /\ k \in Int
    <3>1. InTurn(I)[j] \in I
      BY <1>7
    <3>2. \A i \in I : i \in Int
      BY <1>1
    <3>3. InTurn(I)[j] \in Int
      BY <3>1, <3>2
    <3>4. j \in Int /\ k \in Int
      OBVIOUS
    <3> QED BY <3>3, <3>4
  <2>3. ~ (j < k) /\ ~ (k < j)
    BY <2>1, <2>2
  <2> QED BY <2>2, <2>3
<1>9. Matches(1..n, C, pool)
  <2>1. \A k \in 1..n : pool[k] \in C /\ pool[k] = b[InTurn(I)[k]]
    BY <1>3, <1>6, <1>7 DEF Matches
  <2>2. \A c \in C : \E k \in 1..n : pool[k] = c
    BY <1>3, <1>6, <1>7 DEF Matches
  <2>3. \A j, k \in 1..n : pool[j] = pool[k] => j = k
    BY <1>3, <1>7, <1>8, <2>1 DEF Matches
  <2>4. pool \in [1..n -> C]
    <3>1. pool = [k \in 1..n |-> list[InTurn(I)[k]]]
      BY DEF Entries
    <3> HIDE DEF pool
    <3> QED BY <2>1, <3>1
  <2> HIDE DEF pool
  <2> QED BY <2>2, <2>3, <2>4 DEF Matches
<1>10. \A c \in C : Rated(c)
  BY DEF C, Wanted, PoolOf
<1> HIDE DEF pool, n
<1>11. PoolOf(n, pool, C)
  BY <1>7, <1>9, <1>10 DEF PoolOf
<1>12. Range1(pool) = C
  BY <1>7, <1>9 DEF Range1, Matches
<1> QED BY <1>2, <1>4, <1>5, <1>11, <1>12 DEF C

LEMMA Reversed ==
  ASSUME NEW N \in Nat, NEW list, NEW D, PoolOf(N, list, D)
  PROVE  PoolOf(N, Reverse(list), D)
<1> DEFINE back == [i \in 1..N |-> list[(N - i) + 1]]
<1>1. Len(list) = N
  BY DEF PoolOf
<1>2. Reverse(list) = back
  BY <1>1 DEF Reverse
<1>3. \A i \in 1..N : (N - i) + 1 \in 1..N /\ (N - ((N - i) + 1)) + 1 = i
  OBVIOUS
<1>4. \A i \in 1..N : back[i] = list[(N - i) + 1]
  OBVIOUS
<1>5. Matches(1..N, D, back)
  <2>1. back \in [1..N -> D]
    BY <1>3 DEF PoolOf, Matches
  <2> HIDE DEF back
  <2>2. \A c \in D : \E i \in 1..N : back[i] = c
    BY <1>3, <1>4 DEF PoolOf, Matches
  <2>3. \A i, j \in 1..N : back[i] = back[j] => i = j
    <3> SUFFICES ASSUME NEW i \in 1..N, NEW j \in 1..N, back[i] = back[j] PROVE i = j
      OBVIOUS
    <3>1. (N - i) + 1 = (N - j) + 1
      BY <1>3, <1>4 DEF PoolOf, Matches
    <3> QED BY <3>1
  <2> QED BY <2>1, <2>2, <2>3 DEF Matches
<1>6. DOMAIN back = 1..N
  OBVIOUS
<1> HIDE DEF back
<1> QED BY <1>2, <1>5, <1>6 DEF PoolOf

\* The set of the prompts' candidates, by their text.
CandidatesOf(N, list, D) == PoolOf(N, list, D) /\ \A c, d \in D : c.text.id = d.text.id => c = d

\* selector.py: from any candidates of different texts, in any number and order, and for any
\* quota, the tracked set is a fair pick: the quota is filled if the gate's prompts can fill
\* it, no stage is starved, and no prompt is passed over for a worse one of its stage.
THEOREM SelectionAlwaysFair ==
  ASSUME StagesListed, NEW N \in Nat, NEW candidates, NEW D, CandidatesOf(N, candidates, D), NEW quota \in Nat
  PROVE  SelectionFair(candidates, quota)
<1> DEFINE two == {"branded", "non_branded"}
           master == SelectMasterSet(candidates, quota)
           of(t) == Chosen(candidates, t, quota)
           back(t) == Chosen(Reverse(candidates), t, quota)
<1>1. PoolOf(N, candidates, D) /\ PoolOf(N, Reverse(candidates), D) /\ \A c, d \in D : c.text.id = d.text.id => c = d
  BY Reversed DEF CandidatesOf
<1>2. ASSUME NEW t
      PROVE  /\ of(t) \in SUBSET Wanted(D, t) /\ IsFiniteSet(of(t)) /\ Cardinality(Wanted(D, t)) \in Nat
             /\ Cardinality(of(t)) = Smaller(quota, Cardinality(Wanted(D, t)))
             /\ Range1(PoolFor(candidates, t)) = Wanted(D, t)
             /\ \A s \in Range1(Stages) :
                  /\ Cardinality({c \in of(t) : c.stage = s}) = Cardinality(Share(Wanted(D, t), quota, s))
                  /\ Cardinality({c \in back(t) : c.stage = s}) = Cardinality(Share(Wanted(D, t), quota, s))
             /\ \A c \in Wanted(D, t) \ of(t) :
                  /\ c.stage \in Range1(Stages)
                  /\ \A s \in Range1(Stages) :
                       Cardinality(Share(Wanted(D, t), quota, s)) <= Cardinality(Share(Wanted(D, t), quota, c.stage)) + 1
                  /\ \A k \in of(t) : k.stage = c.stage => k.score >= c.score
  <2> DEFINE C == Wanted(D, t)
             n == Cardinality(Wanted(D, t))
             pool == PoolFor(candidates, t)
             other == PoolFor(Reverse(candidates), t)
  <2>1. n \in Nat /\ PoolOf(n, pool, C) /\ Range1(pool) = C /\ PoolOf(n, other, C)
    BY <1>1, PoolListed
  <2>2. FairPick(C, quota, {pool[i] : i \in BalancedPick(pool, quota)})
        /\ FairPick(C, quota, {other[i] : i \in BalancedPick(other, quota)})
    <3> HIDE DEF C, n, pool, other
    <3> QED BY <2>1, PicksFairly
  <2>3. of(t) = {pool[i] : i \in BalancedPick(pool, quota)} /\ back(t) = {other[i] : i \in BalancedPick(other, quota)}
    BY DEF Chosen
  <2> HIDE DEF C, n, pool, other, of, back
  <2>4. FairPick(C, quota, of(t)) /\ FairPick(C, quota, back(t))
    BY <2>2, <2>3
  <2> QED BY <2>1, <2>4 DEF FairPick, PassedOver, C, n, pool
<1>3. /\ master.selected = of("branded") \cup of("non_branded")
      /\ master.short = {t \in two : Cardinality(of(t)) < quota}
  BY DEF SelectMasterSet
<1> HIDE DEF master, of, back
<1>4. \A t : \A c \in Wanted(D, t) : c \in D /\ c.type = t
  BY DEF Wanted
<1>5. \A t \in two : {c \in master.selected : c.type = t} = of(t)
  BY <1>2, <1>3, <1>4
<1>6. Cardinality({c.text.id : c \in master.selected}) = Cardinality(master.selected)
  <2> DEFINE M == master.selected
             T == {c.text.id : c \in M}
             b == [c \in M |-> c.text.id]
  <2>1. M \in SUBSET D
    BY <1>2, <1>3, <1>4
  <2>2. IsFiniteSet(M)
    <3>1. IsFiniteSet(of("branded")) /\ IsFiniteSet(of("non_branded")) /\ M = of("branded") \cup of("non_branded")
      BY <1>2, <1>3
    <3> HIDE DEF M
    <3> QED BY <3>1, FS_Union
  <2>3. Matches(M, T, b)
    BY <1>1, <2>1 DEF Matches
  <2> HIDE DEF M, T, b
  <2>4. Cardinality(T) = Cardinality(M)
    BY <2>2, <2>3, SameSize
  <2> QED BY <2>4 DEF T, M
<1>7. ASSUME NEW t \in two
      PROVE  LET pool == Range1(PoolFor(candidates, t))
                 mine == {c \in master.selected : c.type = t}
                 share(s) == Cardinality({c \in mine : c.stage = s})
                 mirrored == Chosen(Reverse(candidates), t, quota) IN
             /\ mine \subseteq pool /\ Cardinality(mine) = Smaller(quota, Cardinality(pool))
             /\ (t \in master.short) <=> Cardinality(pool) < quota
             /\ \A c \in pool \ mine :
                  /\ \A s \in Range1(Stages) : share(s) <= share(c.stage) + 1
                  /\ \A k \in mine : k.stage = c.stage => k.score >= c.score
             /\ \A s \in Range1(Stages) : share(s) = Cardinality({c \in mirrored : c.stage = s})
  <2> DEFINE pool == Range1(PoolFor(candidates, t))
             mine == {c \in master.selected : c.type = t}
             share(s) == Cardinality({c \in mine : c.stage = s})
             mirrored == Chosen(Reverse(candidates), t, quota)
             C == Wanted(D, t)
  <2>1. pool = C /\ mine = of(t) /\ mirrored = back(t)
    BY <1>2, <1>5 DEF back
  <2>2. t \in master.short <=> Cardinality(of(t)) < quota
    BY <1>3
  <2> HIDE DEF pool, mine, mirrored, C
  <2>3. /\ mine \subseteq pool /\ Cardinality(mine) = Smaller(quota, Cardinality(pool)) /\ Cardinality(pool) \in Nat
        /\ \A s \in Range1(Stages) : Cardinality({c \in mirrored : c.stage = s}) = share(s)
        /\ \A c \in pool \ mine : c.stage \in Range1(Stages) /\ \A k \in mine : k.stage = c.stage => k.score >= c.score
    BY <1>2, <2>1 DEF C
  <2>4. \A s \in Range1(Stages) : share(s) = Cardinality(Share(C, quota, s))
    BY <1>2, <2>1 DEF C
  <2>5. \A c \in pool \ mine : \A s \in Range1(Stages) : Cardinality(Share(C, quota, s)) <= Cardinality(Share(C, quota, c.stage)) + 1
    BY <1>2, <2>1 DEF C
  <2>6. \A c \in pool \ mine : \A s \in Range1(Stages) : share(s) <= share(c.stage) + 1
    BY <2>3, <2>4, <2>5
  <2>7. (t \in master.short) <=> Cardinality(pool) < quota
    BY <2>1, <2>2, <2>3 DEF Smaller
  <2> QED BY <2>3, <2>6, <2>7 DEF pool, mine, mirrored
<1> QED BY <1>6, <1>7 DEF SelectionFair, master

-----------------------------------------------------------------------------
(* The pages of the prompts. *)

\* Shares compared by their products.
LEMMA Cancels ==
  ASSUME NEW x \in Nat, NEW y \in Nat, NEW z \in Nat, z > 0, x * z <= y * z
  PROVE  x <= y
<1> SUFFICES ASSUME y < x PROVE FALSE
  OBVIOUS
<1>1. PICK d \in Nat : x = y + 1 + d
  <2>1. x - y - 1 \in Nat /\ x = y + 1 + (x - y - 1)
    OBVIOUS
  <2> QED BY <2>1
<1>2. x * z = y * z + z + d * z /\ d * z \in Nat /\ y * z \in Nat
  BY <1>1
<1> QED BY <1>2

LEMMA SharesCompare ==
  ASSUME NEW a \in Nat, NEW b \in Nat, NEW c \in Nat, NEW x \in Nat, NEW y \in Nat, NEW z \in Nat,
         y > 0, a * y >= b * x, b * z >= c * y
  PROVE  a * z >= c * x
<1> DEFINE ay == a * y
           bx == b * x
           bz == b * z
           cy == c * y
           az == a * z
           cx == c * x
<1>1. ay \in Nat /\ bx \in Nat /\ bz \in Nat /\ cy \in Nat /\ az \in Nat /\ cx \in Nat /\ ay >= bx /\ bz >= cy
  OBVIOUS
<1>2. \A k, l, m \in Nat : k >= l => k * m >= l * m
  <2> SUFFICES ASSUME NEW k \in Nat, NEW l \in Nat, NEW m \in Nat, k >= l PROVE k * m >= l * m
    OBVIOUS
  <2>1. k - l \in Nat /\ k = l + (k - l)
    OBVIOUS
  <2>2. PICK d \in Nat : k = l + d
    BY <2>1
  <2>3. k * m = l * m + d * m /\ d * m \in Nat /\ l * m \in Nat
    BY <2>2
  <2> QED BY <2>3
<1>3. az * y = ay * z /\ bx * z = bz * x /\ cy * x = cx * y
  OBVIOUS
<1> HIDE DEF ay, bx, bz, cy, az, cx
<1>4. ay * z >= bx * z /\ bz * x >= cy * x
  BY <1>1, <1>2
<1>5. cx * y <= az * y
  <2>1. ay * z \in Nat /\ bx * z \in Nat /\ cy * x \in Nat
    BY <1>1
  <2> QED BY <1>3, <1>4, <2>1
<1>6. cx <= az
  BY <1>1, <1>5, Cancels
<1> QED BY <1>6 DEF az, cx

LEMMA BestShare ==
  ASSUME NEW I, IsFiniteSet(I), I # {}, NEW a \in [I -> Nat], NEW z \in [I -> Nat], \A i \in I : z[i] > 0
  PROVE  \E i \in I : \A j \in I : a[i] * z[j] >= a[j] * z[i]
<1> DEFINE Best(X, i) == i \in X /\ \A j \in X : a[i] * z[j] >= a[j] * z[i]
           P == {X \in SUBSET I : X = {} \/ \E i \in X : Best(X, i)}
<1>1. {} \in P /\ P \in SUBSET (SUBSET I)
  OBVIOUS
<1>2. \A X \in P : \A x \in I \ X : X \cup {x} \in P
  <2> SUFFICES ASSUME NEW X \in P, NEW x \in I \ X PROVE X \cup {x} \in P
    OBVIOUS
  <2>1. \A i \in I : a[i] \in Nat /\ z[i] \in Nat /\ z[i] > 0 /\ a[i] * z[i] \in Nat
    OBVIOUS
  <2>2. CASE X = {}
    <3>1. a[x] * z[x] >= a[x] * z[x]
      BY <2>1
    <3>2. Best(X \cup {x}, x)
      BY <2>2, <3>1
    <3> QED BY <3>2
  <2>3. CASE X # {}
    <3>1. PICK i \in X : Best(X, i)
      BY <2>3
    <3>2. i \in I /\ X \in SUBSET I
      OBVIOUS
    <3>3. CASE a[i] * z[x] >= a[x] * z[i]
      <4>1. Best(X \cup {x}, i)
        BY <3>1, <3>3
      <4> QED BY <4>1, <3>2
    <3>4. CASE ~ (a[i] * z[x] >= a[x] * z[i])
      <4>1. a[x] * z[i] >= a[i] * z[x]
        <5>1. a[x] * z[i] \in Nat /\ a[i] * z[x] \in Nat
          BY <2>1, <3>2
        <5> QED BY <3>4, <5>1
      <4>2. \A j \in X : a[x] * z[j] >= a[j] * z[x]
        <5> SUFFICES ASSUME NEW j \in X PROVE a[x] * z[j] >= a[j] * z[x]
          OBVIOUS
        <5>1. a[i] * z[j] >= a[j] * z[i]
          BY <3>1
        <5>2. j \in I
          BY <3>2
        <5> QED BY <2>1, <3>2, <4>1, <5>1, <5>2, SharesCompare
      <4>3. a[x] * z[x] >= a[x] * z[x]
        BY <2>1
      <4>4. Best(X \cup {x}, x)
        BY <4>2, <4>3
      <4> QED BY <4>4, <3>2
    <3> QED BY <3>3, <3>4
  <2> QED BY <2>2, <2>3
<1> HIDE DEF P
<1>3. I \in P
  BY <1>1, <1>2, SubsetInduction
<1> QED BY <1>3 DEF P

PagesOf(N, pages) == DOMAIN pages = 1..N /\ \A i \in 1..N : IsFiniteSet(pages[i])
SlugSize(page) == Cardinality(page \ Stopwords)
LEMMA PageSizes ==
  ASSUME NEW N \in Nat, NEW pages, PagesOf(N, pages), NEW c, NEW i \in 1..N
  PROVE  /\ SlugSize(pages[i]) \in Nat /\ (i \in Indexed(pages) <=> SlugSize(pages[i]) > 0)
         /\ Overlap(c, pages[i]) \in Nat /\ Covers(c, pages[i]) \in Nat
         /\ Overlap(c, pages[i]) > 0 <=> Covers(c, pages[i]) > 0
<1> DEFINE W == pages[i] \ Stopwords
           V == Query(c) \cap W
<1>1. IsFiniteSet(W)
  BY FS_Subset DEF PagesOf
<1>2. i \in Indexed(pages) <=> W # {}
  BY DEF Indexed, PagesOf
<1>3. V \in SUBSET W
  OBVIOUS
<1> HIDE DEF W, V
<1>4. IsFiniteSet(V)
  BY <1>1, <1>3, FS_Subset
<1>5. Cardinality(W) \in Nat /\ Cardinality(V) \in Nat /\ (Cardinality(W) = 0 <=> W = {})
  BY <1>1, <1>4, FS_CardinalityType, FS_EmptySet
<1>6. SlugSize(pages[i]) = Cardinality(W) /\ Overlap(c, pages[i]) = Cardinality(V)
  BY DEF SlugSize, Overlap, W, V
<1>7. Covers(c, pages[i]) = 100 * Overlap(c, pages[i]) + IF Overlap(c, pages[i]) >= 2 THEN 15 * SlugSize(pages[i]) ELSE 0
  BY DEF Covers, SlugSize
<1> QED BY <1>2, <1>5, <1>6, <1>7

\* The best of the pages, if any has a word in common.
BestPages(c, pages) ==
  {i \in Indexed(pages) : Overlap(c, pages[i]) > 0 /\ \A j \in Indexed(pages) : ~ Better(c, pages[j], pages[i])}
LEMMA MapsTo ==
  ASSUME NEW N \in Nat, NEW pages, PagesOf(N, pages), NEW c, NEW m, m = MapTo(c, pages), Cover \in Nat
  PROVE  /\ BestPages(c, pages) \in SUBSET (1..N)
         /\ m # 0 => m \in BestPages(c, pages) /\ Covers(c, pages[m]) >= Cover * SlugSize(pages[m])
         /\ m = 0 => BestPages(c, pages) = {}
                     \/ \E i \in BestPages(c, pages) : ~ (Covers(c, pages[i]) >= Cover * SlugSize(pages[i]))
<1> DEFINE best == BestPages(c, pages)
<1>1. best \in SUBSET (1..N)
  BY DEF BestPages, Indexed, PagesOf
<1>2. m = IF best = {} \/ Covers(c, pages[Min(best)]) < Cover * SlugSize(pages[Min(best)]) THEN 0 ELSE Min(best)
  BY Zenon DEF MapTo, BestPages, SlugSize
<1> HIDE DEF best
<1>3. best # {} => Min(best) \in best
  <2> SUFFICES ASSUME best # {} PROVE Min(best) \in best
    OBVIOUS
  <2>1. best \in SUBSET Nat
    BY <1>1
  <2>2. PICK x \in best : \A y \in best : x <= y
    BY <2>1, LeastOf
  <2> QED BY <2>2 DEF Min
<1>4. \A i \in best : i # 0 /\ Covers(c, pages[i]) \in Nat /\ Cover * SlugSize(pages[i]) \in Nat
  <2> SUFFICES ASSUME NEW i \in best PROVE i # 0 /\ Covers(c, pages[i]) \in Nat /\ Cover * SlugSize(pages[i]) \in Nat
    OBVIOUS
  <2>1. i \in 1..N
    BY <1>1
  <2>2. Covers(c, pages[i]) \in Nat /\ SlugSize(pages[i]) \in Nat
    BY <2>1, PageSizes
  <2> QED BY <2>1, <2>2
<1> DEFINE k == Min(best)
<1>5. m = IF best = {} \/ Covers(c, pages[k]) < Cover * SlugSize(pages[k]) THEN 0 ELSE k
  BY <1>2
<1> HIDE DEF k
<1>6. best # {} => /\ k \in best /\ k # 0 /\ Covers(c, pages[k]) \in Nat /\ Cover * SlugSize(pages[k]) \in Nat
  BY <1>3, <1>4 DEF k
<1> QED BY <1>1, <1>5, <1>6 DEF best

\* url_mapper.py: whatever the prompt and the pages, only a page with a word in common is
\* ever a prompt's page, and more pages never take its page away but for a better one.
THEOREM MappingAlwaysGrows ==
  ASSUME NEW N \in Nat, NEW pages, PagesOf(N, pages), NEW c, Cover \in Nat
  PROVE  MappingGrows(c, pages)
<1>1. Len(pages) = N
  BY DEF PagesOf
<1> SUFFICES ASSUME NEW n \in 0..N, NEW few, few = SubSeq(pages, 1, n), MapTo(c, few) # 0
             PROVE  /\ Overlap(c, pages[MapTo(c, few)]) > 0
                    /\ MapTo(c, pages) # 0 /\ ~ Better(c, pages[MapTo(c, few)], pages[MapTo(c, pages)])
  BY <1>1, Zenon DEF MappingGrows
<1>2. DOMAIN few = 1..n /\ (\A i \in 1..n : few[i] = pages[i]) /\ n \in Nat /\ 1..n \in SUBSET (1..N)
  <2>1. few = [i \in 1..n |-> pages[i]]
    BY DEF SubSeq
  <2> QED BY <2>1
<1>3. PagesOf(n, few)
  BY <1>2 DEF PagesOf
<1> DEFINE m == MapTo(c, few)
           M == MapTo(c, pages)
           a == [i \in Indexed(pages) |-> Covers(c, pages[i])]
           z == [i \in Indexed(pages) |-> SlugSize(pages[i])]
           I == Indexed(pages)
<1>4. m \in BestPages(c, few) /\ Covers(c, few[m]) >= Cover * SlugSize(few[m]) /\ BestPages(c, few) \in SUBSET (1..n)
  <2>1. m = MapTo(c, few) /\ m # 0 /\ n \in Nat
    BY <1>2
  <2> HIDE DEF m
  <2> QED BY <1>3, <2>1, MapsTo
<1>5. m \in 1..n /\ m \in 1..N /\ few[m] = pages[m] /\ Overlap(c, pages[m]) > 0 /\ m \in Indexed(few)
  BY <1>2, <1>4 DEF BestPages
<1>6. m \in Indexed(pages) /\ Indexed(pages) \in SUBSET (1..N)
  BY <1>5 DEF Indexed, PagesOf
<1>7. \A i \in I : /\ Covers(c, pages[i]) \in Nat /\ SlugSize(pages[i]) \in Nat /\ SlugSize(pages[i]) > 0
                   /\ Overlap(c, pages[i]) > 0 <=> Covers(c, pages[i]) > 0
  BY <1>6, PageSizes
<1>8. a \in [I -> Nat] /\ z \in [I -> Nat] /\ (\A i \in I : z[i] > 0) /\ \A i \in I : a[i] = Covers(c, pages[i]) /\ z[i] = SlugSize(pages[i])
  BY <1>7
<1> HIDE DEF a, z, I, m, M
<1>9. IsFiniteSet(I) /\ m \in I
  BY <1>6, PlacesOf DEF I
<1>10. PICK i \in I : \A j \in I : a[i] * z[j] >= a[j] * z[i]
  BY <1>8, <1>9, BestShare
<1>11. \A i1, j \in I : ~ Better(c, pages[j], pages[i1]) <=> a[i1] * z[j] >= a[j] * z[i1]
  <2> SUFFICES ASSUME NEW i1 \in I, NEW j \in I PROVE ~ Better(c, pages[j], pages[i1]) <=> a[i1] * z[j] >= a[j] * z[i1]
    OBVIOUS
  <2>1. a[i1] * z[j] \in Nat /\ a[j] * z[i1] \in Nat
    BY <1>8
  <2>2. Better(c, pages[j], pages[i1]) <=> a[j] * z[i1] > a[i1] * z[j]
    BY <1>8 DEF Better, SlugSize
  <2> QED BY <2>1, <2>2
<1>12. \A k \in BestPages(c, pages) : k \in I /\ \A j \in I : a[k] * z[j] >= a[j] * z[k]
  BY <1>11 DEF BestPages, I
<1>13. i \in BestPages(c, pages)
  <2>1. a[i] * z[m] >= a[m] * z[i] /\ a[m] > 0 /\ z[i] > 0 /\ z[m] > 0 /\ a[i] \in Nat /\ a[m] \in Nat /\ z[i] \in Nat /\ z[m] \in Nat
    BY <1>5, <1>7, <1>8, <1>9, <1>10
  <2>2. a[i] > 0
    <3> SUFFICES ASSUME a[i] = 0 PROVE FALSE
      BY <2>1
    <3>1. a[i] * z[m] = 0
      BY <2>1
    <3>2. a[m] * z[i] > 0
      BY <2>1
    <3> QED BY <2>1, <3>1, <3>2
  <2>3. Overlap(c, pages[i]) > 0
    BY <1>7, <1>8, <2>2
  <2> QED BY <1>10, <1>11, <2>3 DEF BestPages, I
<1>14. a[m] >= Cover * z[m]
  BY <1>4, <1>5, <1>8, <1>9
<1>15. \A k \in BestPages(c, pages) : Covers(c, pages[k]) >= Cover * SlugSize(pages[k])
  <2> SUFFICES ASSUME NEW k \in BestPages(c, pages) PROVE Covers(c, pages[k]) >= Cover * SlugSize(pages[k])
    OBVIOUS
  <2>1. k \in I /\ a[k] * z[m] >= a[m] * z[k]
    BY <1>9, <1>12
  <2>2. a[k] \in Nat /\ a[m] \in Nat /\ z[k] \in Nat /\ z[m] \in Nat /\ z[m] > 0 /\ 1 \in Nat
    BY <1>8, <1>9, <2>1
  <2>3. a[m] * 1 >= Cover * z[m]
    BY <1>14, <2>2
  <2>4. a[k] * 1 >= Cover * z[k]
    <3> DEFINE x == a[k]
               y == z[m]
               b == a[m]
               w == z[k]
    <3>1. x \in Nat /\ y \in Nat /\ b \in Nat /\ w \in Nat /\ y > 0 /\ x * y >= b * w /\ b * 1 >= Cover * y
      BY <2>1, <2>2, <2>3
    <3> HIDE DEF x, y, b, w
    <3>2. x * 1 >= Cover * w
      BY <3>1, <2>2, SharesCompare
    <3> QED BY <3>2 DEF x, w
  <2> QED BY <1>8, <2>1, <2>2, <2>4
<1>16. M # 0 /\ M \in BestPages(c, pages)
  BY <1>13, <1>15, MapsTo DEF M
<1>17. ~ Better(c, pages[m], pages[M])
  BY <1>9, <1>11, <1>12, <1>16
<1> QED BY <1>5, <1>16, <1>17 DEF m, M

-----------------------------------------------------------------------------
(* The analyst's own prompts. *)

Ids(N, s) == DOMAIN s = 1..N
Newest(s) == {i \in DOMAIN s : \A j \in DOMAIN s : s[j].text.id = s[i].text.id => i <= j}
\* A dictionary by text: some of the list, each text of it, none twice.
OneEach(N, s, M, t) ==
  /\ DOMAIN t = 1..M
  /\ \A n \in 1..M : \E i \in 1..N : t[n] = s[i]
  /\ \A i \in 1..N : \E n \in 1..M : t[n].text.id = s[i].text.id
  /\ \A m, n \in 1..M : t[m].text.id = t[n].text.id => m = n
LEMMA FirstsOf ==
  ASSUME NEW N \in Nat, NEW s, Ids(N, s)
  PROVE  Cardinality(Newest(s)) \in Nat /\ OneEach(N, s, Cardinality(Newest(s)), Firsts(s))
<1> DEFINE I == Newest(s)
           M == Cardinality(I)
<1>1. I \in SUBSET (1..N) /\ DOMAIN s = 1..N
  BY DEF Ids, Newest
<1>2. Firsts(s) = Entries(s, I)
  BY DEF Firsts, Newest
<1> HIDE DEF I
<1>3. IsFiniteSet(I) /\ I \in SUBSET Int
  BY <1>1, PlacesOf
<1>4. M \in Nat
  BY <1>3, FS_CardinalityType
<1>5. /\ DOMAIN Firsts(s) = 1..M /\ \A n \in 1..M : InTurn(I)[n] \in I /\ Firsts(s)[n] = s[InTurn(I)[n]]
      /\ \A i \in I : \E n \in 1..M : InTurn(I)[n] = i /\ Firsts(s)[n] = s[i]
  BY <1>2, <1>3, EntriesOf
<1>6. \A m, n \in 1..M : m < n <=> InTurn(I)[m] < InTurn(I)[n]
  BY <1>3, InTurnUp
<1>7. ASSUME NEW i \in 1..N PROVE \E k \in I : s[k].text.id = s[i].text.id
  <2> DEFINE B == {k \in 1..N : s[k].text.id = s[i].text.id}
  <2>1. B \in SUBSET Nat /\ i \in B
    OBVIOUS
  <2>2. PICK k \in B : \A j \in B : k <= j
    BY <2>1, LeastOf
  <2>3. k \in I
    BY <1>1, <2>2 DEF I, Newest
  <2> QED BY <2>2, <2>3
<1>8. ASSUME NEW i \in 1..N PROVE \E n \in 1..M : Firsts(s)[n].text.id = s[i].text.id
  <2>1. PICK k \in I : s[k].text.id = s[i].text.id
    BY <1>7
  <2>2. PICK n \in 1..M : Firsts(s)[n] = s[k]
    BY <1>5
  <2> QED BY <2>1, <2>2
<1>9. ASSUME NEW m \in 1..M, NEW n \in 1..M, Firsts(s)[m].text.id = Firsts(s)[n].text.id PROVE m = n
  <2> DEFINE i == InTurn(I)[m]
             j == InTurn(I)[n]
  <2>1. i \in I /\ j \in I /\ Firsts(s)[m] = s[i] /\ Firsts(s)[n] = s[j]
    BY <1>5
  <2>2. (m < n <=> i < j) /\ (n < m <=> j < i) /\ m \in Int /\ n \in Int
    BY <1>6
  <2> HIDE DEF i, j
  <2>3. s[i].text.id = s[j].text.id /\ i \in 1..N /\ j \in 1..N
    BY <1>1, <1>9, <2>1
  <2>4. i <= j /\ j <= i
    BY <1>1, <2>1, <2>3 DEF I, Newest
  <2> QED BY <2>2, <2>3, <2>4
<1>10. \A n \in 1..M : \E i \in 1..N : Firsts(s)[n] = s[i]
  BY <1>1, <1>5
<1> QED BY <1>4, <1>5, <1>8, <1>9, <1>10 DEF OneEach, I

AllApart(N, s) == \A i, j \in 1..N : s[i].text.id = s[j].text.id => i = j
LEMMA FirstsAll ==
  ASSUME NEW N \in Nat, NEW s, Ids(N, s), NEW V, s \in [1..N -> V], AllApart(N, s)
  PROVE  Firsts(s) = s
<1>1. Newest(s) = 1..N
  <2>1. DOMAIN s = 1..N
    BY DEF Ids
  <2>2. ASSUME NEW i \in 1..N, NEW j \in 1..N, s[j].text.id = s[i].text.id PROVE i <= j
    <3>1. i = j
      BY <2>2 DEF AllApart
    <3> QED BY <3>1
  <2> QED BY <2>1, <2>2 DEF Newest
<1>2. Firsts(s) = Entries(s, 1..N)
  BY <1>1 DEF Firsts, Newest
<1> QED BY <1>2, EntriesAll DEF Ids

\* The seeds of a client: schemas.py asks for one at least.
SeedsOf(K, names) == K > 0 /\ DOMAIN names = 1..K /\ \A i \in 1..K : IsFiniteSet(names[i])
LEMMA ClosestIn ==
  ASSUME NEW K \in Nat, NEW names, SeedsOf(K, names), NEW words
  PROVE  Closest(words, names) \in Range1(names)
<1> DEFINE D == 1..K
           v == [i \in D |-> Common(words, names[i])]
           one == [i \in D |-> 1]
           Top == {i \in D : \A j \in D : v[i] >= v[j]}
<1>1. IsFiniteSet(D) /\ D # {} /\ DOMAIN names = D /\ 1 \in D
  <2>1. 1 \in D /\ DOMAIN names = D
    BY DEF SeedsOf
  <2>2. IsFiniteSet(D)
    BY FS_Interval
  <2> QED BY <2>1, <2>2
<1>2. ASSUME NEW i \in D PROVE Common(words, names[i]) \in Nat
  <2>1. IsFiniteSet(names[i])
    BY DEF SeedsOf
  <2>2. IsFiniteSet(words \cap names[i])
    BY <2>1, FS_Subset
  <2> QED BY <2>2, FS_CardinalityType DEF Common
<1>3. v \in [D -> Nat] /\ one \in [D -> Nat] /\ (\A i \in D : v[i] = Common(words, names[i]) /\ one[i] = 1 /\ one[i] > 0)
  BY <1>2
<1> HIDE DEF v, one, D
<1>4. PICK t \in D : \A j \in D : v[t] * one[j] >= v[j] * one[t]
  <2>1. \A i \in D : one[i] > 0
    BY <1>3
  <2> QED BY <1>1, <1>3, <2>1, BestShare
<1>5. \A j \in D : v[t] >= v[j]
  BY <1>3, <1>4
<1>6. Top \in SUBSET Nat /\ t \in Top
  BY <1>5 DEF D
<1>7. PICK b \in Top : \A i \in Top : b <= i
  BY <1>6, LeastOf
<1> DEFINE Is(x) == \A j \in DOMAIN names : \/ Common(words, names[x]) > Common(words, names[j])
                                            \/ Common(words, names[x]) = Common(words, names[j]) /\ x <= j
<1>8. Is(b) /\ b \in D
  <2> SUFFICES ASSUME NEW j \in D PROVE v[b] > v[j] \/ (v[b] = v[j] /\ b <= j)
    BY <1>1, <1>3, <1>7
  <2>1. v[b] >= v[j] /\ v[b] \in Nat /\ v[j] \in Nat
    BY <1>3, <1>7
  <2>2. ASSUME v[b] = v[j] PROVE b <= j
    <3>1. j \in Top
      BY <1>7, <2>2
    <3> QED BY <1>7, <3>1
  <2> QED BY <2>1, <2>2
<1>9. (CHOOSE x \in DOMAIN names : Is(x)) \in D
  BY <1>1, <1>8
<1> DEFINE best == CHOOSE x \in DOMAIN names : Is(x)
<1>10. Closest(words, names) = IF Common(words, names[best]) > 0 THEN names[best] ELSE names[1]
  BY Zenon DEF Closest
<1> HIDE DEF best
<1> QED BY <1>1, <1>9, <1>10 DEF Range1, best

\* A prompt of the analyst's becomes a candidate that keeps its text.
CandidateOf(client, p, volumes) ==
  LET seed == IF p.keyword # {} THEN p.keyword ELSE Closest(p.text.words, client.seeds)
  IN Candidate(p.text, seed, volumes[seed], IF p.subtopic # {} THEN p.subtopic ELSE SubtopicFor(seed, client),
               FALSE, Stage(p.text), TRUE)
LEMMA CandidateOfAs ==
  ASSUME NEW client, NEW p, NEW volumes
  PROVE  /\ CandidateOf(client, p, volumes).text = p.text /\ CandidateOf(client, p, volumes).keep = TRUE
         /\ CandidateOf(client, p, volumes).seed = IF p.keyword # {} THEN p.keyword ELSE Closest(p.text.words, client.seeds)
BY DEF CandidateOf, Candidate

\* prompt_generator.py and inputs.py: whatever the analyst's lines, each that is neither a
\* comment nor too short is tracked, once and in their order, whatever the gate says of it.
THEOREM CustomAlwaysKept ==
  ASSUME NEW N \in Nat, NEW lines, Ids(N, lines), NEW client, NEW K \in Nat, SeedsOf(K, client.seeds), NEW volumes
  PROVE  CustomKept(client, lines, volumes)
<1> DEFINE Fit == {i \in 1..N : ~ lines[i].comment /\ ~ lines[i].short}
           some == Those(lines, LAMBDA l : ~ l.comment /\ ~ l.short)
           M == Cardinality(Fit)
           parsed == ParsePromptLines(lines)
           P == Cardinality(Newest(some))
           out == FromCustom(client, parsed, volumes)
           all == [i \in 1..P |-> CandidateOf(client, parsed[i], volumes)]
<1>1. DOMAIN lines = 1..N
  BY DEF Ids
<1>2. some = Entries(lines, Fit) /\ parsed = Firsts(some)
  BY <1>1 DEF Those, ParsePromptLines
<1> HIDE DEF some
<1>3. IsFiniteSet(Fit) /\ Fit \in SUBSET Int
  BY PlacesOf
<1>4. M \in Nat
  BY <1>3, FS_CardinalityType
<1> HIDE DEF Fit
<1>5. /\ DOMAIN some = 1..M /\ \A n \in 1..M : InTurn(Fit)[n] \in Fit /\ some[n] = lines[InTurn(Fit)[n]]
      /\ \A i \in Fit : \E n \in 1..M : InTurn(Fit)[n] = i /\ some[n] = lines[i]
  BY <1>2, <1>3, EntriesOf
<1> HIDE DEF M, parsed
<1>6. P \in Nat /\ OneEach(M, some, P, parsed)
  BY <1>2, <1>4, <1>5, FirstsOf DEF Ids
<1> HIDE DEF P
<1>7. DOMAIN parsed = 1..P
  BY <1>6 DEF OneEach
<1>8. out = Firsts(all)
  <2>1. out = Firsts([i \in DOMAIN parsed |-> CandidateOf(client, parsed[i], volumes)])
    BY DEF FromCustom, CandidateOf
  <2> QED BY <1>7, <2>1
<1>9. DOMAIN all = 1..P /\ \A i \in 1..P : /\ all[i].text = parsed[i].text /\ all[i].keep = TRUE
             /\ all[i].seed = IF parsed[i].keyword # {} THEN parsed[i].keyword ELSE Closest(parsed[i].text.words, client.seeds)
  <2>1. DOMAIN all = 1..P /\ \A i \in 1..P : all[i] = CandidateOf(client, parsed[i], volumes)
    OBVIOUS
  <2> HIDE DEF all
  <2>2. ASSUME NEW i \in 1..P
        PROVE  /\ all[i].text = parsed[i].text /\ all[i].keep = TRUE
               /\ all[i].seed = IF parsed[i].keyword # {} THEN parsed[i].keyword ELSE Closest(parsed[i].text.words, client.seeds)
    <3> DEFINE p == parsed[i]
    <3>1. all[i] = CandidateOf(client, p, volumes)
      BY <2>1
    <3> HIDE DEF p
    <3>2. /\ CandidateOf(client, p, volumes).text = p.text /\ CandidateOf(client, p, volumes).keep = TRUE
          /\ CandidateOf(client, p, volumes).seed = IF p.keyword # {} THEN p.keyword ELSE Closest(p.text.words, client.seeds)
      BY CandidateOfAs
    <3> QED BY <3>1, <3>2 DEF p
  <2> QED BY <2>1, <2>2
<1> DEFINE V == {all[i] : i \in 1..P}
<1>10. all \in [1..P -> V]
  OBVIOUS
<1> HIDE DEF all, out, V
<1>11. AllApart(P, all) /\ Ids(P, all)
  BY <1>6, <1>9 DEF AllApart, Ids, OneEach
<1>12. out = all
  BY <1>6, <1>8, <1>10, <1>11, FirstsAll
<1>13. [i \in DOMAIN out |-> out[i].text.id] = [i \in DOMAIN parsed |-> parsed[i].text.id]
  BY <1>7, <1>9, <1>12
<1>14. ASSUME NEW l \in Range1(lines), ~ l.comment, ~ l.short PROVE \E c \in Range1(out) : c.text.id = l.text.id /\ c.keep
  <2>1. PICK i \in 1..N : l = lines[i]
    BY <1>1 DEF Range1
  <2>2. i \in Fit
    BY <1>14, <2>1 DEF Fit
  <2>3. PICK n \in 1..M : some[n] = lines[i]
    BY <1>5, <2>2
  <2>4. PICK p \in 1..P : parsed[p].text.id = some[n].text.id
    BY <1>6 DEF OneEach
  <2>5. out[p] \in Range1(out) /\ out[p].text = parsed[p].text /\ out[p].keep
    BY <1>9, <1>12 DEF Range1
  <2> QED BY <2>1, <2>3, <2>4, <2>5
<1>15. ASSUME NEW c \in Range1(out) PROVE c.seed \in Range1(client.seeds) \cup {l.keyword : l \in Range1(lines)}
  <2>1. PICK p \in 1..P : c = out[p]
    BY <1>9, <1>12 DEF Range1
  <2>2. c.seed = IF parsed[p].keyword # {} THEN parsed[p].keyword ELSE Closest(parsed[p].text.words, client.seeds)
    BY <1>9, <1>12, <2>1
  <2>3. PICK n \in 1..M : parsed[p] = some[n]
    BY <1>6 DEF OneEach
  <2>4. InTurn(Fit)[n] \in 1..N /\ some[n] = lines[InTurn(Fit)[n]]
    BY <1>5 DEF Fit
  <2>5. parsed[p] \in Range1(lines)
    BY <1>1, <2>3, <2>4 DEF Range1
  <2>6. Closest(parsed[p].text.words, client.seeds) \in Range1(client.seeds)
    BY ClosestIn
  <2> QED BY <2>2, <2>5, <2>6
<1>16. \A l \in Range1(lines) : l.comment \/ l.short \/ \E c \in Range1(out) : c.text.id = l.text.id /\ c.keep
  BY <1>14
<1>17. /\ CustomKept(client, lines, volumes)
          <=> /\ [i \in DOMAIN out |-> out[i].text.id] = [i \in DOMAIN parsed |-> parsed[i].text.id]
              /\ \A l \in Range1(lines) : l.comment \/ l.short \/ \E c \in Range1(out) : c.text.id = l.text.id /\ c.keep
              /\ \A c \in Range1(out) : c.seed \in Range1(client.seeds) \cup {l.keyword : l \in Range1(lines)}
  BY Zenon DEF CustomKept, out, parsed
<1> QED BY <1>13, <1>15, <1>16, <1>17

-----------------------------------------------------------------------------
(* Lists of lists. *)

\* What stands in a list of lists, one after the other.
IsFlat(N, s, t) == t = [i \in 1..N |-> IF i = 1 THEN s[i] ELSE t[i - 1] \o s[i]]

LEMMA Flat ==
  ASSUME NEW s, Len(s) \in Nat, Len(s) # 0, NEW u, IsFlat(Len(s), s, u)
  PROVE  \E t : IsFlat(Len(s), s, t) /\ FlattenSeq(s) = t[Len(s)]
<1> DEFINE t == CHOOSE v : IsFlat(Len(s), s, v)
<1>1. IsFlat(Len(s), s, t)
  OBVIOUS
<1>2. FlattenSeq(s) = t[Len(s)]
  BY DEF FlattenSeq, IsFlat
<1> QED BY <1>1, <1>2

LEMMA FlatExists ==
  ASSUME NEW N \in Nat, NEW V, NEW s \in [1..N -> Seq(V)]
  PROVE  \E t : IsFlat(N, s, t)
<1> DEFINE S == 1..N
           pick == [r \in SUBSET S |-> IF r = {} THEN 0 ELSE Max(r)]
           step == [r \in SUBSET S |-> [v \in Seq(V) |-> v \o s[pick[r]]]]
           base == <<>>
           W == [r \in SUBSET S |-> Seq(V)]
<1>1. IsFiniteSet(S)
  BY FS_Interval
<1>2. \A r \in (SUBSET S) \ {{}} : pick[r] \in r /\ pick[r] = Max(r)
  <2> SUFFICES ASSUME NEW r \in (SUBSET S) \ {{}} PROVE pick[r] \in r /\ pick[r] = Max(r)
    OBVIOUS
  <2>1. IsFiniteSet(r) /\ r \in SUBSET Int /\ r # {}
    <3> HIDE DEF S
    <3>1. IsFiniteSet(r)
      BY <1>1, FS_Subset
    <3>2. S \in SUBSET Int
      BY DEF S
    <3> QED BY <3>1, <3>2
  <2>2. Max(r) \in r
    BY <2>1, MaxIn
  <2> QED BY <2>2
<1>3. PICK t : IsFold(S, pick, base, step, t)
  <2>1. Picks(S, pick)
    BY <1>2 DEF Picks
  <2> HIDE DEF S, pick, base, step
  <2> QED BY <1>1, <2>1, FoldExists
<1>4. \A r \in (SUBSET S) \ {{}} : t[r] = step[r][t[r \ {pick[r]}]]
  <2> HIDE DEF S, pick, base, step
  <2> QED BY <1>3 DEF IsFold
<1>5. t[{}] = base
  <2> HIDE DEF S, pick, base, step
  <2> QED BY <1>3 DEF IsFold
<1>6. \A r \in SUBSET S : t[r] \in Seq(V)
  <2>1. Picks(S, pick)
    BY <1>2 DEF Picks
  <2>2. base \in W[{}]
    OBVIOUS
  <2>3. ASSUME NEW r \in (SUBSET S) \ {{}}, NEW v \in W[r \ {pick[r]}] PROVE step[r][v] \in W[r]
    <3>1. v \in Seq(V) /\ pick[r] \in S
      BY <1>2, <2>3
    <3>2. step[r][v] = v \o s[pick[r]] /\ s[pick[r]] \in Seq(V)
      BY <3>1
    <3> HIDE DEF step, pick
    <3>3. v \o s[pick[r]] \in Seq(V)
      BY <3>1, <3>2
    <3> QED BY <3>2, <3>3
  <2>4. Stays(S, pick, base, step, W)
    <3> HIDE DEF pick, step, base, W
    <3> QED BY <2>2, <2>3 DEF Stays
  <2>5. FoldsIn(S, pick, base, step, W, t)
    <3> HIDE DEF pick, step, base, W
    <3> QED BY <1>4, <1>5 DEF FoldsIn
  <2>6. \A r \in SUBSET S : t[r] \in W[r]
    <3> HIDE DEF S, pick, step, base, W
    <3> QED BY <1>1, <2>1, <2>4, <2>5, FoldStays
  <2> QED BY <2>6
<1> DEFINE u == [i \in S |-> t[1..i]]
<1>7. \A i \in S : u[i] = IF i = 1 THEN s[i] ELSE u[i - 1] \o s[i]
  <2> SUFFICES ASSUME NEW i \in S PROVE u[i] = IF i = 1 THEN s[i] ELSE u[i - 1] \o s[i]
    OBVIOUS
  <2> DEFINE r == 1..i
  <2>1. r \in (SUBSET S) \ {{}} /\ r \ {i} = 1..(i - 1) /\ i \in Int /\ (i = 1 => 1..(i - 1) = {})
    <3>1. i \in Int /\ 1 <= i /\ i <= N
      OBVIOUS
    <3>2. r \in SUBSET S /\ i \in r
      BY <3>1
    <3>3. r \ {i} = 1..(i - 1)
      BY <3>1
    <3> QED BY <3>1, <3>2, <3>3
  <2>2. pick[r] = i
    <3>1. pick[r] \in r /\ pick[r] = Max(r)
      BY <1>2, <2>1
    <3>2. IsFiniteSet(r) /\ r \in SUBSET Int /\ i \in r /\ \A x \in r : x <= i
      BY <1>1, <2>1, FS_Subset
    <3> HIDE DEF r
    <3>3. \E x \in r : \A y \in r : x >= y
      BY <3>2
    <3>4. Max(r) \in r /\ \A y \in r : Max(r) >= y
      BY <3>3 DEF Max
    <3> DEFINE m == Max(r)
    <3>5. m \in r /\ m >= i
      BY <3>2, <3>4
    <3> HIDE DEF m
    <3>6. m \in Int /\ i \in Int /\ m <= i
      BY <3>2, <3>5
    <3>7. m = i
      BY <3>5, <3>6
    <3> QED BY <3>1, <3>7 DEF m
  <2>3. t[r] = step[r][t[r \ {i}]]
    <3> HIDE DEF r, step, pick
    <3> QED BY <1>4, <2>1, <2>2
  <2>4. t[r \ {i}] \in Seq(V)
    <3> HIDE DEF r
    <3> QED BY <1>6, <2>1
  <2>5. step[r][t[r \ {i}]] = t[r \ {i}] \o s[i]
    <3> HIDE DEF pick
    <3>1. r \in SUBSET S
      BY <2>1
    <3> HIDE DEF r
    <3> QED BY <2>2, <2>4, <3>1
  <2>6. t[r] = t[1..(i - 1)] \o s[i]
    BY <2>1, <2>3, <2>5
  <2>7. CASE i = 1
    <3>1. t[1..(i - 1)] = <<>>
      BY <1>5, <2>1, <2>7
    <3>2. s[i] \in Seq(V)
      OBVIOUS
    <3>3. <<>> \o s[i] = s[i]
      BY <3>2
    <3> QED BY <2>6, <2>7, <3>1, <3>3
  <2>8. CASE i # 1
    <3>1. i - 1 \in S
      BY <2>8
    <3> QED BY <2>6, <2>8, <3>1
  <2> QED BY <2>7, <2>8
<1>8. IsFlat(N, s, u)
  <2> HIDE DEF S
  <2>1. u = [i \in S |-> IF i = 1 THEN s[i] ELSE u[i - 1] \o s[i]]
    BY <1>7
  <2> QED BY <2>1 DEF IsFlat, S
<1> QED BY <1>8

Lengths(s) == [i \in DOMAIN s |-> Len(s[i])]
\* A list has what a list of lists has, each thing as often.
FlatOf(V, s, I, f) ==
  /\ f \in Seq(V) /\ Len(f) = SumFunctionOnSet(Lengths(s), I)
  /\ \A x : x \in In(f) <=> \E i \in I : x \in In(s[i])

Joins(V, p, q, pq) ==
  pq \in Seq(V) /\ Len(pq) = Len(p) + Len(q) /\ \A x : x \in In(pq) <=> x \in In(p) \/ x \in In(q)
LEMMA Appended ==
  ASSUME NEW V, NEW p \in Seq(V), NEW q \in Seq(V)
  PROVE  Joins(V, p, q, p \o q)
<1>1. p \o q \in Seq(V) /\ Len(p \o q) = Len(p) + Len(q)
  OBVIOUS
<1> DEFINE m == Len(p)
           n == Len(q)
           pq == p \o q
<1>2. m \in Nat /\ n \in Nat /\ DOMAIN p = 1..m /\ DOMAIN q = 1..n /\ DOMAIN pq = 1..(m + n)
  BY <1>1
<1>3. \A i \in 1..(m + n) : pq[i] = IF i <= m THEN p[i] ELSE q[i - m]
  OBVIOUS
<1> HIDE DEF m, n, pq
<1>4. \A i \in 1..m : pq[i] = p[i] /\ i \in 1..(m + n)
  BY <1>2, <1>3
<1>5. \A i \in 1..n : pq[i + m] = q[i] /\ i + m \in 1..(m + n)
  BY <1>2, <1>3
<1>6. \A i \in 1..(m + n) : (i \in 1..m /\ pq[i] = p[i]) \/ (i - m \in 1..n /\ pq[i] = q[i - m])
  BY <1>2, <1>3
<1>7. \A x : x \in In(pq) <=> x \in In(p) \/ x \in In(q)
  <2>1. ASSUME NEW x, x \in In(pq) PROVE x \in In(p) \/ x \in In(q)
    <3>1. PICK i \in 1..(m + n) : x = pq[i]
      BY <1>2, <2>1 DEF In
    <3>2. CASE i \in 1..m /\ pq[i] = p[i]
      BY <1>2, <3>1, <3>2 DEF In
    <3>3. CASE i - m \in 1..n /\ pq[i] = q[i - m]
      BY <1>2, <3>1, <3>3 DEF In
    <3> QED BY <1>6, <3>2, <3>3
  <2>2. ASSUME NEW x, x \in In(p) PROVE x \in In(pq)
    BY <1>2, <1>4, <2>2 DEF In
  <2>3. ASSUME NEW x, x \in In(q) PROVE x \in In(pq)
    <3>1. PICK i \in 1..n : x = q[i]
      BY <1>2, <2>3 DEF In
    <3>2. pq[i + m] = x /\ i + m \in DOMAIN pq
      BY <1>2, <1>5, <3>1
    <3> QED BY <3>2 DEF In
  <2> QED BY <2>1, <2>2, <2>3
<1> QED BY <1>1, <1>7 DEF pq, Joins, m, n

\* The flattened list, and what came before its last part.
FlatSoFar(V, s, t) ==
  IsFlat(Len(s), s, t) /\ FlattenSeq(s) = t[Len(s)] /\ \A i \in 1..Len(s) : FlatOf(V, s, 1..i, t[i])
LEMMA FlatPrefixes ==
  ASSUME NEW V, NEW s \in Seq(Seq(V)), Len(s) # 0
  PROVE  \E t : FlatSoFar(V, s, t)
<1> DEFINE N == Len(s)
           L == Lengths(s)
<1>1. N \in Nat /\ DOMAIN s = 1..N /\ s \in [1..N -> Seq(V)]
  OBVIOUS
<1>2. IsFiniteSet(1..N) /\ L \in [1..N -> Int] /\ \A i \in 1..N : s[i] \in Seq(V) /\ L[i] = Len(s[i])
  <2>1. IsFiniteSet(1..N)
    <3> HIDE DEF N
    <3> QED BY <1>1, FS_Interval
  <2>2. \A i \in 1..N : s[i] \in Seq(V) /\ Len(s[i]) \in Int
    OBVIOUS
  <2>3. L = [i \in 1..N |-> Len(s[i])]
    BY <1>1 DEF Lengths
  <2> HIDE DEF L, N
  <2> QED BY <2>1, <2>2, <2>3
<1>3. N # 0
  OBVIOUS
<1>4. \E t : FlatSoFar(V, s, t)
  <2>1. PICK u : IsFlat(N, s, u)
    <3> HIDE DEF N
    <3> QED BY <1>1, FlatExists
  <2>2. PICK t : IsFlat(N, s, t) /\ FlattenSeq(s) = t[N]
    BY <1>1, <1>3, <2>1, Flat
  <2> HIDE DEF N, L
  <2>3. \A i \in 1..N : t[i] = IF i = 1 THEN s[i] ELSE t[i - 1] \o s[i]
    BY <2>2 DEF IsFlat
  <2>10. AddsUp(1..N, L)
    <3> DEFINE D == 1..N
    <3>1. IsFiniteSet(D) /\ L \in [D -> Int]
      BY <1>2
    <3> HIDE DEF D
    <3>2. AddsUp(D, L)
      BY <3>1, SumsAddUp
    <3> QED BY <3>2 DEF D
  <2> DEFINE P(i) == FlatOf(V, s, 1..i, t[i])
             B == {i \in 1..N : ~ P(i)}
  <2>4. ASSUME NEW k \in B, \A m \in B : k <= m PROVE FALSE
    <3>1. k \in 1..N /\ ~ P(k) /\ k \in Nat /\ 1 <= k /\ k <= N
      BY <1>1, <2>4
    <3>2. s[k] \in Seq(V) /\ L[k] = Len(s[k])
      BY <1>2, <3>1
    <3>3. CASE k = 1
      <4>1. t[k] = s[1] /\ 1..k = {1}
        BY <2>3, <3>1, <3>3
      <4>2. SumFunctionOnSet(L, {} \cup {1}) = 0 + L[1]
        <5>1. {} \in SUBSET (1..N) /\ 1 \in (1..N) \ {}
          BY <3>1, <3>3
        <5> QED BY <1>2, <2>10, <5>1, SumEmpty DEF AddsUp
      <4>3. SumFunctionOnSet(L, 1..k) = Len(t[k])
        <5>1. {} \cup {1} = {1}
          OBVIOUS
        <5>2. Len(s[1]) \in Nat /\ L[1] = Len(s[1])
          BY <3>2, <3>3
        <5>3. SumFunctionOnSet(L, 1..k) = SumFunctionOnSet(L, {} \cup {1})
          BY <4>1, <5>1
        <5> QED BY <4>1, <4>2, <5>2, <5>3
      <4>4. P(k)
        BY <3>2, <3>3, <4>1, <4>3 DEF FlatOf, L
      <4> QED BY <3>1, <4>4
    <3>4. CASE k # 1
      <4> DEFINE j == k - 1
      <4>1. j \in 1..N /\ j \notin B /\ j + 1 = k /\ 1..k = (1..j) \cup {k} /\ k \notin 1..j /\ 1..j \in SUBSET (1..N)
        BY <1>1, <2>4, <3>1, <3>4
      <4>2. t[k] = t[j] \o s[k]
        BY <2>3, <3>1, <3>4
      <4>3. P(j)
        BY <4>1
      <4> HIDE DEF j
      <4>4. t[j] \in Seq(V) /\ Len(t[j]) = SumFunctionOnSet(L, 1..j) /\ \A x : x \in In(t[j]) <=> \E i \in 1..j : x \in In(s[i])
        BY <4>3 DEF FlatOf, L
      <4>5. t[k] \in Seq(V) /\ Len(t[k]) = Len(t[j]) + Len(s[k]) /\ \A x : x \in In(t[k]) <=> x \in In(t[j]) \/ x \in In(s[k])
        <5>1. Joins(V, t[j], s[k], t[k])
          BY <3>2, <4>2, <4>4, Appended
        <5> QED BY <5>1 DEF Joins
      <4>6. SumFunctionOnSet(L, (1..j) \cup {k}) = SumFunctionOnSet(L, 1..j) + L[k]
        <5> DEFINE J == 1..j
        <5>1. J \in SUBSET (1..N) /\ k \in (1..N) \ J
          BY <3>1, <4>1
        <5> HIDE DEF J
        <5>2. SumFunctionOnSet(L, J \cup {k}) = SumFunctionOnSet(L, J) + L[k]
          BY <2>10, <5>1 DEF AddsUp
        <5> QED BY <5>2 DEF J
      <4>7. Len(t[k]) = SumFunctionOnSet(L, 1..k)
        BY <3>2, <4>1, <4>4, <4>5, <4>6
      <4>8. \A x : x \in In(t[k]) <=> \E i \in 1..k : x \in In(s[i])
        BY <4>1, <4>4, <4>5
      <4>9. P(k)
        BY <4>5, <4>7, <4>8 DEF FlatOf, L
      <4> QED BY <3>1, <4>9
    <3> QED BY <3>3, <3>4
  <2>5. B = {}
    <3>1. B \in SUBSET Nat
      BY <1>1
    <3> HIDE DEF B
    <3> QED BY <2>4, <3>1, LeastOf
  <2>6. \A i \in 1..N : P(i)
    BY <2>5
  <2> QED BY <2>2, <2>6 DEF N, FlatSoFar
<1> QED BY <1>4

LEMMA FlatIs ==
  ASSUME NEW V, NEW s \in Seq(Seq(V))
  PROVE  FlatOf(V, s, DOMAIN s, FlattenSeq(s))
<1>1. Len(s) \in Nat /\ DOMAIN s = 1..Len(s)
  OBVIOUS
<1>2. CASE Len(s) = 0
  <2>1. FlattenSeq(s) = s
    BY <1>2 DEF FlattenSeq
  <2>2. s \in Seq(V) /\ Len(s) = 0 /\ DOMAIN s = {} /\ In(s) = {}
    BY <1>1, <1>2 DEF In
  <2> DEFINE L == Lengths(s)
             e == {}
  <2>3. IsFiniteSet(e) /\ L \in [e -> Int]
    BY <2>2, FS_EmptySet DEF Lengths
  <2> HIDE DEF L
  <2>4. SumFunctionOnSet(L, {}) = 0
    BY <2>3, SumEmpty
  <2> QED BY <2>1, <2>2, <2>4 DEF FlatOf, L
<1>3. CASE Len(s) # 0
  <2>1. PICK t : FlatSoFar(V, s, t)
    BY <1>3, FlatPrefixes
  <2>2. Len(s) \in 1..Len(s)
    BY <1>1, <1>3
  <2> QED BY <1>1, <2>1, <2>2 DEF FlatSoFar
<1> QED BY <1>2, <1>3

\* What the things in a list weigh together.
Weight(w, s) == SumFunctionOnSet([i \in DOMAIN s |-> w[s[i]]], DOMAIN s)
LEMMA WeightAppended ==
  ASSUME NEW V, NEW w \in [V -> Int], NEW p \in Seq(V), NEW q \in Seq(V)
  PROVE  Weight(w, p \o q) = Weight(w, p) + Weight(w, q) /\ Weight(w, p) \in Int /\ Weight(w, q) \in Int
<1> DEFINE m == Len(p)
           n == Len(q)
           pq == p \o q
           M == 1..m
           N == 1..n
           S == 1..(m + n)
           R == S \ M
           f == [i \in M |-> w[p[i]]]
           g == [i \in N |-> w[q[i]]]
           h == [i \in S |-> w[pq[i]]]
           k == [i \in R |-> h[i]]
           b == [i \in N |-> i + m]
<1>1. m \in Nat /\ n \in Nat /\ DOMAIN p = M /\ DOMAIN q = N /\ DOMAIN pq = S /\ p \in [M -> V] /\ q \in [N -> V] /\ pq \in [S -> V]
  <2>1. m \in Nat /\ n \in Nat /\ DOMAIN p = M /\ DOMAIN q = N /\ p \in [M -> V] /\ q \in [N -> V]
    OBVIOUS
  <2>2. pq \in Seq(V) /\ Len(pq) = m + n
    OBVIOUS
  <2> HIDE DEF m, n, pq
  <2>3. DOMAIN pq = S /\ pq \in [S -> V]
    BY <2>2
  <2> QED BY <2>1, <2>3
<1>2. \A i \in S : pq[i] = IF i <= m THEN p[i] ELSE q[i - m]
  OBVIOUS
<1>3. Weight(w, p) = SumFunctionOnSet(f, M) /\ Weight(w, q) = SumFunctionOnSet(g, N) /\ Weight(w, pq) = SumFunctionOnSet(h, S)
  BY <1>1 DEF Weight
<1> HIDE DEF m, n, pq
<1>4. IsFiniteSet(M) /\ IsFiniteSet(N) /\ IsFiniteSet(S)
  <2>1. m \in Int /\ n \in Int /\ m + n \in Int /\ 1 \in Int
    BY <1>1
  <2> DEFINE l == m + n
  <2> HIDE DEF l
  <2>2. IsFiniteSet(1..m) /\ IsFiniteSet(1..n) /\ IsFiniteSet(1..l)
    BY <2>1, FS_Interval DEF l
  <2> QED BY <2>2 DEF l
<1>5. f \in [M -> Int] /\ g \in [N -> Int] /\ h \in [S -> Int] /\ k \in [R -> Int]
  BY <1>1
<1>6. M \in SUBSET S /\ R \in SUBSET S /\ (\A i \in M : h[i] = f[i]) /\ (\A i \in R : h[i] = k[i])
  BY <1>1, <1>2
<1>7. Renames(R, k, N, g, b)
  <2>1. \A i \in N : i + m \in R /\ i + m \in S /\ ~ (i + m <= m) /\ (i + m) - m = i
    BY <1>1
  <2>2. \A x \in R : x - m \in N /\ (x - m) + m = x
    BY <1>1
  <2>3. \A i \in N : k[i + m] = w[q[i]]
    BY <1>2, <2>1
  <2>4. b \in [N -> R] /\ \A i \in N : b[i] = i + m /\ g[i] = k[b[i]]
    BY <2>1, <2>3
  <2>5. \A x, y \in N : x + m = y + m => x = y
    BY <1>1
  <2> HIDE DEF b, k, g, N, R
  <2> QED BY <2>2, <2>4, <2>5 DEF Renames
<1> HIDE DEF M, N, S, R, f, g, h, k, b
<1>8. SumFunctionOnSet(h, S) = SumFunctionOnSet(h, M) + SumFunctionOnSet(h, S \ M)
  BY <1>4, <1>5, <1>6, SumParts
<1>9. SumFunctionOnSet(h, M) = SumFunctionOnSet(f, M)
  <2>1. /\ IsFiniteSet(S) /\ h \in [S -> Int] /\ IsFiniteSet(M) /\ f \in [M -> Int]
        /\ M \in SUBSET S /\ M \subseteq M /\ \A x \in M : h[x] = f[x]
    BY <1>4, <1>5, <1>6
  <2> QED BY <2>1, SumAgrees
<1>10. IsFiniteSet(R)
  BY <1>4, <1>6, FS_Subset
<1>11. SumFunctionOnSet(h, R) = SumFunctionOnSet(k, R)
  <2>1. /\ IsFiniteSet(S) /\ h \in [S -> Int] /\ IsFiniteSet(R) /\ k \in [R -> Int]
        /\ R \in SUBSET S /\ R \subseteq R /\ \A x \in R : h[x] = k[x]
    BY <1>4, <1>5, <1>6, <1>10
  <2> QED BY <2>1, SumAgrees
<1>12. SumFunctionOnSet(g, N) = SumFunctionOnSet(k, R)
  BY <1>4, <1>5, <1>7, <1>10, SumRenamed
<1>13. SumFunctionOnSet(f, M) \in Int /\ SumFunctionOnSet(g, N) \in Int
  BY <1>4, <1>5, SumTyped
<1>14. SumFunctionOnSet(h, S) = SumFunctionOnSet(f, M) + SumFunctionOnSet(g, N)
  BY <1>8, <1>9, <1>11, <1>12 DEF R
<1> QED BY <1>3, <1>13, <1>14 DEF pq

LEMMA FlatWeighs ==
  ASSUME NEW V, NEW w \in [V -> Int], NEW s \in Seq(Seq(V))
  PROVE  Weight(w, FlattenSeq(s)) = SumFunctionOnSet([i \in DOMAIN s |-> Weight(w, s[i])], DOMAIN s)
<1> DEFINE N == Len(s)
           D == 1..N
           f == [i \in D |-> Weight(w, s[i])]
<1>1. N \in Nat /\ DOMAIN s = D /\ s \in [D -> Seq(V)]
  OBVIOUS
<1>2. f \in [D -> Int]
  <2>1. \A i \in D : Weight(w, s[i]) \in Int
    BY <1>1, WeightAppended
  <2> QED BY <2>1
<1>3. IsFiniteSet(D) /\ AddsUp(D, f)
  <2>1. IsFiniteSet(D)
    <3> HIDE DEF N
    <3> QED BY <1>1, FS_Interval
  <2> HIDE DEF D, f
  <2> QED BY <1>2, <2>1, SumsAddUp
<1>4. SumFunctionOnSet(f, {}) = 0
  <2> HIDE DEF D, f
  <2> QED BY <1>2, <1>3, SumEmpty
<1>5. CASE N = 0
  <2>1. FlattenSeq(s) = s /\ D = {} /\ DOMAIN s = {}
    BY <1>1, <1>5 DEF FlattenSeq
  <2>2. [i \in DOMAIN s |-> w[s[i]]] = f
    BY <2>1
  <2>3. Weight(w, s) = 0
    <3> HIDE DEF f
    <3> QED BY <1>4, <2>1, <2>2 DEF Weight
  <2>4. SumFunctionOnSet(f, D) = 0
    <3> HIDE DEF f, D
    <3> QED BY <1>4, <2>1
  <2> QED BY <1>1, <2>1, <2>3, <2>4
<1>6. CASE N # 0
  <2>1. PICK t : FlatSoFar(V, s, t)
    BY <1>6, FlatPrefixes
  <2>2. FlattenSeq(s) = t[N] /\ \A i \in D : t[i] \in Seq(V) /\ t[i] = IF i = 1 THEN s[i] ELSE t[i - 1] \o s[i]
    BY <2>1 DEF FlatSoFar, IsFlat, FlatOf
  <2> DEFINE B == {i \in D : Weight(w, t[i]) # SumFunctionOnSet(f, 1..i)}
  <2>3. ASSUME NEW k \in B, \A m \in B : k <= m PROVE FALSE
    <3>1. k \in D /\ Weight(w, t[k]) # SumFunctionOnSet(f, 1..k) /\ f[k] = Weight(w, s[k])
      BY <2>3
    <3> DEFINE j == k - 1
               J == 1..j
    <3>2. J \in SUBSET D /\ k \in D \ J /\ 1..k = J \cup {k}
      BY <1>1, <3>1
    <3>3. SumFunctionOnSet(f, J \cup {k}) = SumFunctionOnSet(f, J) + f[k] /\ SumFunctionOnSet(f, J) \in Int
      <4> HIDE DEF D, J, f
      <4> QED BY <1>3, <3>2 DEF AddsUp
    <3>4. f[k] \in Int
      BY <1>2, <3>1
    <3>5. CASE k = 1
      <4>1. J = {}
        BY <3>5
      <4>2. t[k] = s[k]
        BY <2>2, <3>1, <3>5
      <4> HIDE DEF D, J, f
      <4>3. SumFunctionOnSet(f, J) = 0
        BY <1>4, <4>1
      <4>4. SumFunctionOnSet(f, J \cup {k}) = f[k]
        BY <3>3, <3>4, <4>3
      <4>5. SumFunctionOnSet(f, 1..k) = SumFunctionOnSet(f, J \cup {k})
        BY <3>2
      <4>6. Weight(w, t[k]) = f[k]
        BY <3>1, <4>2
      <4> QED BY <3>1, <4>4, <4>5, <4>6
    <3>6. CASE k # 1
      <4>1. j \in D /\ j \notin B
        <5>1. j \in D /\ j < k
          BY <1>1, <3>1, <3>6
        <5>2. k \in Nat /\ j \in Nat
          BY <1>1, <3>1, <5>1
        <5> HIDE DEF B, j
        <5> QED BY <2>3, <5>1, <5>2
      <4>2. t[k] = t[j] \o s[k]
        BY <2>2, <3>1, <3>6
      <4>3. Weight(w, t[j]) = SumFunctionOnSet(f, J)
        BY <4>1
      <4>4. t[j] \in Seq(V) /\ s[k] \in Seq(V)
        BY <1>1, <2>2, <3>1, <4>1
      <4> HIDE DEF D, J, f, j
      <4>5. Weight(w, t[k]) = Weight(w, t[j]) + Weight(w, s[k])
        BY <4>2, <4>4, WeightAppended
      <4> QED BY <3>1, <3>2, <3>3, <4>3, <4>5
    <3> QED BY <3>5, <3>6
  <2>4. B = {}
    <3>1. B \in SUBSET Nat
      BY <1>1
    <3> HIDE DEF B
    <3> QED BY <2>3, <3>1, LeastOf
  <2>5. N \in D
    BY <1>1, <1>6
  <2>6. Weight(w, t[N]) = SumFunctionOnSet(f, 1..N)
    BY <2>4, <2>5
  <2>7. [i \in DOMAIN s |-> Weight(w, s[i])] = f
    BY <1>1
  <2> HIDE DEF f, N
  <2> QED BY <1>1, <2>2, <2>6, <2>7
<1> QED BY <1>5, <1>6

\* A sum of differences is the difference of the ends.
LEMMA Telescopes ==
  ASSUME NEW K \in Nat, NEW f \in [1..K -> Int], NEW g \in [0..K -> Int], g[0] = 0, \A k \in 1..K : f[k] = g[k] - g[k - 1]
  PROVE  SumFunctionOnSet(f, 1..K) = g[K]
<1> DEFINE D == 1..K
           B == {k \in 0..K : SumFunctionOnSet(f, 1..k) # g[k]}
<1>1. IsFiniteSet(D) /\ AddsUp(D, f)
  <2>1. IsFiniteSet(D)
    BY FS_Interval
  <2>2. f \in [D -> Int]
    OBVIOUS
  <2> HIDE DEF D
  <2> QED BY <2>1, <2>2, SumsAddUp
<1>2. ASSUME NEW k \in B, \A m \in B : k <= m PROVE FALSE
  <2>1. k \in 0..K /\ SumFunctionOnSet(f, 1..k) # g[k]
    BY <1>2
  <2>2. CASE k = 0
    <3>1. 1..k = {}
      BY <2>2
    <3>2. SumFunctionOnSet(f, {}) = 0
      <4>1. f \in [D -> Int]
        OBVIOUS
      <4> HIDE DEF D
      <4> QED BY <1>1, <4>1, SumEmpty
    <3> QED BY <2>1, <2>2, <3>1, <3>2
  <2>3. CASE k # 0
    <3> DEFINE j == k - 1
               J == 1..j
    <3>1. j \in 0..K /\ j \notin B /\ 1..k = J \cup {k} /\ J \in SUBSET D /\ k \in D \ J
      <4>1. k \in Nat /\ 1 <= k /\ k <= K /\ j < k /\ j \in Nat
        BY <2>1, <2>3
      <4>2. j \notin B
        BY <1>2, <4>1
      <4> HIDE DEF B
      <4> QED BY <4>1, <4>2
    <3>2. SumFunctionOnSet(f, J) = g[j]
      BY <3>1
    <3>3. f[k] = g[k] - g[j] /\ f[k] \in Int /\ g[k] \in Int /\ g[j] \in Int
      BY <2>1, <2>3, <3>1
    <3> HIDE DEF D, J, j
    <3>4. SumFunctionOnSet(f, J \cup {k}) = SumFunctionOnSet(f, J) + f[k]
      BY <1>1, <3>1 DEF AddsUp
    <3>5. SumFunctionOnSet(f, J \cup {k}) = g[k]
      BY <3>2, <3>3, <3>4
    <3> QED BY <2>1, <3>1, <3>5
  <2> QED BY <2>2, <2>3
<1>3. B = {}
  <2>1. B \in SUBSET Nat
    OBVIOUS
  <2> HIDE DEF B
  <2> QED BY <1>2, <2>1, LeastOf
<1>4. K \in 0..K
  OBVIOUS
<1> QED BY <1>3, <1>4

\* As many distinct things as places: no two places have the same.
Unrepeated(s) == \A i, j \in DOMAIN s : s[i] = s[j] => i = j
Counted(s) ==
  IsFiniteSet(In(s)) /\ Cardinality(In(s)) \in Nat /\ Cardinality(In(s)) <= Len(s) /\ (Cardinality(In(s)) = Len(s) <=> Unrepeated(s))
LEMMA Counts ==
  ASSUME NEW V, NEW s \in Seq(V)
  PROVE  Counted(s)
<1> DEFINE N == Len(s)
           D == 1..N
           T == In(s)
<1>1. N \in Nat /\ DOMAIN s = D /\ s \in [D -> V]
  OBVIOUS
<1>2. IsFiniteSet(D) /\ Cardinality(D) = N
  <2> HIDE DEF N
  <2> QED BY <1>1, FS_Interval
<1>3. \A x : x \in T <=> \E i \in D : x = s[i]
  BY <1>1 DEF In
<1> HIDE DEF N, D, T
<1>4. s \in [D -> T] /\ \A x \in T : \E i \in D : s[i] = x
  BY <1>1, <1>3
<1>5. s \in Surjection(D, T)
  BY <1>4 DEF Surjection
<1>6. IsFiniteSet(T) /\ Cardinality(T) <= Cardinality(D) /\ (Cardinality(T) = Cardinality(D) <=> s \in Injection(D, T))
  BY <1>2, <1>5, FS_Surjection
<1>7. s \in Injection(D, T) <=> Unrepeated(s)
  BY <1>1, <1>4 DEF Injection, Unrepeated, IsInjective
<1>8. Cardinality(T) \in Nat
  BY <1>6, FS_CardinalityType
<1> QED BY <1>2, <1>6, <1>7, <1>8 DEF Counted, N, T

Sliced(V, s, a, b, t) ==
  t \in Seq(V) /\ Len(t) = b - a + 1 /\ DOMAIN t = 1..(b - a + 1) /\ \A i \in 1..(b - a + 1) : t[i] = s[a + i - 1]
LEMMA Slices ==
  ASSUME NEW V, NEW s \in Seq(V), NEW a \in Nat, NEW b \in Nat, a > 0, a <= b + 1, b <= Len(s)
  PROVE  Sliced(V, s, a, b, SubSeq(s, a, b))
<1> DEFINE t == SubSeq(s, a, b)
           n == b - a + 1
<1>1. t = [i \in 1..n |-> s[a + i - 1]]
  BY DEF SubSeq
<1>2. n \in Nat /\ \A i \in 1..n : s[a + i - 1] \in V
  OBVIOUS
<1> HIDE DEF t, n
<1>3. t \in Seq(V) /\ Len(t) = n /\ DOMAIN t = 1..n /\ \A i \in 1..n : t[i] = s[a + i - 1]
  BY <1>1, <1>2
<1> QED BY <1>3 DEF Sliced, t, n

LEMMA UpTo ==
  ASSUME NEW x \in Nat, NEW y \in Nat, NEW z \in Nat, x <= y
  PROVE  x * z <= y * z
<1>1. PICK d \in Nat : y = x + d
  <2>1. y - x \in Nat /\ y = x + (y - x)
    OBVIOUS
  <2> QED BY <2>1
<1>2. y * z = x * z + d * z /\ d * z \in Nat /\ x * z \in Nat
  BY <1>1
<1> QED BY <1>2

\* Chunks of a size: how many, and where each ends.
ChunkEnds(L, B, K) ==
  /\ K \in Nat /\ L <= K * B
  /\ \A k \in 0..K : k * B \in Nat
  /\ \A k \in 1..K : k * B = (k - 1) * B + B /\ (k - 1) * B < L
LEMMA ChunksEnd ==
  ASSUME NEW L \in Nat, NEW B \in Nat \ {0}
  PROVE  ChunkEnds(L, B, (L + B - 1) \div B)
<1> DEFINE K == (L + B - 1) \div B
<1>1. \A x \in Nat, y \in Nat : y > 0 => (x \div y) \in Nat /\ (x \div y) * y <= x /\ x < ((x \div y) + 1) * y
  OBVIOUS
<1>2. L + B - 1 \in Nat /\ B > 0
  OBVIOUS
<1>3. K \in Nat /\ K * B <= L + B - 1 /\ L + B - 1 < (K + 1) * B
  BY <1>1, <1>2
<1> HIDE DEF K
<1>4. (K + 1) * B = K * B + B /\ K * B \in Nat
  BY <1>3
<1>5. L <= K * B
  BY <1>3, <1>4
<1>6. ASSUME NEW k \in 1..K PROVE k * B = (k - 1) * B + B /\ (k - 1) * B < L
  <2>1. k \in Nat /\ k - 1 \in Nat /\ k <= K
    BY <1>3
  <2>2. k * B = (k - 1) * B + B /\ (k - 1) * B \in Nat
    BY <2>1
  <2>3. k * B <= K * B
    BY <1>3, <2>1, UpTo
  <2> DEFINE p == k * B
             q == (k - 1) * B
             r == K * B
  <2>4. p = q + B /\ q \in Nat /\ p <= r /\ r <= L + B - 1 /\ r \in Nat
    BY <1>3, <1>4, <2>2, <2>3
  <2> HIDE DEF p, q, r
  <2>5. q < L
    BY <2>4
  <2> QED BY <2>2, <2>5 DEF q
<1>7. \A k \in 0..K : k * B \in Nat
  BY <1>3
<1> QED BY <1>3, <1>5, <1>6, <1>7 DEF ChunkEnds, K

InChunks(V, s, c) == c \in Seq(Seq(V)) /\ FlatOf(V, c, DOMAIN c, s)
LEMMA ChunksHold ==
  ASSUME BatchSize \in Nat \ {0}, NEW V, NEW s \in Seq(V)
  PROVE  InChunks(V, s, Chunks(s))
<1> DEFINE L == Len(s)
           B == BatchSize
           K == (L + B - 1) \div B
           c == Chunks(s)
           g == [k \in 0..K |-> Fewer(k * B, L)]
<1>1. L \in Nat /\ DOMAIN s = 1..L /\ B \in Nat \ {0}
  OBVIOUS
<1>2. c = [k \in 1..K |-> SubSeq(s, (k - 1) * B + 1, Fewer(k * B, L))]
  BY DEF Chunks
<1>3. ChunkEnds(L, B, K)
  <2> HIDE DEF L, B
  <2> QED BY <1>1, ChunksEnd
<1> HIDE DEF K, c
<1>4. K \in Nat /\ L <= K * B /\ \A k \in 0..K : k * B \in Nat
  BY <1>3 DEF ChunkEnds
<1>5. ASSUME NEW k \in 1..K
      PROVE  /\ Sliced(V, s, (k - 1) * B + 1, g[k], c[k])
             /\ g[k] = Fewer(k * B, L) /\ g[k - 1] = (k - 1) * B /\ g[k] \in Nat /\ g[k] <= L /\ (k - 1) * B \in Nat /\ (k - 1) * B < g[k]
  <2>1. k \in 0..K /\ k - 1 \in 0..K
    BY <1>4
  <2>2. k * B = (k - 1) * B + B /\ (k - 1) * B < L /\ k * B \in Nat /\ (k - 1) * B \in Nat
    BY <1>3, <2>1 DEF ChunkEnds
  <2> DEFINE p == k * B
             q == (k - 1) * B
             e == Fewer(p, L)
  <2>3. c[k] = SubSeq(s, q + 1, e) /\ g[k] = e /\ g[k - 1] = Fewer(q, L)
    BY <1>2, <2>1
  <2>4. p = q + B /\ q < L /\ p \in Nat /\ q \in Nat
    BY <2>2
  <2> HIDE DEF p, q, L, B, g
  <2>5. e \in Nat /\ e <= L /\ q < e /\ Fewer(q, L) = q
    BY <1>1, <2>4 DEF Fewer
  <2> HIDE DEF e
  <2>6. Sliced(V, s, q + 1, e, SubSeq(s, q + 1, e))
    BY <1>1, <2>4, <2>5, Slices DEF L
  <2>7. Sliced(V, s, q + 1, g[k], c[k]) /\ g[k] = e /\ g[k - 1] = q
    BY <2>3, <2>5, <2>6
  <2> QED BY <2>4, <2>5, <2>7 DEF p, q, e
<1>6. c \in Seq(Seq(V)) /\ DOMAIN c = 1..K /\ Len(c) = K
  <2>1. \A k \in 1..K : c[k] \in Seq(V)
    BY <1>5 DEF Sliced
  <2> HIDE DEF g
  <2>2. c \in [1..K -> Seq(V)]
    BY <1>2, <2>1
  <2> QED BY <1>4, <2>2
<1>7. SumFunctionOnSet(Lengths(c), 1..K) = L
  <2> DEFINE f == Lengths(c)
  <2>1. \A k \in 1..K : f[k] \in Int /\ f[k] = g[k] - g[k - 1]
    <3> SUFFICES ASSUME NEW k \in 1..K PROVE f[k] \in Int /\ f[k] = g[k] - g[k - 1]
      OBVIOUS
    <3>1. Len(c[k]) = g[k] - ((k - 1) * B + 1) + 1
      BY <1>5 DEF Sliced
    <3>2. f[k] = Len(c[k])
      BY <1>6 DEF Lengths
    <3>3. g[k - 1] = (k - 1) * B /\ g[k] \in Nat /\ (k - 1) * B \in Nat
      BY <1>5
    <3> HIDE DEF f, g
    <3> QED BY <3>1, <3>2, <3>3
  <2>2. f \in [1..K -> Int]
    <3>1. f = [k \in 1..K |-> Len(c[k])]
      BY <1>6 DEF Lengths
    <3> HIDE DEF f, g
    <3> QED BY <2>1, <3>1
  <2>3. g \in [0..K -> Int] /\ g[0] = 0 /\ g[K] = L
    <3>1. \A k \in 0..K : Fewer(k * B, L) \in Int
      BY <1>1, <1>4 DEF Fewer
    <3>2. 0 * B = 0 /\ 0 \in 0..K /\ K \in 0..K
      BY <1>1, <1>4
    <3>3. g[0] = Fewer(0 * B, L) /\ g[K] = Fewer(K * B, L)
      BY <3>2
    <3>4. Fewer(0 * B, L) = 0
      BY <1>1, <3>2 DEF Fewer
    <3>5. K * B \in Nat /\ L <= K * B
      BY <1>4, <3>2
    <3>6. Fewer(K * B, L) = L
      <4> DEFINE p == K * B
      <4>1. p \in Nat /\ L <= p
        BY <3>5
      <4> HIDE DEF p, L
      <4>2. Fewer(p, L) = L
        BY <1>1, <4>1 DEF Fewer
      <4> QED BY <4>2 DEF p
    <3> QED BY <3>1, <3>3, <3>4, <3>6
  <2> HIDE DEF f, g, L
  <2>4. SumFunctionOnSet(f, 1..K) = g[K]
    BY <1>4, <2>1, <2>2, <2>3, Telescopes
  <2> QED BY <2>3, <2>4 DEF f
<1>8. ASSUME NEW x, x \in In(s) PROVE \E k \in 1..K : x \in In(c[k])
  <2>1. PICK i \in 1..L : x = s[i]
    BY <1>1, <1>8 DEF In
  <2> DEFINE H == {k \in 1..K : i <= k * B}
  <2>2. H # {} /\ H \in SUBSET Nat
    <3>1. i <= K * B /\ i > 0
      <4> DEFINE p == K * B
      <4>1. p \in Nat /\ L <= p
        BY <1>4
      <4> HIDE DEF p, L
      <4>2. i <= p /\ i > 0
        BY <1>1, <4>1
      <4> QED BY <4>2 DEF p
    <3>2. K # 0
      BY <1>1, <3>1
    <3>3. K \in 1..K
      BY <1>4, <3>2
    <3>4. K \in H
      BY <3>1, <3>3
    <3>5. \A k \in 1..K : k \in Nat
      BY <1>4
    <3> QED BY <3>4, <3>5
  <2>3. PICK k \in H : \A m \in H : k <= m
    <3> HIDE DEF H
    <3> QED BY <2>2, LeastOf
  <2>4. k \in 1..K /\ i <= k * B
    BY <2>3
  <2>5. (k - 1) * B < i
    <3>1. CASE k = 1
      <4>1. (k - 1) * B = 0
        BY <1>1, <3>1
      <4>2. i > 0
        BY <1>1
      <4> QED BY <4>1, <4>2
    <3>2. CASE k # 1
      <4>1. k - 1 \in 1..K /\ k - 1 < k
        BY <1>4, <2>4, <3>2
      <4>2. k - 1 \notin H
        <5> HIDE DEF H
        <5>1. k \in Nat
          BY <2>2, <2>3
        <5> QED BY <2>3, <4>1, <5>1
      <4>3. ~ (i <= (k - 1) * B)
        BY <4>1, <4>2
      <4>4. (k - 1) * B \in Nat /\ i \in Nat
        BY <1>1, <1>5, <2>4
      <4> QED BY <4>3, <4>4
    <3> QED BY <3>1, <3>2
  <2> DEFINE q == (k - 1) * B
             p == k * B
             e == g[k]
  <2>6. /\ Sliced(V, s, q + 1, e, c[k]) /\ e = Fewer(p, L) /\ q \in Nat /\ e \in Nat /\ q < e /\ q < i /\ i <= p
        /\ p \in Nat /\ i \in Nat /\ i <= L
    <3>1. Sliced(V, s, q + 1, e, c[k]) /\ e = Fewer(p, L) /\ q \in Nat /\ e \in Nat /\ q < e
      BY <1>5, <2>4
    <3>2. p \in Nat
      BY <1>4, <2>4
    <3> QED BY <1>1, <2>4, <2>5, <3>1, <3>2
  <2> HIDE DEF q, p, e, L
  <2>7. i - q \in 1..(e - (q + 1) + 1) /\ (q + 1) + (i - q) - 1 = i
    BY <1>1, <2>6 DEF Fewer
  <2>8. c[k][i - q] = s[i] /\ i - q \in DOMAIN c[k]
    BY <2>6, <2>7 DEF Sliced
  <2> QED BY <2>1, <2>4, <2>8 DEF In
<1>9. ASSUME NEW k \in 1..K, NEW x, x \in In(c[k]) PROVE x \in In(s)
  <2> DEFINE q == (k - 1) * B
             e == g[k]
  <2>1. Sliced(V, s, q + 1, e, c[k]) /\ q \in Nat /\ e \in Nat /\ e <= L /\ q < e
    BY <1>5
  <2> HIDE DEF q, e, L
  <2>2. PICK i \in 1..(e - (q + 1) + 1) : x = s[(q + 1) + i - 1]
    BY <1>9, <2>1 DEF In, Sliced
  <2>3. (q + 1) + i - 1 \in 1..L
    BY <1>1, <2>1
  <2> QED BY <1>1, <2>2, <2>3 DEF In
<1>10. FlatOf(V, c, 1..K, s)
  <2> HIDE DEF g, B
  <2> QED BY <1>7, <1>8, <1>9 DEF FlatOf
<1> QED BY <1>6, <1>10 DEF c, InChunks

-----------------------------------------------------------------------------
(* The sentiment judge. *)

\* sentiment_max_sentences_per_run: at 0 the judge is off and does nothing.
JudgeLimits ==
  MaxClient \in Nat /\ MaxCompetitor \in Nat /\ Cap \in Nat \ {0} /\ BatchSize \in Nat \ {0} /\ "neutral" \in Polarities
\* What samples, candidates and rows are made of: T has a set for each field.
CandidateSet(T) == [at : T.at, engine : T.engine, entity : T.entity, sentence : T.sentence]
RowsOf(T) == [of : CandidateSet(T), status : {"ok", "refused", "unscored"}, polarity : Polarities, model : T.model]
SampleOf(T, x) == x.at \in T.at /\ x.engine \in T.engine /\ x.mentions \in Seq([entity : T.entity, sentence : T.sentence])
\* A sample is known by when it was captured.
SamplesOf(T, xs) ==
  /\ DOMAIN xs = 1..Len(xs) /\ Len(xs) \in Nat
  /\ \A i \in DOMAIN xs : SampleOf(T, xs[i])
  /\ \A i, j \in DOMAIN xs : xs[i].at = xs[j].at => i = j

Takes(V, s, I, t) ==
  /\ t \in Seq(V) /\ Len(t) = Cardinality(I) /\ DOMAIN t = 1..Cardinality(I)
  /\ \A x : x \in In(t) <=> \E i \in I : x = s[i]
LEMMA EntriesTaken ==
  ASSUME NEW V, NEW s \in Seq(V), NEW I \in SUBSET (1..Len(s))
  PROVE  Takes(V, s, I, Entries(s, I)) /\ IsFiniteSet(I) /\ I \in SUBSET Int /\ Cardinality(I) \in Nat
<1> DEFINE N == Len(s)
           K == Cardinality(I)
           t == Entries(s, I)
<1>1. N \in Nat /\ DOMAIN s = 1..N /\ s \in [1..N -> V]
  OBVIOUS
<1>2. I \in SUBSET (1..N)
  OBVIOUS
<1> HIDE DEF N
<1>3. IsFiniteSet(I) /\ I \in SUBSET Int
  BY <1>1, <1>2, PlacesOf
<1>4. K \in Nat
  BY <1>3, FS_CardinalityType
<1>5. /\ DOMAIN t = 1..K
      /\ \A n \in 1..K : InTurn(I)[n] \in I /\ t[n] = s[InTurn(I)[n]]
      /\ \A i \in I : \E n \in 1..K : InTurn(I)[n] = i /\ t[n] = s[i]
  BY <1>3, EntriesOf
<1>6. t = [n \in 1..K |-> s[InTurn(I)[n]]]
  BY DEF Entries
<1> HIDE DEF K, t
<1>7. \A n \in 1..K : s[InTurn(I)[n]] \in V
  BY <1>1, <1>2, <1>5
<1>8. t \in [1..K -> V]
  BY <1>6, <1>7
<1>9. t \in Seq(V) /\ Len(t) = K
  BY <1>4, <1>8
<1>10. \A x : x \in In(t) <=> \E i \in I : x = s[i]
  <2>1. \A x : x \in In(t) <=> \E n \in 1..K : x = t[n]
    BY <1>5 DEF In
  <2> QED BY <1>5, <2>1
<1> QED BY <1>3, <1>4, <1>5, <1>9, <1>10 DEF Takes, K, t

PickedIn(T, x, p) ==
  p \in Seq(CandidateSet(T)) /\ Unrepeated(p) /\ \A c \in In(p) : c.at = x.at
LEMMA PickedIs ==
  ASSUME NEW T, NEW x, SampleOf(T, x)
  PROVE  PickedIn(T, x, PickedOf(x))
<1> DEFINE M == [entity : T.entity, sentence : T.sentence]
           ms == x.mentions
           I == Picked(ms)
           m == Entries(ms, I)
           p == PickedOf(x)
           K == Cardinality(I)
<1>1. ms \in Seq(M) /\ x.at \in T.at /\ x.engine \in T.engine
  BY DEF SampleOf
<1>2. I \in SUBSET (1..Len(ms)) /\ I \in SUBSET New(ms) /\ DOMAIN ms = 1..Len(ms)
  BY <1>1 DEF Picked, New
<1>3. p = [n \in DOMAIN m |-> [at |-> x.at, engine |-> x.engine, entity |-> m[n].entity, sentence |-> m[n].sentence]]
  BY DEF PickedOf
<1> HIDE DEF ms, I, p, M
<1>4. Takes(M, ms, I, m) /\ IsFiniteSet(I) /\ I \in SUBSET Int /\ K \in Nat
  BY <1>1, <1>2, EntriesTaken
<1>5. m \in [1..K -> M] /\ DOMAIN m = 1..K
  BY <1>4 DEF Takes
<1>6. \A n \in 1..K : InTurn(I)[n] \in I /\ m[n] = ms[InTurn(I)[n]]
  BY <1>4, EntriesOf
<1>7. \A a, b \in 1..K : a < b <=> InTurn(I)[a] < InTurn(I)[b]
  BY <1>4, InTurnUp
<1> HIDE DEF m, K
<1>8. \A n \in 1..K : p[n] = [at |-> x.at, engine |-> x.engine, entity |-> m[n].entity, sentence |-> m[n].sentence]
  BY <1>3, <1>5
<1>9. DOMAIN p = 1..K /\ \A n \in 1..K : p[n] \in CandidateSet(T) /\ p[n].at = x.at
  BY <1>1, <1>3, <1>5, <1>8 DEF CandidateSet, M
<1>10. p \in Seq(CandidateSet(T))
  BY <1>3, <1>4, <1>5, <1>9
<1>11. Unrepeated(p)
  <2> SUFFICES ASSUME NEW a \in 1..K, NEW b \in 1..K, p[a] = p[b] PROVE a = b
    BY <1>9 DEF Unrepeated
  <2>1. m[a].entity = m[b].entity /\ m[a].sentence = m[b].sentence
    <3>1. \A n \in 1..K : p[n].entity = m[n].entity /\ p[n].sentence = m[n].sentence
      <4> SUFFICES ASSUME NEW n \in 1..K PROVE p[n].entity = m[n].entity /\ p[n].sentence = m[n].sentence
        OBVIOUS
      <4>1. p[n] = [at |-> x.at, engine |-> x.engine, entity |-> m[n].entity, sentence |-> m[n].sentence]
        BY <1>8
      <4> QED BY <4>1
    <3> QED BY <3>1
  <2>2. m[a] = m[b]
    BY <1>5, <2>1 DEF M
  <2> DEFINE i == InTurn(I)[a]
             j == InTurn(I)[b]
  <2>3. i \in I /\ j \in I /\ ms[i] = ms[j] /\ i \in Int /\ j \in Int
    BY <1>4, <1>6, <2>2
  <2>4. ~ (i < j) /\ ~ (j < i)
    <3>1. i \in New(ms) /\ j \in New(ms)
      BY <1>2, <2>3
    <3>2. i \in 1..Len(ms) /\ j \in 1..Len(ms)
      BY <1>2, <2>3
    <3> HIDE DEF i, j
    <3>3. i < j => i \in 1..(j - 1)
      BY <2>3, <3>2
    <3>4. j < i => j \in 1..(i - 1)
      BY <2>3, <3>2
    <3>5. \A k \in New(ms) : \A l \in 1..(k - 1) : ms[l] # ms[k]
      BY DEF New
    <3> QED BY <2>3, <3>1, <3>3, <3>4, <3>5
  <2>5. ~ (a < b) /\ ~ (b < a)
    BY <1>7, <2>4
  <2> QED BY <1>4, <2>5
<1>12. \A c \in In(p) : c.at = x.at
  BY <1>9 DEF In
<1> QED BY <1>10, <1>11, <1>12 DEF PickedIn, p

\* No mention is picked twice, within a sample or in two.
LEMMA CandidatesAre ==
  ASSUME NEW T, NEW xs, SamplesOf(T, xs)
  PROVE  SelectCandidates(xs) \in Seq(CandidateSet(T)) /\ Unrepeated(SelectCandidates(xs))
<1> DEFINE N == Len(xs)
           D == 1..N
           C == CandidateSet(T)
           ps == [i \in D |-> PickedOf(xs[i])]
           f == SelectCandidates(xs)
           S == In(f)
           L == Lengths(ps)
<1>1. DOMAIN xs = D /\ N \in Nat /\ \A i \in D : SampleOf(T, xs[i])
  BY DEF SamplesOf
<1>2. \A i, j \in D : xs[i].at = xs[j].at => i = j
  BY <1>1 DEF SamplesOf
<1>3. f = FlattenSeq(ps)
  BY <1>1 DEF SelectCandidates
<1> HIDE DEF N, f, C
<1>4. \A i \in D : ps[i] \in Seq(C) /\ Unrepeated(ps[i]) /\ \A c \in In(ps[i]) : c.at = xs[i].at
  <2> SUFFICES ASSUME NEW i \in D PROVE ps[i] \in Seq(C) /\ Unrepeated(ps[i]) /\ \A c \in In(ps[i]) : c.at = xs[i].at
    OBVIOUS
  <2> DEFINE x == xs[i]
  <2>1. SampleOf(T, x)
    BY <1>1
  <2> HIDE DEF x
  <2>2. PickedIn(T, x, PickedOf(x))
    BY <2>1, PickedIs
  <2> QED BY <2>2 DEF PickedIn, x, C
<1>5. DOMAIN ps = D /\ ps \in Seq(Seq(C))
  <2>1. ps \in [1..N -> Seq(C)]
    BY <1>4
  <2> HIDE DEF ps
  <2> QED BY <1>1, <2>1
<1> HIDE DEF ps
<1>6. FlatOf(C, ps, D, f)
  BY <1>3, <1>5, FlatIs
<1>7. f \in Seq(C) /\ Len(f) = SumFunctionOnSet(L, D) /\ \A x : x \in S <=> \E i \in D : x \in In(ps[i])
  BY <1>6 DEF FlatOf
<1>8. Counted(f)
  BY <1>7, Counts
<1>9. IsFiniteSet(S) /\ (Cardinality(S) = Len(f) <=> Unrepeated(f))
  BY <1>8 DEF Counted
<1> DEFINE key == [c \in S |-> CHOOSE i \in D : c \in In(ps[i])]
           one == [c \in S |-> 1]
<1>10. IsFiniteSet(D)
  BY <1>1, FS_Interval
<1>11. \A c \in S : key[c] \in D /\ c \in In(ps[key[c]])
  <2> SUFFICES ASSUME NEW c \in S PROVE key[c] \in D /\ c \in In(ps[key[c]])
    OBVIOUS
  <2>1. \E i \in D : c \in In(ps[i])
    BY <1>7
  <2> QED BY <2>1
<1>12. ASSUME NEW i \in D PROVE Group(S, key, i) = In(ps[i])
  <2>1. \A c \in S : key[c] = i => c \in In(ps[i])
    BY <1>11
  <2>2. \A c \in In(ps[i]) : c \in S
    BY <1>7
  <2>3. \A c \in In(ps[i]) : key[c] = i
    <3> SUFFICES ASSUME NEW c \in In(ps[i]) PROVE key[c] = i
      OBVIOUS
    <3>1. key[c] \in D /\ c \in In(ps[key[c]])
      BY <1>11, <2>2
    <3> HIDE DEF key
    <3>2. c.at = xs[i].at /\ c.at = xs[key[c]].at
      BY <1>4, <3>1
    <3> QED BY <1>2, <3>1, <3>2
  <2> HIDE DEF key, S
  <2> QED BY <2>1, <2>2, <2>3 DEF Group
<1>13. key \in [S -> D] /\ one \in [S -> Int] /\ \A c \in S : one[c] = 1
  BY <1>11
<1> DEFINE g == [i \in D |-> SumFunctionOnSet(one, Group(S, key, i))]
<1>14. SumFunctionOnSet(g, D) = SumFunctionOnSet(one, S)
  <2> HIDE DEF D, S, key, one
  <2> QED BY <1>9, <1>10, <1>13, SumGroups
<1>15. SumFunctionOnSet(one, S) = Cardinality(S)
  <2>1. S \in SUBSET S
    OBVIOUS
  <2> HIDE DEF S, key, one
  <2> QED BY <1>9, <1>13, <2>1, SumOnes
<1>16. g = L
  <2>1. \A i \in D : SumFunctionOnSet(one, Group(S, key, i)) = Len(ps[i])
    <3> SUFFICES ASSUME NEW i \in D PROVE SumFunctionOnSet(one, Group(S, key, i)) = Len(ps[i])
      OBVIOUS
    <3> DEFINE G == In(ps[i])
    <3>1. Group(S, key, i) = G /\ G \in SUBSET S
      BY <1>7, <1>12
    <3>2. Counted(ps[i]) /\ Unrepeated(ps[i])
      BY <1>4, Counts
    <3>3. Cardinality(G) = Len(ps[i])
      BY <3>2 DEF Counted
    <3> HIDE DEF G, S, key, one
    <3>4. SumFunctionOnSet(one, G) = Cardinality(G)
      BY <1>9, <1>13, <3>1, SumOnes
    <3> QED BY <3>1, <3>3, <3>4
  <2>2. L = [i \in D |-> Len(ps[i])]
    BY <1>5 DEF Lengths
  <2> HIDE DEF L, one, key, S, D
  <2> QED BY <2>1, <2>2
<1> HIDE DEF g, L, S, key, one
<1>17. Cardinality(S) = Len(f)
  BY <1>7, <1>14, <1>15, <1>16
<1> QED BY <1>7, <1>9, <1>17 DEF f, C

\* A list in two.
Halved(V, s, p, q) == p \in Seq(V) /\ q \in Seq(V) /\ Joins(V, p, q, s)
LEMMA CutInTwo ==
  ASSUME NEW V, NEW s \in Seq(V), NEW n \in Nat
  PROVE  Halved(V, s, Firstly(s, n), Without(s, n))
<1> DEFINE L == Len(s)
           a == Fewer(n, L)
           p == Firstly(s, n)
           q == Without(s, n)
<1>1. L \in Nat /\ DOMAIN s = 1..L
  OBVIOUS
<1>2. p = SubSeq(s, 1, a) /\ q = SubSeq(s, a + 1, L)
  BY DEF Firstly, Without
<1>3. a \in Nat /\ a <= L
  BY <1>1 DEF Fewer
<1> HIDE DEF a, p, q
<1>4. Sliced(V, s, 1, a, p)
  BY <1>1, <1>2, <1>3, Slices
<1>5. Sliced(V, s, a + 1, L, q)
  <2>1. a + 1 \in Nat /\ a + 1 > 0 /\ a + 1 <= L + 1 /\ L <= Len(s)
    BY <1>1, <1>3
  <2> HIDE DEF L
  <2> QED BY <1>1, <1>2, <2>1, Slices
<1>6. /\ p \in Seq(V) /\ Len(p) = a - 1 + 1 /\ DOMAIN p = 1..(a - 1 + 1) /\ \A i \in 1..(a - 1 + 1) : p[i] = s[1 + i - 1]
      /\ q \in Seq(V) /\ Len(q) = L - (a + 1) + 1 /\ DOMAIN q = 1..(L - (a + 1) + 1)
      /\ \A i \in 1..(L - (a + 1) + 1) : q[i] = s[a + 1 + i - 1]
  BY <1>4, <1>5 DEF Sliced
<1> HIDE DEF L
<1>7. a - 1 + 1 = a /\ L - (a + 1) + 1 = L - a /\ L - a \in Nat /\ \A i \in 1..a : 1 + i - 1 = i /\ i \in 1..L
  BY <1>1, <1>3
<1>8. \A i \in 1..(L - a) : a + 1 + i - 1 = a + i /\ a + i \in 1..L
  BY <1>1, <1>3
<1>9. /\ DOMAIN p = 1..a /\ DOMAIN q = 1..(L - a) /\ Len(p) = a /\ Len(q) = L - a
      /\ \A i \in 1..a : p[i] = s[i]
      /\ \A i \in 1..(L - a) : q[i] = s[a + i]
  BY <1>6, <1>7, <1>8
<1>10. ASSUME NEW x, x \in In(s) PROVE x \in In(p) \/ x \in In(q)
  <2>1. PICK i \in 1..L : x = s[i]
    BY <1>1, <1>10 DEF In
  <2>2. i \in 1..a \/ (i - a \in 1..(L - a) /\ a + (i - a) = i)
    BY <1>1, <1>3
  <2> QED BY <1>9, <2>1, <2>2 DEF In
<1>11. ASSUME NEW x, x \in In(p) PROVE x \in In(s)
  BY <1>1, <1>7, <1>9, <1>11 DEF In
<1>12. ASSUME NEW x, x \in In(q) PROVE x \in In(s)
  <2>1. PICK i \in 1..(L - a) : x = q[i]
    BY <1>9, <1>12 DEF In
  <2> QED BY <1>1, <1>8, <1>9, <2>1 DEF In
<1>13. Len(s) = Len(p) + Len(q)
  BY <1>1, <1>3, <1>9 DEF L
<1>14. Joins(V, p, q, s)
  BY <1>10, <1>11, <1>12, <1>13 DEF Joins
<1> QED BY <1>6, <1>14 DEF Halved, p, q

LEMMA SortedOut ==
  ASSUME NEW V, NEW s \in Seq(V), NEW I \in SUBSET (1..Len(s)), NEW J, J = (1..Len(s)) \ I
  PROVE  Halved(V, s, Entries(s, I), Entries(s, J))
<1> DEFINE N == Len(s)
           p == Entries(s, I)
           q == Entries(s, J)
<1>1. N \in Nat /\ DOMAIN s = 1..N /\ J \in SUBSET (1..N) /\ J = (1..N) \ I /\ I \in SUBSET (1..N)
  OBVIOUS
<1>2. Takes(V, s, I, p) /\ Takes(V, s, J, q) /\ Cardinality(I) \in Nat
  BY EntriesTaken
<1> HIDE DEF p, q, N
<1>3. Cardinality(I) + Cardinality(J) = N
  <2>1. IsFiniteSet(1..N) /\ Cardinality(1..N) = N
    BY <1>1, FS_Interval
  <2>2. (1..N) \cap I = I
    BY <1>1
  <2>3. Cardinality((1..N) \ I) = Cardinality(1..N) - Cardinality((1..N) \cap I)
    <3> DEFINE D == 1..N
    <3>1. IsFiniteSet(D)
      BY <2>1
    <3> HIDE DEF D
    <3>2. Cardinality(D \ I) = Cardinality(D) - Cardinality(D \cap I)
      BY <3>1, FS_Difference
    <3> QED BY <3>2 DEF D
  <2>4. Cardinality(J) = Cardinality((1..N) \ I)
    BY <1>1
  <2>5. Cardinality(J) = N - Cardinality(I)
    BY <2>1, <2>2, <2>3, <2>4
  <2> QED BY <1>1, <1>2, <2>5
<1>4. Len(s) = Len(p) + Len(q)
  BY <1>2, <1>3 DEF Takes, N
<1>5. \A x : x \in In(s) <=> \E i \in 1..N : x = s[i]
  BY <1>1 DEF In
<1>6. \A x : x \in In(s) <=> x \in In(p) \/ x \in In(q)
  BY <1>1, <1>2, <1>5 DEF Takes
<1>7. Joins(V, p, q, s)
  BY <1>4, <1>6 DEF Joins
<1> QED BY <1>2, <1>7 DEF Halved, Takes, p, q

\* The engines of a list, each once; and what each of them was asked.
FirstOfEngine(s) == {i \in DOMAIN s : \A j \in 1..(i - 1) : s[j].engine # s[i].engine}
EachEngine(s, e) ==
  /\ Len(e) \in Nat /\ DOMAIN e = 1..Len(e)
  /\ \A i \in DOMAIN s : \E n \in DOMAIN e : s[i].engine = e[n]
  /\ Unrepeated(e)
LEMMA EnginesAre ==
  ASSUME NEW V, NEW s \in Seq(V)
  PROVE  EachEngine(s, EnginesOf(s))
<1> DEFINE N == Len(s)
           I == FirstOfEngine(s)
           K == Cardinality(I)
           m == Entries(s, I)
           e == EnginesOf(s)
<1>1. N \in Nat /\ DOMAIN s = 1..N /\ I \in SUBSET (1..Len(s))
  BY DEF FirstOfEngine
<1>2. e = [n \in DOMAIN m |-> m[n].engine]
  BY DEF EnginesOf, FirstOfEngine
<1>3. Takes(V, s, I, m) /\ IsFiniteSet(I) /\ I \in SUBSET Int /\ K \in Nat
  <2> HIDE DEF I
  <2> QED BY <1>1, EntriesTaken
<1>4. /\ DOMAIN m = 1..K
      /\ \A n \in 1..K : InTurn(I)[n] \in I /\ m[n] = s[InTurn(I)[n]]
      /\ \A i \in I : \E n \in 1..K : InTurn(I)[n] = i /\ m[n] = s[i]
  <2> HIDE DEF I
  <2> QED BY <1>3, EntriesOf
<1>5. \A a, b \in 1..K : a < b <=> InTurn(I)[a] < InTurn(I)[b]
  <2> HIDE DEF I
  <2> QED BY <1>3, InTurnUp
<1> HIDE DEF N, I, K, m, e
<1>6. DOMAIN e = 1..K /\ Len(e) = K /\ \A n \in 1..K : e[n] = m[n].engine
  <2>1. DOMAIN e = 1..K /\ \A n \in 1..K : e[n] = m[n].engine
    BY <1>2, <1>4
  <2>2. e \in [1..K -> {m[n].engine : n \in 1..K}]
    BY <1>2, <1>4
  <2>3. Len(e) = K
    BY <1>3, <2>2
  <2> QED BY <2>1, <2>3
<1>7. ASSUME NEW i \in 1..N PROVE \E n \in 1..K : s[i].engine = e[n]
  <2> DEFINE B == {j \in 1..N : s[j].engine = s[i].engine}
  <2>1. B \in SUBSET Nat /\ i \in B
    BY <1>1
  <2>2. PICK j \in B : \A k \in B : j <= k
    <3> HIDE DEF B
    <3> QED BY <2>1, LeastOf
  <2>3. j \in 1..N /\ s[j].engine = s[i].engine
    BY <2>2
  <2>4. \A k \in 1..(j - 1) : k \in 1..N /\ k < j
    BY <1>1, <2>3
  <2>5. \A k \in 1..(j - 1) : s[k].engine # s[j].engine
    <3> SUFFICES ASSUME NEW k \in 1..(j - 1), s[k].engine = s[j].engine PROVE FALSE
      OBVIOUS
    <3>1. k \in 1..N /\ k < j
      BY <2>4
    <3>2. k \in B
      BY <2>3, <3>1
    <3>3. j <= k /\ j \in Nat /\ k \in Nat
      <4> HIDE DEF B
      <4> QED BY <2>1, <2>2, <3>2
    <3> QED BY <3>1, <3>3
  <2>6. j \in I
    BY <1>1, <2>3, <2>5 DEF I, FirstOfEngine
  <2>7. PICK n \in 1..K : m[n] = s[j]
    BY <1>4, <2>6
  <2> QED BY <1>6, <2>3, <2>7
<1>8. ASSUME NEW a \in 1..K, NEW b \in 1..K, e[a] = e[b] PROVE a = b
  <2> DEFINE i == InTurn(I)[a]
             j == InTurn(I)[b]
  <2>1. i \in I /\ j \in I /\ s[i].engine = s[j].engine /\ i \in Int /\ j \in Int
    <3>1. i \in I /\ m[a] = s[i] /\ j \in I /\ m[b] = s[j]
      BY <1>4
    <3>2. e[a] = m[a].engine /\ e[b] = m[b].engine
      BY <1>6
    <3> HIDE DEF i, j
    <3> QED BY <1>3, <1>8, <3>1, <3>2
  <2>2. ~ (i < j) /\ ~ (j < i)
    <3> HIDE DEF i, j
    <3>1. \A k \in I : k \in 1..N /\ \A l \in 1..(k - 1) : s[l].engine # s[k].engine
      BY <1>1 DEF I, FirstOfEngine
    <3>2. i \in 1..N /\ j \in 1..N
      BY <2>1, <3>1
    <3>3. i < j => i \in 1..(j - 1)
      BY <2>1, <3>2
    <3>4. j < i => j \in 1..(i - 1)
      BY <2>1, <3>2
    <3> QED BY <2>1, <3>1, <3>3, <3>4
  <2>3. ~ (a < b) /\ ~ (b < a)
    BY <1>5, <2>2
  <2> QED BY <1>3, <2>3
<1>9. Unrepeated(e)
  BY <1>6, <1>8 DEF Unrepeated
<1> QED BY <1>1, <1>3, <1>6, <1>7, <1>9 DEF EachEngine, e

LengthOf(V) == [l \in Seq(V) |-> Len(l)]
LEMMA LengthsWeigh ==
  ASSUME NEW V, NEW c \in Seq(Seq(V))
  PROVE  Weight(LengthOf(V), c) = SumFunctionOnSet(Lengths(c), DOMAIN c)
<1>1. \A i \in DOMAIN c : LengthOf(V)[c[i]] = Len(c[i])
  BY DEF LengthOf
<1>2. [i \in DOMAIN c |-> LengthOf(V)[c[i]]] = Lengths(c)
  BY <1>1 DEF Lengths
<1> QED BY <1>2 DEF Weight

\* Every candidate to ask is in one batch.
LEMMA BatchesHold ==
  ASSUME BatchSize \in Nat \ {0}, NEW V, NEW s \in Seq(V)
  PROVE  Batches(s) \in Seq(Seq(V)) /\ FlatOf(V, Batches(s), DOMAIN Batches(s), s)
<1> DEFINE N == Len(s)
           D == 1..N
           e == EnginesOf(s)
           E == 1..Len(e)
           At(n) == {i \in D : s[i].engine = e[n]}
           g == [n \in E |-> Entries(s, At(n))]
           cs == [n \in E |-> Chunks(g[n])]
           b == Batches(s)
           w == LengthOf(V)
<1>1. N \in Nat /\ DOMAIN s = D /\ s \in [D -> V]
  OBVIOUS
<1>2. EachEngine(s, e)
  BY EnginesAre
<1> HIDE DEF e
<1>3. Len(e) \in Nat /\ DOMAIN e = E /\ (\A i \in D : \E n \in E : s[i].engine = e[n]) /\ \A m, n \in E : e[m] = e[n] => m = n
  BY <1>1, <1>2 DEF EachEngine, Unrepeated
<1>4. b = FlattenSeq(cs)
  <2>1. \A n \in DOMAIN e : Those(s, LAMBDA c : c.engine = e[n]) = g[n]
    BY <1>1, <1>3 DEF Those
  <2>2. b = FlattenSeq([n \in DOMAIN e |-> Chunks(Those(s, LAMBDA c : c.engine = e[n]))])
    BY DEF Batches, e
  <2>3. [n \in DOMAIN e |-> Chunks(Those(s, LAMBDA c : c.engine = e[n]))] = cs
    BY <1>3, <2>1
  <2> HIDE DEF cs, b
  <2> QED BY <2>2, <2>3
<1> HIDE DEF b
<1>5. \A n \in E : Takes(V, s, At(n), g[n])
  <2> SUFFICES ASSUME NEW n \in E PROVE Takes(V, s, At(n), g[n])
    OBVIOUS
  <2> DEFINE I == At(n)
  <2>1. I \in SUBSET (1..Len(s)) /\ g[n] = Entries(s, I)
    OBVIOUS
  <2> HIDE DEF I, g
  <2>2. Takes(V, s, I, g[n])
    BY <2>1, EntriesTaken
  <2> QED BY <2>2 DEF I
<1>6. \A n \in E : g[n] \in Seq(V) /\ Len(g[n]) = Cardinality(At(n)) /\ \A x : x \in In(g[n]) <=> \E i \in At(n) : x = s[i]
  <2> HIDE DEF g, At
  <2> QED BY <1>5 DEF Takes
<1>7. \A n \in E : cs[n] \in Seq(Seq(V)) /\ FlatOf(V, cs[n], DOMAIN cs[n], g[n])
  <2> SUFFICES ASSUME NEW n \in E PROVE cs[n] \in Seq(Seq(V)) /\ FlatOf(V, cs[n], DOMAIN cs[n], g[n])
    OBVIOUS
  <2> DEFINE h == g[n]
  <2>1. cs[n] = Chunks(h)
    OBVIOUS
  <2> HIDE DEF g, cs
  <2>2. h \in Seq(V)
    BY <1>6
  <2> HIDE DEF h
  <2>3. InChunks(V, h, Chunks(h))
    BY <2>2, ChunksHold
  <2>4. InChunks(V, h, cs[n])
    BY <2>1, <2>3
  <2> QED BY <2>4 DEF InChunks, h
<1>8. cs \in Seq(Seq(Seq(V))) /\ DOMAIN cs = E
  <2>1. cs \in [1..Len(e) -> Seq(Seq(V))] /\ DOMAIN cs = E
    BY <1>7
  <2> HIDE DEF cs
  <2> QED BY <1>3, <2>1
<1>9. b \in Seq(Seq(V)) /\ \A x : x \in In(b) <=> \E n \in E : x \in In(cs[n])
  <2>1. FlatOf(Seq(V), cs, E, b)
    <3> HIDE DEF cs, E
    <3> QED BY <1>4, <1>8, FlatIs
  <2> HIDE DEF cs
  <2> QED BY <2>1 DEF FlatOf
<1>10. Weight(w, b) = SumFunctionOnSet([n \in E |-> Weight(w, cs[n])], E)
  <2>1. w \in [Seq(V) -> Int]
    <3>1. \A l \in Seq(V) : Len(l) \in Int
      OBVIOUS
    <3> QED BY <3>1 DEF LengthOf
  <2> HIDE DEF cs, E, w
  <2> QED BY <1>4, <1>8, <2>1, FlatWeighs
<1>11. [n \in E |-> Weight(w, cs[n])] = [n \in E |-> Cardinality(At(n))]
  <2>1. \A n \in E : Weight(w, cs[n]) = Cardinality(At(n))
    <3> SUFFICES ASSUME NEW n \in E PROVE Weight(w, cs[n]) = Cardinality(At(n))
      OBVIOUS
    <3> HIDE DEF cs, g, At
    <3>1. Weight(w, cs[n]) = SumFunctionOnSet(Lengths(cs[n]), DOMAIN cs[n])
      BY <1>7, LengthsWeigh
    <3> QED BY <1>6, <1>7, <3>1 DEF FlatOf
  <2> HIDE DEF cs, At, w
  <2> QED BY <2>1
<1> DEFINE one == [i \in D |-> 1]
           key == [i \in D |-> CHOOSE n \in E : s[i].engine = e[n]]
<1>12. IsFiniteSet(D) /\ Cardinality(D) = N /\ IsFiniteSet(E) /\ D \in SUBSET D
  <2> DEFINE l == Len(e)
  <2>1. l \in Int /\ N \in Int
    BY <1>1, <1>3
  <2> HIDE DEF l, N
  <2>2. IsFiniteSet(1..N) /\ Cardinality(1..N) = (IF 1 > N THEN 0 ELSE N - 1 + 1) /\ IsFiniteSet(1..l)
    BY <2>1, FS_Interval
  <2> QED BY <1>1, <2>2 DEF l
<1>13. \A i \in D : key[i] \in E /\ s[i].engine = e[key[i]]
  BY <1>3
<1>14. one \in [D -> Int] /\ key \in [D -> E] /\ \A i \in D : one[i] = 1
  BY <1>13
<1>15. \A n \in E : Group(D, key, n) = At(n)
  <2> SUFFICES ASSUME NEW n \in E PROVE Group(D, key, n) = At(n)
    OBVIOUS
  <2>1. \A i \in D : key[i] = n <=> s[i].engine = e[n]
    <3> HIDE DEF key, E, D
    <3> QED BY <1>3, <1>13
  <2> HIDE DEF key
  <2> QED BY <2>1 DEF Group
<1>16. [n \in E |-> SumFunctionOnSet(one, Group(D, key, n))] = [n \in E |-> Cardinality(At(n))]
  <2>1. \A n \in E : SumFunctionOnSet(one, Group(D, key, n)) = Cardinality(At(n))
    <3> SUFFICES ASSUME NEW n \in E PROVE SumFunctionOnSet(one, Group(D, key, n)) = Cardinality(At(n))
      OBVIOUS
    <3> DEFINE G == At(n)
    <3>1. Group(D, key, n) = G /\ G \in SUBSET D
      BY <1>15
    <3> HIDE DEF G, D, one, key
    <3>2. SumFunctionOnSet(one, G) = Cardinality(G)
      BY <1>12, <1>14, <3>1, SumOnes
    <3> QED BY <3>1, <3>2 DEF G
  <2> HIDE DEF one, key, At
  <2> QED BY <2>1
<1>17. SumFunctionOnSet([n \in E |-> SumFunctionOnSet(one, Group(D, key, n))], E) = SumFunctionOnSet(one, D)
  <2> HIDE DEF one, key, D, E
  <2> QED BY <1>12, <1>14, SumGroups
<1>18. SumFunctionOnSet(one, D) = N
  <2> HIDE DEF one, D
  <2> QED BY <1>12, <1>14, SumOnes
<1>19. SumFunctionOnSet(Lengths(b), DOMAIN b) = N
  <2>1. Weight(w, b) = SumFunctionOnSet(Lengths(b), DOMAIN b)
    BY <1>9, LengthsWeigh
  <2> HIDE DEF w, cs, At, one, key, E, N, D
  <2> QED BY <1>10, <1>11, <1>16, <1>17, <1>18, <2>1
<1>20. ASSUME NEW x, x \in In(s) PROVE \E k \in DOMAIN b : x \in In(b[k])
  <2>1. PICK i \in D : x = s[i]
    BY <1>1, <1>20 DEF In
  <2>2. PICK n \in E : s[i].engine = e[n]
    BY <1>3
  <2>3. x \in In(g[n])
    <3>1. i \in At(n)
      BY <2>2
    <3> HIDE DEF At, g
    <3> QED BY <1>6, <2>1, <3>1
  <2> HIDE DEF cs, g, At, E
  <2>4. PICK k \in DOMAIN cs[n] : x \in In(cs[n][k])
    BY <1>7, <2>3 DEF FlatOf
  <2>5. cs[n][k] \in In(b)
    BY <1>9, <2>4 DEF In
  <2> QED BY <2>4, <2>5 DEF In
<1>21. ASSUME NEW k \in DOMAIN b, NEW x \in In(b[k]) PROVE x \in In(s)
  <2>1. b[k] \in In(b)
    BY DEF In
  <2>2. PICK n \in E : b[k] \in In(cs[n])
    BY <1>9, <2>1
  <2> HIDE DEF cs
  <2>3. PICK l \in DOMAIN cs[n] : b[k] = cs[n][l]
    BY <2>2 DEF In
  <2> HIDE DEF g, E
  <2>4. x \in In(g[n])
    BY <1>7, <2>3 DEF FlatOf
  <2>5. PICK i \in At(n) : x = s[i]
    <3> HIDE DEF At
    <3> QED BY <1>6, <2>4
  <2> QED BY <1>1, <2>5 DEF In
<1>22. FlatOf(V, b, DOMAIN b, s)
  BY <1>19, <1>20, <1>21 DEF FlatOf
<1> QED BY <1>9, <1>22 DEF b

\* The first item with an id is the judge's verdict on the sentence of that id.
ReplySays(T, reply, batch, truth) ==
  /\ reply.model \in T.model /\ Len(reply.items) \in Nat /\ DOMAIN reply.items = 1..Len(reply.items)
  /\ \A i \in DOMAIN batch, k \in DOMAIN reply.items :
       /\ reply.items[k].id = i /\ \A l \in 1..(k - 1) : reply.items[l].id # i
       /\ reply.items[k].polarity \in Polarities
       => reply.items[k].polarity = truth[batch[i]]
\* A row for each candidate, and the verdict of its own.
Tells(T, rows, s, truth) ==
  /\ rows \in Seq(RowsOf(T)) /\ Len(rows) = Len(s)
  /\ \A x : (\E r \in In(rows) : r.of = x) <=> x \in In(s)
  /\ \A r \in In(rows) : r.status = "ok" => r.polarity = truth[r.of]
Told(T, r, c, truth) == r \in RowsOf(T) /\ r.of = c /\ (r.status = "ok" => r.polarity = truth[c])
RowsInTurn(T, rows, s, truth) == rows = [i \in DOMAIN s |-> rows[i]] /\ \A i \in DOMAIN s : Told(T, rows[i], s[i], truth)
LEMMA TellsEach ==
  ASSUME NEW T, NEW truth, NEW s \in Seq(CandidateSet(T)), NEW rows, RowsInTurn(T, rows, s, truth)
  PROVE  Tells(T, rows, s, truth)
<1> DEFINE N == Len(s)
<1>1. N \in Nat /\ DOMAIN s = 1..N
  OBVIOUS
<1> HIDE DEF N
<1>2. rows = [i \in 1..N |-> rows[i]] /\ \A i \in 1..N : rows[i] \in RowsOf(T) /\ rows[i].of = s[i] /\ (rows[i].status = "ok" => rows[i].polarity = truth[s[i]])
  BY <1>1 DEF RowsInTurn, Told
<1>3. rows \in [1..N -> RowsOf(T)]
  BY <1>2
<1>4. rows \in Seq(RowsOf(T)) /\ Len(rows) = N /\ DOMAIN rows = 1..N
  BY <1>1, <1>3
<1>5. \A x : (\E r \in In(rows) : r.of = x) <=> x \in In(s)
  BY <1>1, <1>2, <1>4 DEF In
<1>6. \A r \in In(rows) : r.status = "ok" => r.polarity = truth[r.of]
  BY <1>2, <1>4 DEF In
<1> QED BY <1>4, <1>5, <1>6 DEF Tells, N

LEMMA TellsJoined ==
  ASSUME NEW T, NEW truth, NEW V, NEW p, NEW q, NEW s, Joins(V, p, q, s), NEW a, NEW b, Tells(T, a, p, truth), Tells(T, b, q, truth)
  PROVE  Tells(T, a \o b, s, truth)
<1>1. Joins(RowsOf(T), a, b, a \o b)
  BY Appended DEF Tells
<1> DEFINE r == a \o b
<1>2. Joins(RowsOf(T), a, b, r)
  BY <1>1
<1> HIDE DEF r
<1>3. r \in Seq(RowsOf(T)) /\ Len(r) = Len(s)
  BY <1>2 DEF Joins, Tells
<1>4. \A x : (\E y \in In(r) : y.of = x) <=> x \in In(s)
  <2>1. \A y : y \in In(r) <=> y \in In(a) \/ y \in In(b)
    BY <1>2 DEF Joins
  <2>2. \A x : x \in In(s) <=> x \in In(p) \/ x \in In(q)
    BY DEF Joins
  <2>3. \A x : ((\E y \in In(a) : y.of = x) <=> x \in In(p)) /\ ((\E y \in In(b) : y.of = x) <=> x \in In(q))
    BY DEF Tells
  <2> QED BY <2>1, <2>2, <2>3
<1>5. \A y \in In(r) : y.status = "ok" => y.polarity = truth[y.of]
  BY <1>2 DEF Joins, Tells
<1> QED BY <1>3, <1>4, <1>5 DEF Tells, r

TellsOfEach(T, rs, b, truth) == DOMAIN rs = DOMAIN b /\ \A n \in DOMAIN b : Tells(T, rs[n], b[n], truth)
LEMMA TellsFlat ==
  ASSUME NEW T, NEW truth, NEW V, NEW b \in Seq(Seq(V)), NEW s, FlatOf(V, b, DOMAIN b, s),
         NEW rs, rs = [n \in DOMAIN b |-> rs[n]], TellsOfEach(T, rs, b, truth)
  PROVE  Tells(T, FlattenSeq(rs), s, truth)
<1> DEFINE D == DOMAIN b
           f == FlattenSeq(rs)
           R == RowsOf(T)
<1>1. D = 1..Len(b) /\ Len(b) \in Nat
  OBVIOUS
<1>2. \A n \in D : Tells(T, rs[n], b[n], truth)
  BY DEF TellsOfEach
<1>3. rs \in Seq(Seq(R)) /\ DOMAIN rs = D
  <2>1. \A n \in D : rs[n] \in Seq(R)
    BY <1>2 DEF Tells
  <2> HIDE DEF R, D
  <2>2. rs \in [D -> Seq(R)]
    BY <2>1 DEF D
  <2>3. rs \in [1..Len(b) -> Seq(R)]
    BY <1>1, <2>2
  <2>4. rs \in Seq(Seq(R))
    BY <1>1, <2>3
  <2> QED BY <2>2, <2>4
<1>4. FlatOf(R, rs, D, f)
  <2> HIDE DEF R, D
  <2> QED BY <1>3, FlatIs
<1>5. Lengths(rs) = Lengths(b)
  <2>1. \A n \in D : Len(rs[n]) = Len(b[n])
    BY <1>2 DEF Tells
  <2> HIDE DEF D
  <2>2. Lengths(rs) = [n \in D |-> Len(rs[n])] /\ Lengths(b) = [n \in D |-> Len(b[n])]
    BY <1>3 DEF Lengths, D
  <2>3. [n \in D |-> Len(rs[n])] = [n \in D |-> Len(b[n])]
    BY <2>1
  <2> QED BY <2>2, <2>3
<1> HIDE DEF f, R, D
<1>6. f \in Seq(R) /\ Len(f) = Len(s)
  BY <1>4, <1>5 DEF FlatOf, D
<1>7. \A y : y \in In(f) <=> \E n \in D : y \in In(rs[n])
  BY <1>4 DEF FlatOf
<1>8. \A x : x \in In(s) <=> \E n \in D : x \in In(b[n])
  BY DEF FlatOf, D
<1>9. \A n \in D : \A x : (\E r \in In(rs[n]) : r.of = x) <=> x \in In(b[n])
  BY <1>2 DEF Tells
<1>10. ASSUME NEW x PROVE (\E r \in In(f) : r.of = x) <=> x \in In(s)
  <2>1. ASSUME NEW r \in In(f), r.of = x PROVE x \in In(s)
    <3>1. PICK n \in D : r \in In(rs[n])
      BY <1>7
    <3>2. x \in In(b[n])
      BY <1>9, <2>1, <3>1
    <3> QED BY <1>8, <3>2
  <2>2. ASSUME x \in In(s) PROVE \E r \in In(f) : r.of = x
    <3>1. PICK n \in D : x \in In(b[n])
      BY <1>8, <2>2
    <3>2. PICK r \in In(rs[n]) : r.of = x
      BY <1>9, <3>1
    <3> QED BY <1>7, <3>2
  <2> QED BY <2>1, <2>2
<1>11. \A r \in In(f) : r.status = "ok" => r.polarity = truth[r.of]
  BY <1>2, <1>7 DEF Tells
<1> QED BY <1>6, <1>10, <1>11 DEF Tells, f, R

\* What an id is taken to be said of.
LEMMA FirstItem ==
  ASSUME NEW reply, Len(reply.items) \in Nat, DOMAIN reply.items = 1..Len(reply.items), NEW i, ItemOf(reply, i) # <<>>
  PROVE  \E k \in DOMAIN reply.items : /\ ItemOf(reply, i)[1] = reply.items[k] /\ reply.items[k].id = i
                                       /\ \A l \in 1..(k - 1) : reply.items[l].id # i
<1> DEFINE s == reply.items
           N == Len(s)
           I == {k \in DOMAIN s : s[k].id = i}
           t == Entries(s, I)
           K == Cardinality(I)
<1>1. ItemOf(reply, i) = t
  BY DEF ItemOf, Those
<1>2. N \in Nat /\ DOMAIN s = 1..N
  OBVIOUS
<1>3. I \in SUBSET (1..N) /\ \A k : k \in I <=> k \in 1..N /\ s[k].id = i
  BY <1>2
<1> HIDE DEF s, N, I
<1>4. IsFiniteSet(I) /\ I \in SUBSET Int
  BY <1>2, <1>3, PlacesOf
<1>5. K \in Nat
  BY <1>4, FS_CardinalityType
<1>6. /\ DOMAIN t = 1..K
      /\ \A n \in 1..K : InTurn(I)[n] \in I /\ t[n] = s[InTurn(I)[n]]
      /\ \A k \in I : \E n \in 1..K : InTurn(I)[n] = k /\ t[n] = s[k]
  BY <1>4, EntriesOf
<1>7. \A a, b \in 1..K : a < b <=> InTurn(I)[a] < InTurn(I)[b]
  BY <1>4, InTurnUp
<1>8. t = [n \in 1..K |-> s[InTurn(I)[n]]]
  BY DEF Entries
<1> HIDE DEF K, t
<1>9. K # 0
  <2> SUFFICES ASSUME K = 0 PROVE FALSE
    OBVIOUS
  <2>1. 1..K = {}
    OBVIOUS
  <2>2. t = <<>>
    BY <1>8, <2>1
  <2> QED BY <1>1, <2>2
<1> DEFINE k == InTurn(I)[1]
<1>10. 1 \in 1..K
  BY <1>5, <1>9
<1>11. k \in I /\ t[1] = s[k] /\ k \in 1..N /\ s[k].id = i
  BY <1>3, <1>6, <1>10
<1>12. ASSUME NEW l \in 1..(k - 1) PROVE s[l].id # i
  <2> SUFFICES ASSUME s[l].id = i PROVE FALSE
    OBVIOUS
  <2>1. l \in 1..N /\ l < k
    <3> HIDE DEF k
    <3> QED BY <1>2, <1>11
  <2>2. l \in I
    BY <1>3, <2>1
  <2>3. PICK n \in 1..K : InTurn(I)[n] = l
    BY <1>6, <2>2
  <2>4. n < 1
    BY <1>7, <1>10, <2>1, <2>3
  <2> QED BY <1>5, <2>4
<1> QED BY <1>1, <1>2, <1>11, <1>12 DEF s

LEMMA BatchParsed ==
  ASSUME JudgeLimits, NEW T, NEW truth, NEW batch \in Seq(CandidateSet(T)), NEW reply, ReplySays(T, reply, batch, truth), NEW model \in T.model
  PROVE  Tells(T, ParseBatch(reply, batch, model), batch, truth)
<1> DEFINE rows == ParseBatch(reply, batch, model)
           D == DOMAIN batch
           m == IF reply.stop = "failure" THEN model ELSE reply.model
<1>1. "neutral" \in Polarities /\ reply.model \in T.model /\ m \in T.model
  BY DEF JudgeLimits, ReplySays
<1>2. \A i \in D : rows[i] =
        CASE reply.stop = "refusal" -> Row(batch[i], "refused", "neutral", reply.model)
          [] reply.stop = "end_turn" /\ ItemOf(reply, i) # <<>> /\ ItemOf(reply, i)[1].polarity \in Polarities ->
               Row(batch[i], "ok", ItemOf(reply, i)[1].polarity, reply.model)
          [] OTHER -> Row(batch[i], "unscored", "neutral", m)
  BY DEF ParseBatch
<1>3. rows = [i \in D |-> rows[i]]
  BY DEF ParseBatch
<1> HIDE DEF rows, m
<1>4. ASSUME NEW i \in D PROVE Told(T, rows[i], batch[i], truth)
  <2> DEFINE r == rows[i]
             c == batch[i]
             p == ItemOf(reply, i)[1].polarity
  <2>1. c \in CandidateSet(T)
    OBVIOUS
  <2>2. \/ r = Row(c, "refused", "neutral", reply.model)
        \/ ItemOf(reply, i) # <<>> /\ p \in Polarities /\ r = Row(c, "ok", p, reply.model)
        \/ r = Row(c, "unscored", "neutral", m)
    BY <1>2
  <2> HIDE DEF r, c
  <2>3. CASE r = Row(c, "refused", "neutral", reply.model)
    BY <1>1, <2>1, <2>3 DEF Told, RowsOf, Row, r, c
  <2>4. CASE r = Row(c, "unscored", "neutral", m)
    BY <1>1, <2>1, <2>4 DEF Told, RowsOf, Row, r, c
  <2>5. CASE ItemOf(reply, i) # <<>> /\ p \in Polarities /\ r = Row(c, "ok", p, reply.model)
    <3>1. Len(reply.items) \in Nat /\ DOMAIN reply.items = 1..Len(reply.items)
      BY DEF ReplySays
    <3>2. PICK k \in DOMAIN reply.items : /\ ItemOf(reply, i)[1] = reply.items[k] /\ reply.items[k].id = i
                                          /\ \A l \in 1..(k - 1) : reply.items[l].id # i
      BY <2>5, <3>1, FirstItem
    <3>3. p = reply.items[k].polarity
      BY <3>2
    <3> HIDE DEF p
    <3>4. p = truth[c]
      BY <2>5, <3>2, <3>3 DEF ReplySays, c
    <3> QED BY <1>1, <2>1, <2>5, <3>4 DEF Told, RowsOf, Row, r, c
  <2> QED BY <2>2, <2>3, <2>4, <2>5
<1>5. RowsInTurn(T, rows, batch, truth)
  BY <1>3, <1>4 DEF RowsInTurn
<1> QED BY <1>5, TellsEach DEF rows

\* What the store holds: one row for a candidate.
StoreOf(T, store) == store \in SUBSET RowsOf(T) /\ IsFiniteSet(store) /\ \A r, q \in store : r.of = q.of => r = q
\* The verdicts the store holds on the sentences at hand.
StoreSays(store, s, model, truth) == \A c \in In(s) : \A r \in Cached(store, c, model) : r.polarity = truth[c]

LEMMA Partitioned ==
  ASSUME NEW T, NEW rows \in Seq(RowsOf(T))
  PROVE  LET many(status) == Cardinality({i \in DOMAIN rows : rows[i].status = status}) IN
         many("ok") \in Nat /\ many("refused") \in Nat /\ many("unscored") \in Nat /\ many("ok") + many("refused") + many("unscored") = Len(rows)
<1> DEFINE N == Len(rows)
           D == 1..N
           O == {i \in DOMAIN rows : rows[i].status = "ok"}
           F == {i \in DOMAIN rows : rows[i].status = "refused"}
           U == {i \in DOMAIN rows : rows[i].status = "unscored"}
<1>1. N \in Nat /\ DOMAIN rows = D /\ \A i \in D : rows[i] \in RowsOf(T)
  OBVIOUS
<1>2. \A i \in D : rows[i].status \in {"ok", "refused", "unscored"}
  <2> SUFFICES ASSUME NEW i \in D PROVE rows[i].status \in {"ok", "refused", "unscored"}
    OBVIOUS
  <2>1. rows[i] \in RowsOf(T)
    BY <1>1
  <2> QED BY <2>1 DEF RowsOf
<1>3. IsFiniteSet(D) /\ Cardinality(D) = N
  <2> HIDE DEF N
  <2> QED BY <1>1, FS_Interval
<1>4. D = (O \cup F) \cup U /\ O \cap F = {} /\ (O \cup F) \cap U = {} /\ O \in SUBSET D /\ F \in SUBSET D /\ U \in SUBSET D
  BY <1>1, <1>2
<1> HIDE DEF O, F, U, D, N
<1>5. IsFiniteSet(O) /\ IsFiniteSet(F) /\ IsFiniteSet(U)
  BY <1>3, <1>4, FS_Subset
<1>6. Cardinality(O \cup F) = Cardinality(O) + Cardinality(F) /\ IsFiniteSet(O \cup F) /\ Cardinality(O) \in Nat /\ Cardinality(F) \in Nat /\ Cardinality(U) \in Nat
  <2>1. Cardinality(O) \in Nat /\ Cardinality(F) \in Nat /\ Cardinality(U) \in Nat
    BY <1>5, FS_CardinalityType
  <2>2. IsFiniteSet(O \cup F) /\ Cardinality(O \cup F) = Cardinality(O) + Cardinality(F) - Cardinality(O \cap F)
    BY <1>5, FS_Union
  <2>3. Cardinality(O \cap F) = 0
    BY <1>4, FS_EmptySet
  <2> QED BY <2>1, <2>2, <2>3
<1>7. Cardinality((O \cup F) \cup U) = Cardinality(O \cup F) + Cardinality(U)
  <2> DEFINE A == O \cup F
  <2>1. IsFiniteSet(A) /\ A \cap U = {} /\ Cardinality(A) \in Nat
    BY <1>4, <1>6
  <2> HIDE DEF A
  <2>2. Cardinality(A \cup U) = Cardinality(A) + Cardinality(U) - Cardinality(A \cap U)
    BY <1>5, <2>1, FS_Union
  <2>3. Cardinality(A \cap U) = 0
    BY <2>1, FS_EmptySet
  <2>4. Cardinality(A \cup U) = Cardinality(A) + Cardinality(U)
    BY <1>6, <2>1, <2>2, <2>3
  <2> QED BY <2>4 DEF A
<1>8. Cardinality(O) + Cardinality(F) + Cardinality(U) = N
  BY <1>3, <1>4, <1>6, <1>7
<1> QED BY <1>6, <1>8 DEF O, F, U, N

\* As many rows as candidates, each candidate named: no candidate has two rows.
OneOfEach(R) == \A r, q \in R : r.of = q.of => r = q
LEMMA OneRowEach ==
  ASSUME NEW T, NEW truth, NEW s \in Seq(CandidateSet(T)), Unrepeated(s), NEW rows, Tells(T, rows, s, truth)
  PROVE  OneOfEach(In(rows)) /\ IsFiniteSet(In(rows))
<1> DEFINE R == In(rows)
           S == In(s)
           of == [r \in R |-> r.of]
<1>1. Counted(rows)
  BY Counts DEF Tells
<1>2. Counted(s)
  BY Counts
<1> HIDE DEF R, S
<1>3. IsFiniteSet(R) /\ Cardinality(R) \in Nat /\ Cardinality(R) <= Len(rows)
  BY <1>1 DEF Counted, R
<1>4. Cardinality(S) \in Nat /\ Cardinality(S) = Len(rows)
  BY <1>2 DEF Counted, S, Tells
<1>5. \A x : (\E r \in R : r.of = x) <=> x \in S
  BY DEF Tells, R, S
<1>6. of \in Surjection(R, S)
  <2>1. of \in [R -> S]
    BY <1>5
  <2>2. \A x \in S : \E r \in R : of[r] = x
    BY <1>5
  <2> HIDE DEF of
  <2> QED BY <2>1, <2>2 DEF Surjection
<1> HIDE DEF of
<1>7. IsFiniteSet(S) /\ Cardinality(S) <= Cardinality(R) /\ (Cardinality(S) = Cardinality(R) <=> of \in Injection(R, S))
  BY <1>3, <1>6, FS_Surjection
<1>8. Cardinality(S) = Cardinality(R)
  BY <1>3, <1>4, <1>7 DEF Tells
<1>9. \A r, q \in R : of[r] = of[q] => r = q
  BY <1>7, <1>8 DEF Injection, IsInjective
<1>10. \A r \in R : of[r] = r.of
  BY DEF of
<1> QED BY <1>3, <1>9, <1>10 DEF OneOfEach, R

\* A judgement replaces the one of its own candidate.
LEMMA OnceKept ==
  ASSUME NEW T, NEW store, StoreOf(T, store), NEW rows, OneOfEach(In(rows)), IsFiniteSet(In(rows))
  PROVE  Cardinality({r.of : r \in Record(store, rows)}) = Cardinality(Record(store, rows))
<1> DEFINE K == Record(store, rows)
           S == {r.of : r \in K}
           of == [r \in K |-> r.of]
           old == {r \in store : \A i \in DOMAIN rows : rows[i].of # r.of}
<1>1. K = old \cup In(rows)
  BY DEF Record
<1>2. IsFiniteSet(old) /\ old \in SUBSET store
  <2>1. IsFiniteSet(store) /\ old \in SUBSET store
    BY DEF StoreOf
  <2> HIDE DEF old
  <2> QED BY <2>1, FS_Subset
<1>3. \A r \in old, q \in In(rows) : r.of # q.of
  BY DEF In
<1> HIDE DEF K, old
<1>4. IsFiniteSet(K)
  BY <1>1, <1>2, FS_Union
<1>5. \A r, q \in K : r.of = q.of => r = q
  <2> SUFFICES ASSUME NEW r \in K, NEW q \in K, r.of = q.of PROVE r = q
    OBVIOUS
  <2>1. CASE r \in old /\ q \in old
    BY <1>2, <2>1 DEF StoreOf
  <2>2. CASE r \in In(rows) /\ q \in In(rows)
    BY <2>2 DEF OneOfEach
  <2> QED BY <1>1, <1>3, <2>1, <2>2
<1>6. of \in Surjection(K, S) /\ of \in Injection(K, S)
  <2>1. of \in [K -> S] /\ (\A x \in S : \E r \in K : of[r] = x) /\ \A r, q \in K : of[r] = of[q] => r = q
    BY <1>5
  <2> HIDE DEF of, S
  <2> QED BY <2>1 DEF Surjection, Injection, IsInjective
<1> HIDE DEF of, S
<1>7. Cardinality(S) = Cardinality(K)
  BY <1>4, <1>6, FS_Surjection
<1> QED BY <1>7 DEF S, K

\* Every batch was answered, whatever the vendor made of it.
RepliesSay(T, replies, batches, truth) == \A n \in DOMAIN batches : ReplySays(T, replies[n], batches[n], truth)

\* sentiment.py, for any samples, store and limits and whatever a vendor makes of a batch
\* (refused, failed, cut off, in another order, with ids twice or missing): every mention
\* picked has one row, the summary adds up, a score is the judge's on that very sentence,
\* what is scored is not asked again, and the store has one row for a candidate.
THEOREM MentionsAlwaysJudgedOnce ==
  ASSUME JudgeLimits, NEW T, NEW xs, SamplesOf(T, xs), NEW store, StoreOf(T, store), NEW model \in T.model, NEW truth,
         StoreSays(store, SelectCandidates(xs), model, truth),
         NEW replies, RepliesSay(T, replies, Batches(AskedFor(xs, store, model)), truth)
  PROVE  JudgedOnce(xs, store, model, replies, truth)
<1> DEFINE C == CandidateSet(T)
           all == SelectCandidates(xs)
           top == Firstly(all, Cap)
           rest == Without(all, Cap)
           I == {i \in DOMAIN top : Cached(store, top[i], model) # {}}
           J == {i \in DOMAIN top : Cached(store, top[i], model) = {}}
           known == Entries(top, I)
           asked == Entries(top, J)
           cached == [i \in DOMAIN known |-> Row(known[i], "ok", (CHOOSE r \in Cached(store, known[i], model) : TRUE).polarity, model)]
           over == [i \in DOMAIN rest |-> Row(rest[i], "unscored", "neutral", model)]
           batches == Batches(asked)
           replied == [n \in DOMAIN batches |-> ParseBatch(replies[n], batches[n], model)]
           judged == FlattenSeq(replied)
           rows == cached \o over \o judged
           many(status) == Cardinality({i \in DOMAIN judged : judged[i].status = status})
           first == Judge(xs, store, model, replies)
<1>1. asked = AskedFor(xs, store, model)
  BY DEF AskedFor, Those
<1>2. first = [rows |-> rows, batches |-> Len(batches), candidates |-> Len(all), cached |-> Len(cached),
               scored |-> many("ok"), refused |-> many("refused"), unscored |-> Len(over) + many("unscored")]
  BY DEF Judge, AskedFor, Those
<1>3. "neutral" \in Polarities /\ Cap \in Nat /\ BatchSize \in Nat \ {0}
  BY DEF JudgeLimits
<1>4. all \in Seq(C) /\ Unrepeated(all)
  BY CandidatesAre
<1> HIDE DEF first, C, all
<1>5. top \in Seq(C) /\ rest \in Seq(C) /\ Joins(C, top, rest, all)
  <2>1. Halved(C, all, top, rest)
    BY <1>3, <1>4, CutInTwo
  <2> QED BY <2>1 DEF Halved
<1> HIDE DEF top, rest
<1>6. known \in Seq(C) /\ asked \in Seq(C) /\ Joins(C, known, asked, top)
  <2>1. I \in SUBSET (1..Len(top)) /\ J = (1..Len(top)) \ I
    BY <1>5
  <2> HIDE DEF I, J
  <2>2. Halved(C, top, known, asked)
    BY <1>5, <2>1, SortedOut
  <2> QED BY <2>2 DEF Halved
<1>7. \A c \in In(known) : Cached(store, c, model) # {}
  <2>1. I \in SUBSET (1..Len(top)) /\ \A i \in I : Cached(store, top[i], model) # {}
    BY <1>5
  <2> HIDE DEF I
  <2>2. Takes(C, top, I, known)
    BY <1>5, <2>1, EntriesTaken
  <2> QED BY <2>1, <2>2 DEF Takes
<1> HIDE DEF I, J, known, asked
<1>8. Tells(T, cached, known, truth)
  <2>1. ASSUME NEW i \in DOMAIN known PROVE Told(T, cached[i], known[i], truth)
    <3> DEFINE c == known[i]
               v == CHOOSE r \in Cached(store, c, model) : TRUE
    <3>1. c \in C /\ c \in In(known)
      BY <1>6 DEF In
    <3>2. v \in Cached(store, c, model)
      BY <1>7, <3>1
    <3>3. cached[i] = Row(c, "ok", v.polarity, model)
      OBVIOUS
    <3> HIDE DEF c, v, cached
    <3>4. c \in In(all)
      BY <1>5, <1>6, <3>1 DEF Joins
    <3>5. v.polarity = truth[c]
      BY <3>2, <3>4 DEF StoreSays, all
    <3>6. v \in RowsOf(T)
      BY <3>2 DEF Cached, StoreOf
    <3>7. v.polarity \in Polarities
      BY <3>6 DEF RowsOf
    <3> QED BY <3>1, <3>3, <3>5, <3>7 DEF Told, RowsOf, Row, c, C
  <2>2. cached = [i \in DOMAIN known |-> cached[i]]
    OBVIOUS
  <2> HIDE DEF cached
  <2>3. RowsInTurn(T, cached, known, truth)
    BY <2>1, <2>2 DEF RowsInTurn
  <2> QED BY <1>6, <2>3, TellsEach DEF C
<1>9. Tells(T, over, rest, truth)
  <2>1. ASSUME NEW i \in DOMAIN rest PROVE Told(T, over[i], rest[i], truth)
    <3> DEFINE c == rest[i]
    <3>1. c \in C
      BY <1>5
    <3>2. over[i] = Row(c, "unscored", "neutral", model)
      OBVIOUS
    <3> HIDE DEF c, over
    <3> QED BY <1>3, <3>1, <3>2 DEF Told, RowsOf, Row, c, C
  <2>2. over = [i \in DOMAIN rest |-> over[i]]
    OBVIOUS
  <2> HIDE DEF over
  <2>3. RowsInTurn(T, over, rest, truth)
    BY <2>1, <2>2 DEF RowsInTurn
  <2> QED BY <1>5, <2>3, TellsEach DEF C
<1>10. Tells(T, judged, asked, truth)
  <2>1. batches \in Seq(Seq(C)) /\ FlatOf(C, batches, DOMAIN batches, asked)
    BY <1>3, <1>6, BatchesHold
  <2>2. RepliesSay(T, replies, batches, truth)
    BY <1>1
  <2>3. replied = [n \in DOMAIN batches |-> replied[n]] /\ \A n \in DOMAIN batches : replied[n] = ParseBatch(replies[n], batches[n], model)
    OBVIOUS
  <2> HIDE DEF batches, replied
  <2>4. ASSUME NEW n \in DOMAIN batches PROVE Tells(T, replied[n], batches[n], truth)
    <3> DEFINE b == batches[n]
               y == replies[n]
    <3>1. b \in Seq(C) /\ ReplySays(T, y, b, truth) /\ replied[n] = ParseBatch(y, b, model)
      BY <2>1, <2>2, <2>3 DEF RepliesSay
    <3> HIDE DEF b, y
    <3>2. Tells(T, ParseBatch(y, b, model), b, truth)
      BY <3>1, BatchParsed DEF C
    <3>3. Tells(T, replied[n], b, truth)
      BY <3>1, <3>2
    <3> QED BY <3>3 DEF b
  <2>5. TellsOfEach(T, replied, batches, truth)
    <3>1. DOMAIN replied = DOMAIN batches
      BY <2>3
    <3> QED BY <2>4, <3>1 DEF TellsOfEach
  <2>6. replied = [n \in DOMAIN batches |-> replied[n]]
    BY <2>3
  <2> QED BY <2>1, <2>5, <2>6, TellsFlat
<1> HIDE DEF cached, over, replied, judged
<1>11. Tells(T, rows, all, truth)
  <2> DEFINE p == known \o rest
             a == cached \o over
  <2>1. Joins(C, known, rest, p)
    BY <1>5, <1>6, Appended
  <2> HIDE DEF p, a
  <2>2. Tells(T, a, p, truth)
    BY <1>8, <1>9, <2>1, TellsJoined DEF a
  <2>3. Joins(C, p, asked, all)
    <3>1. all \in Seq(C) /\ Len(all) = Len(p) + Len(asked)
      <4>1. Len(known) \in Nat /\ Len(asked) \in Nat /\ Len(rest) \in Nat
        BY <1>5, <1>6
      <4> QED BY <1>4, <1>5, <1>6, <2>1, <4>1 DEF Joins
    <3>2. \A x : x \in In(all) <=> x \in In(p) \/ x \in In(asked)
      BY <1>5, <1>6, <2>1 DEF Joins
    <3> QED BY <3>1, <3>2 DEF Joins
  <2>4. Tells(T, a \o judged, all, truth)
    BY <1>10, <2>2, <2>3, TellsJoined
  <2> QED BY <2>4 DEF a
<1> DEFINE kept == Record(store, rows)
<1> HIDE DEF rows
<1>12. first.rows = rows
  BY <1>2
<1>13. {r.of : r \in In(rows)} = In(all) /\ Len(rows) = Len(all)
  BY <1>11 DEF Tells
<1>14. first.scored + first.cached + first.unscored + first.refused = first.candidates
  <2>1. judged \in Seq(RowsOf(T)) /\ Len(judged) = Len(asked)
    BY <1>10 DEF Tells
  <2>2. Len(cached) = Len(known) /\ Len(over) = Len(rest)
    BY <1>8, <1>9 DEF Tells
  <2>3. many("ok") \in Nat /\ many("refused") \in Nat /\ many("unscored") \in Nat /\ many("ok") + many("refused") + many("unscored") = Len(judged)
    BY <2>1, Partitioned
  <2> HIDE DEF many
  <2>4. Len(known) \in Nat /\ Len(asked) \in Nat /\ Len(rest) \in Nat
    BY <1>5, <1>6
  <2>5. Len(all) = Len(known) + Len(asked) + Len(rest)
    BY <1>5, <1>6, <2>4 DEF Joins
  <2>6. /\ first.scored = many("ok") /\ first.cached = Len(cached) /\ first.unscored = Len(over) + many("unscored")
        /\ first.refused = many("refused") /\ first.candidates = Len(all)
    BY <1>2
  <2> DEFINE o == many("ok")
             f == many("refused")
             u == many("unscored")
             k == Len(known)
             a == Len(asked)
             z == Len(rest)
  <2>7. o \in Nat /\ f \in Nat /\ u \in Nat /\ k \in Nat /\ a \in Nat /\ z \in Nat /\ o + f + u = a /\ Len(all) = k + a + z
    BY <2>1, <2>3, <2>4, <2>5
  <2>8. first.scored = o /\ first.cached = k /\ first.unscored = z + u /\ first.refused = f /\ first.candidates = Len(all)
    BY <2>2, <2>6
  <2> HIDE DEF o, f, u, k, a, z
  <2>9. o + k + (z + u) + f = k + a + z
    BY <2>7
  <2> QED BY <2>7, <2>8, <2>9
<1>15. \A r \in In(rows) : r.status = "ok" => r.polarity = truth[r.of]
  BY <1>11 DEF Tells
<1>16. \A c \in In(AskedFor(xs, kept, model)) : \A r \in In(rows) : r.status = "ok" /\ r.model = model => r.of # c
  <2> SUFFICES ASSUME NEW c \in In(AskedFor(xs, kept, model)), NEW r \in In(rows), r.status = "ok", r.model = model, r.of = c
               PROVE  FALSE
    OBVIOUS
  <2> DEFINE H == {i \in DOMAIN top : Cached(kept, top[i], model) = {}}
  <2>1. AskedFor(xs, kept, model) = Entries(top, H)
    BY DEF AskedFor, Those, top, all
  <2>2. H \in SUBSET (1..Len(top)) /\ \A i \in H : Cached(kept, top[i], model) = {}
    BY <1>5
  <2> HIDE DEF H
  <2>3. Takes(C, top, H, Entries(top, H))
    BY <1>5, <2>2, EntriesTaken
  <2>4. Cached(kept, c, model) = {}
    BY <2>1, <2>2, <2>3 DEF Takes
  <2>5. r \in kept
    BY DEF Record
  <2>6. r \in Cached(kept, c, model)
    <3> HIDE DEF kept
    <3> QED BY <2>5 DEF Cached
  <2> QED BY <2>4, <2>6
<1>17. Cardinality({r.of : r \in kept}) = Cardinality(kept)
  <2>1. OneOfEach(In(rows)) /\ IsFiniteSet(In(rows))
    BY <1>4, <1>11, OneRowEach DEF C
  <2> QED BY <2>1, OnceKept
<1> QED BY <1>12, <1>13, <1>14, <1>15, <1>16, <1>17 DEF JudgedOnce, first, all

\* Samples as they are read: their lines and mentions are lists, no two have the same key.
ReadSample(x) ==
  /\ Len(x.lines) \in Nat /\ DOMAIN x.lines = 1..Len(x.lines)
  /\ Len(x.mentions) \in Nat /\ DOMAIN x.mentions = 1..Len(x.mentions)
ReadSamples(xs) ==
  /\ DOMAIN xs = 1..Len(xs) /\ Len(xs) \in Nat /\ \A i \in DOMAIN xs : ReadSample(xs[i])
  /\ \A i, j \in DOMAIN xs : xs[i].at = xs[j].at => i = j
\* What is shown of a mention.
ShownOf(x, claimed, judged, c) ==
  /\ c.at = x.at
  /\ LET on == LinesSaying(x, c.sentence) IN
     /\ c.container = IF on = {} THEN "prose" ELSE x.lines[Min(on)].kind
     /\ c.with = IF on = {} THEN 0 ELSE BlockSize(x.lines, Min(on)) - 1
  /\ c.polarity = VerdictOn(judged, x, c)
  /\ c.source = Source(x, claimed, c.sentence)

LEMMA ContextShows ==
  ASSUME NEW x, NEW claimed, NEW judged, NEW c \in In(ContextOf(x, claimed, judged))
  PROVE  ShownOf(x, claimed, judged, c)
<1>1. PICK k \in DOMAIN x.mentions : c = ContextOf(x, claimed, judged)[k]
  BY DEF In, ContextOf
<1> DEFINE m == x.mentions[k]
           on == LinesSaying(x, m.sentence)
<1>2. c = [at |-> x.at, entity |-> m.entity, sentence |-> m.sentence,
     container |-> IF on = {} THEN "prose" ELSE x.lines[Min(on)].kind,
     with |-> IF on = {} THEN 0 ELSE BlockSize(x.lines, Min(on)) - 1,
     source |-> Source(x, claimed, m.sentence), polarity |-> VerdictOn(judged, x, m)]
  BY <1>1 DEF ContextOf
<1> HIDE DEF m
<1>3. /\ c.at = x.at /\ c.entity = m.entity /\ c.sentence = m.sentence /\ c.polarity = VerdictOn(judged, x, m)
      /\ c.container = (IF on = {} THEN "prose" ELSE x.lines[Min(on)].kind)
      /\ c.with = (IF on = {} THEN 0 ELSE BlockSize(x.lines, Min(on)) - 1)
      /\ c.source = Source(x, claimed, m.sentence)
  BY <1>2
<1>4. VerdictOn(judged, x, c) = VerdictOn(judged, x, m)
  BY <1>3 DEF VerdictOn
<1>5. LinesSaying(x, c.sentence) = on
  BY <1>3
<1> HIDE DEF on
<1> QED BY <1>3, <1>4, <1>5 DEF ShownOf

\* Whatever is shown is shown of a mention of a sample.
ShownIn(xs, judged, s) == \A c \in In(s) : \E i \in DOMAIN xs : ShownOf(xs[i], ClaimUrlIndex(xs), judged, c)
LEMMA ContextsShow ==
  ASSUME ContextCap \in Nat, NEW xs, ReadSamples(xs), NEW judged
  PROVE  ShownIn(xs, judged, MentionContext(xs, judged))
<1> DEFINE N == Len(xs)
           claimed == ClaimUrlIndex(xs)
           cs == [i \in DOMAIN xs |-> ContextOf(Reverse(xs)[i], claimed, judged)]
           V == UNION {In(cs[i]) : i \in DOMAIN xs}
           f == FlattenSeq(cs)
           shown == MentionContext(xs, judged)
<1>1. N \in Nat /\ DOMAIN xs = 1..N
  BY DEF ReadSamples
<1>2. shown = Firstly(f, ContextCap)
  BY DEF MentionContext
<1>3. \A i \in DOMAIN xs : Reverse(xs)[i] = xs[N - i + 1] /\ N - i + 1 \in DOMAIN xs
  BY <1>1 DEF Reverse
<1>4. ASSUME NEW i \in DOMAIN xs PROVE cs[i] \in Seq(V)
  <2> DEFINE x == xs[N - i + 1]
             m == Len(x.mentions)
             t == ContextOf(x, claimed, judged)
  <2>1. cs[i] = t /\ In(cs[i]) \in SUBSET V
    BY <1>3
  <2>2. ReadSample(x)
    BY <1>3 DEF ReadSamples
  <2> HIDE DEF V, cs, x
  <2>3. m \in Nat /\ DOMAIN t = 1..m
    BY <2>2 DEF ReadSample, ContextOf
  <2>4. t = [k \in 1..m |-> t[k]]
    BY <2>3 DEF ContextOf
  <2> HIDE DEF t, m
  <2>5. \A k \in 1..m : t[k] \in V
    BY <2>1, <2>3 DEF In
  <2>6. t \in [1..m -> V]
    BY <2>4, <2>5
  <2> QED BY <2>1, <2>3, <2>6
<1>5. cs \in Seq(Seq(V)) /\ DOMAIN cs = 1..N
  <2>1. cs \in [1..N -> Seq(V)]
    <3> HIDE DEF V
    <3>1. cs = [i \in 1..N |-> cs[i]]
      BY <1>1
    <3> HIDE DEF cs
    <3> QED BY <1>1, <1>4, <3>1
  <2> HIDE DEF V, cs, N
  <2> QED BY <1>1, <2>1
<1>6. \A i \in 1..N : cs[i] = ContextOf(xs[N - i + 1], claimed, judged)
  BY <1>1, <1>3
<1> HIDE DEF V, cs, f, shown, claimed, N
<1>7. FlatOf(V, cs, 1..N, f)
  BY <1>5, FlatIs DEF f
<1>8. f \in Seq(V) /\ \A c : c \in In(f) <=> \E i \in 1..N : c \in In(cs[i])
  BY <1>7 DEF FlatOf
<1>9. Halved(V, f, Firstly(f, ContextCap), Without(f, ContextCap))
  BY <1>8, CutInTwo
<1>10. ASSUME NEW c \in In(shown) PROVE \E i \in DOMAIN xs : ShownOf(xs[i], claimed, judged, c)
  <2>1. c \in In(f)
    BY <1>2, <1>9 DEF Halved, Joins
  <2>2. PICK i \in 1..N : c \in In(cs[i])
    BY <1>8, <2>1
  <2> DEFINE x == xs[N - i + 1]
  <2>3. c \in In(ContextOf(x, claimed, judged))
    BY <1>6, <2>2
  <2> HIDE DEF x
  <2>4. ShownOf(x, claimed, judged, c)
    BY <2>3, ContextShows
  <2> QED BY <1>1, <1>3, <2>4 DEF x
<1> QED BY <1>10 DEF ShownIn, shown, claimed

LEMMA ClaimIndexed ==
  ASSUME NEW xs, NEW i \in DOMAIN xs, NEW d \in xs[i].claims
  PROVE  \E c \in ClaimUrlIndex(xs) : c.sentence = d.sentence
<1> DEFINE row(j, k) == [at |-> j, sentence |-> k.sentence, url |-> k.url]
           of(j) == {row(j, k) : k \in xs[j].claims}
<1>1. ClaimUrlIndex(xs) = UNION {of(j) : j \in DOMAIN xs}
  BY DEF ClaimUrlIndex
<1>2. row(i, d) \in of(i) /\ row(i, d).sentence = d.sentence
  OBVIOUS
<1> HIDE DEF row
<1>3. of(i) \in {of(j) : j \in DOMAIN xs}
  OBVIOUS
<1> HIDE DEF of
<1>4. row(i, d) \in ClaimUrlIndex(xs)
  BY <1>1, <1>2, <1>3
<1> QED BY <1>2, <1>4

\* A source is the url of a claim about the sentence or, without one, a link of the answer.
LEMMA SourceFrom ==
  ASSUME NEW xs, ReadSamples(xs), NEW x, NEW s
  PROVE  LET url == Source(x, ClaimUrlIndex(xs), s) IN
         \/ \E c \in Claimed(xs, s) : c.url = url
         \/ Claimed(xs, s) = {} /\ (url = 0 \/ url \in In(x.links))
<1> DEFINE index == ClaimUrlIndex(xs)
           of == {c \in index : c.sentence = s}
           on == LinesSaying(x, s)
           n == IF on = {} THEN 0 ELSE x.lines[Min(on)].marker
           best == CHOOSE c \in of : \A o \in of : c.at <= o.at
<1>1. Source(x, index, s) = IF of # {} THEN best.url ELSE IF n \in DOMAIN x.links THEN x.links[n] ELSE 0
  BY DEF Source
<1>2. \A c \in index : c.at \in Nat /\ \E i \in DOMAIN xs : \E d \in xs[i].claims : d.sentence = c.sentence /\ d.url = c.url
  BY DEF ClaimUrlIndex, ReadSamples
<1>3. \A i \in DOMAIN xs : \A d \in xs[i].claims : \E c \in index : c.sentence = d.sentence
  BY ClaimIndexed
<1> HIDE DEF index
<1>4. Claimed(xs, s) # {} => of # {}
  <2>1. \A d \in Claimed(xs, s) : d.sentence = s /\ \E i \in DOMAIN xs : d \in xs[i].claims
    BY DEF Claimed
  <2> QED BY <1>3, <2>1
<1>5. ASSUME of # {} PROVE best \in of
  <2> DEFINE B == {c.at : c \in of}
  <2>1. B \in SUBSET Nat /\ B # {}
    BY <1>2, <1>5
  <2> HIDE DEF B
  <2>2. \E m \in B : \A k \in B : m <= k
    BY <2>1, LeastOf
  <2>3. \E c \in of : \A o \in of : c.at <= o.at
    BY <2>2 DEF B
  <2> HIDE DEF of
  <2> QED BY <2>3
<1>6. CASE of # {}
  <2>1. Source(x, index, s) = best.url /\ best \in index /\ best.sentence = s
    BY <1>1, <1>5, <1>6
  <2> HIDE DEF best, of
  <2>2. PICK i \in DOMAIN xs : \E d \in xs[i].claims : d.sentence = s /\ d.url = best.url
    BY <1>2, <2>1
  <2>3. \E c \in Claimed(xs, s) : c.url = best.url
    BY <2>2 DEF Claimed
  <2> QED BY <2>1, <2>3 DEF index
<1>7. CASE of = {}
  <2>1. Claimed(xs, s) = {}
    BY <1>4, <1>7
  <2>2. Source(x, index, s) = IF n \in DOMAIN x.links THEN x.links[n] ELSE 0
    BY <1>1, <1>7
  <2> HIDE DEF n, of
  <2>3. Source(x, index, s) = 0 \/ Source(x, index, s) \in In(x.links)
    BY <2>2 DEF In
  <2> QED BY <2>1, <2>3 DEF index
<1> QED BY <1>6, <1>7

LEMMA OneSource ==
  ASSUME NEW xs, ReadSamples(xs), NEW x, NEW y, NEW s, Claimed(xs, s) # {}
  PROVE  Source(x, ClaimUrlIndex(xs), s) = Source(y, ClaimUrlIndex(xs), s)
<1> DEFINE of == {c \in ClaimUrlIndex(xs) : c.sentence = s}
<1>1. PICK i \in DOMAIN xs : \E d \in xs[i].claims : d.sentence = s
  BY DEF Claimed
<1>2. of # {}
  BY <1>1, ClaimIndexed
<1> QED BY <1>2 DEF Source

\* The items of one list are those of the list around any of them.
LEMMA OneBlock ==
  ASSUME NEW lines, NEW n \in Nat, DOMAIN lines = 1..n, NEW i \in 1..n, NEW j \in Block(lines, i)
  PROVE  lines[j].kind = lines[i].kind /\ Block(lines, j) = Block(lines, i)
<1> DEFINE At(a, b) == \A k \in 1..n : (a <= k /\ k <= b) \/ (b <= k /\ k <= a) => lines[k].kind = lines[a].kind
<1>1. \A a, l : l \in Block(lines, a) <=> l \in 1..n /\ At(a, l)
  BY DEF Block
<1>2. j \in 1..n /\ At(i, j)
  BY <1>1
<1>3. i \in Int /\ j \in Int
  BY <1>2
<1>4. lines[j].kind = lines[i].kind
  BY <1>2, <1>3
<1>5. ASSUME NEW l \in 1..n, At(i, l) PROVE At(j, l)
  <2> SUFFICES ASSUME NEW k \in 1..n, (j <= k /\ k <= l) \/ (l <= k /\ k <= j) PROVE lines[k].kind = lines[j].kind
    OBVIOUS
  <2>1. (i <= k /\ k <= j) \/ (j <= k /\ k <= i) \/ (i <= k /\ k <= l) \/ (l <= k /\ k <= i)
    BY <1>3
  <2> QED BY <1>2, <1>4, <1>5, <2>1
<1>6. ASSUME NEW l \in 1..n, At(j, l) PROVE At(i, l)
  <2> SUFFICES ASSUME NEW k \in 1..n, (i <= k /\ k <= l) \/ (l <= k /\ k <= i) PROVE lines[k].kind = lines[i].kind
    OBVIOUS
  <2>1. (j <= k /\ k <= i) \/ (i <= k /\ k <= j) \/ (j <= k /\ k <= l) \/ (l <= k /\ k <= j)
    BY <1>3
  <2> QED BY <1>2, <1>4, <1>6, <2>1
<1> HIDE DEF At
<1>7. \A l : l \in Block(lines, j) <=> l \in Block(lines, i)
  BY <1>1, <1>5, <1>6
<1>8. Block(lines, j) = Block(lines, i)
  <2>1. Block(lines, i) \in SUBSET (1..n) /\ Block(lines, j) \in SUBSET (1..n)
    BY <1>1
  <2> QED BY <1>7, <2>1
<1> QED BY <1>4, <1>8

LEMMA BlockSizes ==
  ASSUME NEW lines, NEW n \in Nat, DOMAIN lines = 1..n, NEW i \in 1..n
  PROVE  /\ BlockSize(lines, i) \in Nat /\ BlockSize(lines, i) > 0 /\ BlockSize(lines, i) <= n
         /\ lines[i].kind \notin {"list", "table"} => BlockSize(lines, i) = 1
         /\ \A j \in Block(lines, i) : BlockSize(lines, j) = BlockSize(lines, i)
<1> DEFINE R == {j \in Block(lines, i) : ~ lines[j].rule}
           c == Cardinality(R)
<1>1. R \in SUBSET (1..n)
  BY DEF Block
<1>2. IsFiniteSet(1..n) /\ Cardinality(1..n) = n
  BY FS_Interval
<1>3. BlockSize(lines, i) = IF lines[i].kind \notin {"list", "table"} THEN 1 ELSE IF c = 0 THEN 1 ELSE c
  BY DEF BlockSize
<1> HIDE DEF R
<1>4. c \in Nat /\ c <= n
  <2>1. IsFiniteSet(R) /\ Cardinality(R) <= Cardinality(1..n)
    BY <1>1, <1>2, FS_Subset
  <2> QED BY <1>2, <2>1, FS_CardinalityType
<1>5. \A j \in Block(lines, i) : BlockSize(lines, j) = BlockSize(lines, i)
  <2> SUFFICES ASSUME NEW j \in Block(lines, i) PROVE BlockSize(lines, j) = BlockSize(lines, i)
    OBVIOUS
  <2>1. lines[j].kind = lines[i].kind /\ Block(lines, j) = Block(lines, i)
    BY OneBlock
  <2> QED BY <2>1 DEF BlockSize
<1> QED BY <1>3, <1>4, <1>5

\* insights.py, for any samples and verdicts: a verdict is shown on its own sentence only,
\* the mentions of one list are told the same company and a mention in running text none,
\* no source is shown that no answer gives, and an attributed sentence has one source.
THEOREM ContextAlwaysTrue ==
  ASSUME ContextCap \in Nat, NEW xs, ReadSamples(xs), NEW judged
  PROVE  ContextTrue(xs, judged)
<1> DEFINE shown == MentionContext(xs, judged)
           of(c) == CHOOSE i \in DOMAIN xs : xs[i].at = c.at
           line(c) == LinesSaying(xs[of(c)], c.sentence)
<1>1. \A c \in In(shown) : \E i \in DOMAIN xs : ShownOf(xs[i], ClaimUrlIndex(xs), judged, c)
  BY ContextsShow DEF ShownIn
<1> HIDE DEF shown
<1>2. ASSUME NEW c \in In(shown) PROVE of(c) \in DOMAIN xs /\ xs[of(c)].at = c.at /\ ShownOf(xs[of(c)], ClaimUrlIndex(xs), judged, c)
  <2>1. PICK i \in DOMAIN xs : ShownOf(xs[i], ClaimUrlIndex(xs), judged, c)
    BY <1>1
  <2>2. xs[i].at = c.at
    BY <2>1 DEF ShownOf
  <2>3. of(c) \in DOMAIN xs /\ xs[of(c)].at = c.at
    BY <2>2
  <2> HIDE DEF of
  <2>4. of(c) = i
    BY <2>2, <2>3 DEF ReadSamples
  <2> QED BY <2>1, <2>3, <2>4
<1>3. ASSUME NEW c \in In(shown) PROVE
        LET x == xs[of(c)] IN
        /\ Len(x.lines) \in Nat /\ DOMAIN x.lines = 1..Len(x.lines)
        /\ line(c) \in SUBSET (1..Len(x.lines))
        /\ line(c) # {} => Min(line(c)) \in line(c)
        /\ c.container = IF line(c) = {} THEN "prose" ELSE x.lines[Min(line(c))].kind
        /\ c.with = IF line(c) = {} THEN 0 ELSE BlockSize(x.lines, Min(line(c))) - 1
        /\ c.polarity = VerdictOn(judged, x, c)
        /\ c.source = Source(x, ClaimUrlIndex(xs), c.sentence)
  <2>1. of(c) \in DOMAIN xs /\ ShownOf(xs[of(c)], ClaimUrlIndex(xs), judged, c)
    BY <1>2
  <2> HIDE DEF of
  <2> DEFINE x == xs[of(c)]
             S == LinesSaying(x, c.sentence)
  <2>2. ReadSample(x)
    BY <2>1 DEF ReadSamples
  <2>3. line(c) = S
    OBVIOUS
  <2>4. S \in SUBSET (DOMAIN x.lines)
    BY DEF LinesSaying
  <2> HIDE DEF x, line
  <2>5. S \in SUBSET Nat /\ S \in SUBSET (1..Len(x.lines))
    BY <2>2, <2>4 DEF ReadSample
  <2>6. S # {} => Min(S) \in S
    <3> HIDE DEF S
    <3> SUFFICES ASSUME NEW a \in S PROVE Min(S) \in S
      OBVIOUS
    <3>1. \E m \in S : \A k \in S : m <= k
      BY <2>5, LeastOf
    <3> QED BY <3>1 DEF Min
  <2>7. ShownOf(x, ClaimUrlIndex(xs), judged, c)
    BY <2>1 DEF x
  <2> QED BY <2>2, <2>3, <2>5, <2>6, <2>7 DEF ShownOf, ReadSample, x
<1> HIDE DEF of, line
<1>4. ASSUME NEW c \in In(shown), c.polarity # "none"
      PROVE  \E r \in judged : r.status = "ok" /\ r.of.sentence = c.sentence /\ r.of.entity = c.entity /\ r.polarity = c.polarity
  <2> DEFINE x == xs[of(c)]
             S == {r \in judged : r.status = "ok" /\ r.of = [at |-> x.at, engine |-> x.engine, entity |-> c.entity, sentence |-> c.sentence]}
             v == CHOOSE r \in S : TRUE
  <2>1. c.polarity = VerdictOn(judged, x, c)
    BY <1>3
  <2>2. VerdictOn(judged, x, c) = IF S = {} THEN "none" ELSE v.polarity
    BY DEF VerdictOn
  <2>3. S # {} /\ v \in S /\ v.polarity = c.polarity
    BY <1>4, <2>1, <2>2
  <2> QED BY <2>3
<1>5. ASSUME NEW c \in In(shown), NEW d \in In(shown), line(c) # {}, line(d) # {}, c.at = d.at,
             Min(line(d)) \in Block(xs[of(c)].lines, Min(line(c)))
      PROVE  c.with = d.with /\ c.container = d.container
  <2> DEFINE x == xs[of(c)]
             i == Min(line(c))
             j == Min(line(d))
  <2>1. of(c) = of(d)
    BY <1>2, <1>5 DEF ReadSamples
  <2>2. /\ Len(x.lines) \in Nat /\ DOMAIN x.lines = 1..Len(x.lines) /\ i \in 1..Len(x.lines)
        /\ c.container = x.lines[i].kind /\ c.with = BlockSize(x.lines, i) - 1
    BY <1>3, <1>5
  <2>3. d.container = x.lines[j].kind /\ d.with = BlockSize(x.lines, j) - 1
    BY <1>3, <1>5, <2>1
  <2> DEFINE ls == x.lines
             n == Len(ls)
  <2>4. j \in Block(ls, i)
    BY <1>5
  <2>5. n \in Nat /\ DOMAIN ls = 1..n /\ i \in 1..n
    BY <2>2
  <2> HIDE DEF x, i, j, ls, n
  <2>6. ls[j].kind = ls[i].kind
    BY <2>4, <2>5, OneBlock
  <2>7. BlockSize(ls, j) = BlockSize(ls, i)
    BY <2>4, <2>5, BlockSizes
  <2> QED BY <2>2, <2>3, <2>6, <2>7 DEF ls
<1>6. ASSUME NEW c \in In(shown)
      PROVE  c.with < Len(xs[of(c)].lines) + 1 /\ (c.container \in {"prose", "heading"} => c.with = 0)
  <2> DEFINE ls == xs[of(c)].lines
             n == Len(ls)
             i == Min(line(c))
             b == BlockSize(ls, i)
  <2>1. n \in Nat /\ DOMAIN ls = 1..n
    BY <1>3
  <2>2. CASE line(c) = {}
    <3>1. c.with = 0
      BY <1>3, <2>2
    <3> HIDE DEF ls
    <3> QED BY <2>1, <3>1 DEF ls
  <2>3. CASE line(c) # {}
    <3>1. i \in 1..n /\ c.container = ls[i].kind /\ c.with = b - 1
      BY <1>3, <2>3
    <3> HIDE DEF i, ls
    <3>2. b \in Nat /\ b > 0 /\ b <= n /\ (ls[i].kind \notin {"list", "table"} => b = 1)
      <4> HIDE DEF n
      <4>1. n \in Nat /\ DOMAIN ls = 1..n /\ i \in 1..n
        BY <2>1, <3>1
      <4> QED BY <4>1, BlockSizes
    <3> HIDE DEF b
    <3>3. c.with < n + 1
      BY <2>1, <3>1, <3>2
    <3>4. c.container \in {"prose", "heading"} => c.with = 0
      BY <3>1, <3>2
    <3> QED BY <3>3, <3>4 DEF ls
  <2> QED BY <2>2, <2>3
<1>7. \A c \in In(shown) : SourceGiven(xs, xs[of(c)].links, c)
  <2> SUFFICES ASSUME NEW c \in In(shown) PROVE SourceGiven(xs, xs[of(c)].links, c)
    OBVIOUS
  <2> DEFINE x == xs[of(c)]
             url == Source(x, ClaimUrlIndex(xs), c.sentence)
  <2>1. c.source = url
    BY <1>3
  <2>2. \/ \E k \in Claimed(xs, c.sentence) : k.url = url
        \/ Claimed(xs, c.sentence) = {} /\ (url = 0 \/ url \in In(x.links))
    BY SourceFrom
  <2> HIDE DEF url
  <2> QED BY <2>1, <2>2 DEF SourceGiven
<1>8. \A c, d \in In(shown) : c.sentence = d.sentence /\ Claimed(xs, c.sentence) # {} => c.source = d.source
  <2> SUFFICES ASSUME NEW c \in In(shown), NEW d \in In(shown), c.sentence = d.sentence, Claimed(xs, c.sentence) # {}
               PROVE  c.source = d.source
    OBVIOUS
  <2>1. c.source = Source(xs[of(c)], ClaimUrlIndex(xs), c.sentence) /\ d.source = Source(xs[of(d)], ClaimUrlIndex(xs), c.sentence)
    BY <1>3
  <2>2. Source(xs[of(c)], ClaimUrlIndex(xs), c.sentence) = Source(xs[of(d)], ClaimUrlIndex(xs), c.sentence)
    BY OneSource
  <2> QED BY <2>1, <2>2
<1>9. /\ \A c \in In(shown) : c.polarity # "none" =>
           \E r \in judged : r.status = "ok" /\ r.of.sentence = c.sentence /\ r.of.entity = c.entity /\ r.polarity = c.polarity
      /\ \A c, d \in {z \in In(shown) : line(z) # {}} :
           c.at = d.at /\ Min(line(d)) \in Block(xs[of(c)].lines, Min(line(c))) => c.with = d.with /\ c.container = d.container
      /\ \A c \in In(shown) : c.with < Len(xs[of(c)].lines) + 1 /\ (c.container \in {"prose", "heading"} => c.with = 0)
      /\ \A c \in In(shown) : SourceGiven(xs, xs[of(c)].links, c)
      /\ \A c, d \in In(shown) : c.sentence = d.sentence /\ Claimed(xs, c.sentence) # {} => c.source = d.source
  <2>1. \A c \in In(shown) : c.polarity # "none" =>
           \E r \in judged : r.status = "ok" /\ r.of.sentence = c.sentence /\ r.of.entity = c.entity /\ r.polarity = c.polarity
    BY <1>4
  <2>2. \A c, d \in {z \in In(shown) : line(z) # {}} :
           c.at = d.at /\ Min(line(d)) \in Block(xs[of(c)].lines, Min(line(c))) => c.with = d.with /\ c.container = d.container
    BY <1>5
  <2>3. \A c \in In(shown) : c.with < Len(xs[of(c)].lines) + 1 /\ (c.container \in {"prose", "heading"} => c.with = 0)
    BY <1>6
  <2> QED BY <1>7, <1>8, <2>1, <2>2, <2>3
<1> QED BY <1>9 DEF ContextTrue, shown, of, line

=============================================================================
