---- MODULE JobQueueProofs ----
(***************************************************************************)
(* Proofs about JobQueue for any number of jobs and workers, any limits,   *)
(* leases and delays, and worker ids that may coincide.                    *)
(***************************************************************************)
EXTENDS JobQueue, TLAPS

\* What a worker remembers of its claim, against the row it claimed: an unexpired claim is
\* the row's own, and a returned handler is on record.
ClaimOK(w) ==
  LET j == claim[w].job
  IN  /\ claim[w].attempt \in 1 .. attempts[j]
      /\ claim[w].left > 0 => /\ status[j] = "running"
                              /\ attempts[j] = claim[w].attempt
                              /\ lockedUntil[j] = claim[w].left
      /\ pc[w] = "returned" => <<j, claim[w].attempt>> \in handled

ClaimsOK == \A w \in Workers : pc[w] # "idle" => ClaimOK(w)

\* Two workers never carry the same attempt of the same job.
AttemptsDiffer ==
  \A v, w \in Workers :
    (v # w /\ pc[v] # "idle" /\ pc[w] # "idle" /\ claim[v].job = claim[w].job)
      => claim[v].attempt # claim[w].attempt

\* The inductive invariant.
IInv == TypeOK /\ ClaimsOK /\ AttemptsDiffer

Claims == [job : Jobs, attempt : Nat, left : 0 .. Lease]

----------------------------------------------------------------------------
\* A retry delay lies between zero and the cap.
LEMMA RetryDelayBounded ==
  ASSUME NEW n \in Nat PROVE RetryDelay(n) \in 0 .. RetryCap
<1>1. ASSUME NEW d PROVE (IF d \in 0 .. RetryCap THEN d ELSE RetryCap) \in 0 .. RetryCap
  BY TimingAssumption
<1> QED BY <1>1 DEF RetryDelay

\* A worker that is not idle holds a proper claim.
LEMMA BusyHasClaim ==
  ASSUME TypeOK, NEW w \in Workers, pc[w] # "idle" PROVE claim[w] \in Claims
  BY DEF TypeOK, Claims

\* No job has the id of the empty claim.
LEMMA ClaimIsNotNoClaim ==
  ASSUME NEW j \in Jobs, NEW n, NEW left PROVE JobClaim(j, n, left) # NoClaim
<1>1. JobClaim(j, n, left).job = j /\ NoClaim.job = -1 BY DEF JobClaim, NoClaim
<1> QED BY <1>1, RowAssumption

LEMMA InitInductive == Init => IInv
<1> SUFFICES ASSUME Init PROVE IInv OBVIOUS
<1>1. TypeOK
  BY RowAssumption, TimingAssumption DEF Init, TypeOK
<1> QED BY <1>1 DEF Init, IInv, ClaimsOK, AttemptsDiffer

----------------------------------------------------------------------------
(***************************************************************************)
(* Type correctness                                                        *)
(***************************************************************************)
LEMMA StepTyped == TypeOK /\ [Next]_vars => TypeOK'
<1> SUFFICES ASSUME TypeOK, [Next]_vars PROVE TypeOK' OBVIOUS
<1> USE DEF TypeOK, Terminal
<1>1. ASSUME NEW j \in Jobs, NEW delay \in 0 .. MaxDelay, Enqueue(j, delay) PROVE TypeOK'
  BY <1>1, TimingAssumption DEF Enqueue
<1>2. ASSUME NEW j \in Jobs, NEW delay \in 0 .. MaxDelay, Defer(j, delay) PROVE TypeOK'
  BY <1>2, TimingAssumption DEF Defer
<1>3. ASSUME NEW w \in Workers, NEW j \in Jobs, Claim(w, j) PROVE TypeOK'
  <2>1. attempts[j] \in Nat /\ attempts[j] < MaxAttempts[j] /\ MaxAttempts[j] \in Nat
    BY <1>3, RowAssumption DEF Claim, Eligible
  <2>2. JobClaim(j, attempts[j] + 1, Lease) \in Claims
    BY <2>1, TimingAssumption DEF JobClaim, Claims
  <2>3. JobClaim(j, attempts[j] + 1, Lease) # NoClaim
    BY ClaimIsNotNoClaim
  <2>4. attempts' \in [Jobs -> Nat] /\ \A i \in Jobs : attempts'[i] <= MaxAttempts[i]
    BY <1>3, <2>1 DEF Claim
  <2>5. /\ status' \in [Jobs -> {"absent", "pending", "running"} \cup Terminal]
        /\ lockedUntil' \in [Jobs -> 0 .. Lease]
        /\ lockedBy' \in [Jobs -> {IdOf[v] : v \in Workers} \cup {Nobody}]
    <3>1. status' \in [Jobs -> {"absent", "pending", "running"} \cup Terminal]
      BY <1>3 DEF Claim, Swept
    <3>2. lockedUntil' \in [Jobs -> 0 .. Lease]
      BY <1>3, TimingAssumption DEF Claim, Swept
    <3>3. lockedBy' \in [Jobs -> {IdOf[v] : v \in Workers} \cup {Nobody}]
      BY <1>3 DEF Claim, Swept
    <3> QED BY <3>1, <3>2, <3>3
  <2>6. /\ pc' \in [Workers -> {"idle", "handling", "returned", "raised"}]
        /\ claim' \in [Workers -> [job : Jobs, attempt : Nat, left : 0 .. Lease] \cup {NoClaim}]
        /\ \A v \in Workers : claim'[v] = NoClaim <=> pc'[v] = "idle"
    BY <1>3, <2>2, <2>3 DEF Claim, Claims
  <2> QED BY <1>3, <2>4, <2>5, <2>6 DEF Claim
<1>4. ASSUME NEW w \in Workers, SweepOnly(w) PROVE TypeOK'
  BY <1>4, TimingAssumption DEF SweepOnly, Swept
<1>5. ASSUME NEW w \in Workers, HandlerReturns(w) PROVE TypeOK'
  <2>1. claim[w] \in Claims
    BY <1>5, BusyHasClaim DEF HandlerReturns
  <2> QED BY <1>5, <2>1 DEF HandlerReturns, rows, Claims
<1>6. ASSUME NEW w \in Workers, HandlerRaises(w) PROVE TypeOK'
  BY <1>6 DEF HandlerRaises, rows
<1>7. ASSUME NEW w \in Workers, Succeed(w) PROVE TypeOK'
  <2>1. claim[w].job \in Jobs
    BY <1>7, BusyHasClaim DEF Succeed, Claims
  <2> QED BY <1>7, <2>1, TimingAssumption DEF Succeed, Release, Idle
<1>8. ASSUME NEW w \in Workers, Fail(w) PROVE TypeOK'
  <2>1. claim[w].job \in Jobs /\ claim[w].attempt \in Nat
    BY <1>8, BusyHasClaim DEF Fail, Claims
  <2>2. RetryDelay(claim[w].attempt) \in Int
    BY <2>1, RetryDelayBounded, TimingAssumption
  <2> QED BY <1>8, <2>1, <2>2, TimingAssumption DEF Fail, Release, Idle
<1>9. ASSUME NEW w \in Workers, ReportTooLate(w) \/ Crash(w) PROVE TypeOK'
  BY <1>9 DEF ReportTooLate, Crash, Idle, rows
<1>10. CASE Tick
  <2>1. \A t \in 0 .. Lease : Nearer(t, 0) \in 0 .. Lease
    BY TimingAssumption DEF Nearer
  <2>2. \A t \in Int : Nearer(t, -MaxAge) \in Int
    BY TimingAssumption DEF Nearer
  <2>3. ASSUME NEW w \in Workers
        PROVE /\ claim'[w] \in Claims \cup {NoClaim}
              /\ claim'[w] = NoClaim <=> claim[w] = NoClaim
    <3>1. claim'[w] = [claim[w] EXCEPT !.left = Nearer(@, 0)]
      BY <1>10 DEF Tick
    <3>2. CASE claim[w] = NoClaim
      BY <3>1, <3>2 DEF NoClaim, JobClaim, Nearer
    <3>3. CASE claim[w] \in Claims
      <4>1. claim'[w] \in Claims /\ claim'[w].job = claim[w].job
        BY <3>1, <3>3, <2>1 DEF Claims
      <4> QED BY <4>1, <3>3, RowAssumption DEF Claims, NoClaim, JobClaim
    <3> QED BY <3>2, <3>3 DEF Claims
  <2>4. runAt' \in [Jobs -> Int] /\ lockedUntil' \in [Jobs -> 0 .. Lease]
    BY <1>10, <2>1, <2>2 DEF Tick
  <2>5. claim' \in [Workers -> Claims \cup {NoClaim}]
    BY <1>10, <2>3 DEF Tick
  <2> QED BY <1>10, <2>3, <2>4, <2>5 DEF Tick, Claims
<1>11. CASE UNCHANGED vars
  BY <1>11 DEF vars
<1> QED BY <1>1, <1>2, <1>3, <1>4, <1>5, <1>6, <1>7, <1>8, <1>9, <1>10, <1>11
        DEF Next, Poll, EndHandler, Report

\* The queue's variables keep their types. (jobs/queue.py, jobs/worker.py)
THEOREM TypeCorrect == Spec => []TypeOK
<1>1. Init => TypeOK
  BY InitInductive DEF IInv
<1> QED BY <1>1, StepTyped, PTL DEF Spec

----------------------------------------------------------------------------
(***************************************************************************)
(* Fencing                                                                 *)
(***************************************************************************)
LEMMA StepInductive == IInv /\ [Next]_vars => IInv'
<1> SUFFICES ASSUME IInv, [Next]_vars PROVE ClaimsOK' /\ AttemptsDiffer'
  BY StepTyped DEF IInv
<1>0. TypeOK /\ TypeOK'
  BY StepTyped DEF IInv
<1>c. \A w \in Workers : pc[w] # "idle" => claim[w] \in Claims /\ ClaimOK(w)
  BY <1>0, BusyHasClaim DEF IInv, ClaimsOK
<1>d. AttemptsDiffer
  BY DEF IInv
<1>1. ASSUME NEW j \in Jobs, NEW delay \in 0 .. MaxDelay, Enqueue(j, delay) \/ Defer(j, delay)
      PROVE  ClaimsOK' /\ AttemptsDiffer'
  <2>1. AttemptsDiffer'
    BY <1>1, <1>d DEF Enqueue, Defer, AttemptsDiffer
  <2>2. ASSUME NEW w \in Workers, pc[w] # "idle" PROVE ClaimOK(w)'
    <3>1. claim[w] \in Claims /\ ClaimOK(w) BY <2>2, <1>c
    <3> QED BY <1>0, <1>1, <3>1 DEF Enqueue, Defer, ClaimOK, Claims, TypeOK
  <2> QED BY <1>1, <2>1, <2>2 DEF Enqueue, Defer, ClaimsOK
<1>2. ASSUME NEW v \in Workers, NEW j \in Jobs, Claim(v, j)
      PROVE  ClaimsOK' /\ AttemptsDiffer'
  <2>1. /\ claim' = [claim EXCEPT ![v] = JobClaim(j, attempts[j] + 1, Lease)]
        /\ attempts' = [attempts EXCEPT ![j] = @ + 1]
        /\ pc' = [pc EXCEPT ![v] = "handling"]
        /\ attempts \in [Jobs -> Nat]
    BY <1>0, <1>2 DEF Claim, TypeOK
  <2>2. /\ claim'[v].job = j /\ claim'[v].attempt = attempts[j] + 1 /\ claim'[v].left = Lease
        /\ pc'[v] = "handling"
    BY <1>0, <2>1 DEF TypeOK, JobClaim
  <2>3. \A w \in Workers \ {v} : claim'[w] = claim[w] /\ pc'[w] = pc[w]
    BY <1>0, <2>1 DEF TypeOK
  <2>4. /\ status'[j] = "running" /\ lockedUntil'[j] = Lease
        /\ Expired(j) \/ status[j] = "pending"
        /\ \A i \in Jobs \ {j} :
             i \notin Exhausted(v) => status'[i] = status[i] /\ lockedUntil'[i] = lockedUntil[i]
    BY <1>2 DEF Claim, Swept, Eligible
  <2>5. ASSUME NEW w \in Workers, pc'[w] # "idle" PROVE ClaimOK(w)'
    <3>1. CASE w = v
      BY <1>0, <2>1, <2>2, <2>4, <3>1, TimingAssumption DEF ClaimOK
    <3>2. CASE w # v
      <4>1. claim[w] \in Claims /\ ClaimOK(w) /\ claim'[w] = claim[w] /\ pc'[w] = pc[w]
        BY <1>c, <2>3, <2>5, <3>2
      <4>2. claim[w].attempt \in 1 .. attempts'[claim[w].job]
        BY <2>1, <4>1 DEF ClaimOK, Claims
      <4>3. claim[w].left > 0 => claim[w].job # j /\ claim[w].job \notin Exhausted(v)
        BY <2>4, <4>1 DEF ClaimOK, Claims, Expired, Exhausted
      <4>4. claim[w].left > 0 => /\ status'[claim[w].job] = "running"
                                 /\ attempts'[claim[w].job] = claim[w].attempt
                                 /\ lockedUntil'[claim[w].job] = claim[w].left
        BY <2>1, <2>4, <4>1, <4>3 DEF ClaimOK, Claims
      <4>5. handled' = handled
        BY <1>2 DEF Claim
      <4> QED BY <4>1, <4>2, <4>4, <4>5 DEF ClaimOK
    <3> QED BY <3>1, <3>2
  <2>6. ASSUME NEW w \in Workers \ {v}, pc'[w] # "idle", claim'[w].job = j
        PROVE  claim'[w].attempt # attempts[j] + 1
    <3>1. ClaimOK(w) /\ claim[w].job = j /\ claim'[w].attempt = claim[w].attempt
      BY <1>c, <2>3, <2>6
    <3>2. claim[w].attempt \in 1 .. attempts[j] /\ attempts[j] \in Nat
      BY <2>1, <3>1 DEF ClaimOK
    <3> QED BY <3>1, <3>2
  <2>7. AttemptsDiffer'
    BY <1>d, <2>2, <2>3, <2>6 DEF AttemptsDiffer
  <2> QED BY <2>5, <2>7 DEF ClaimsOK
<1>3. ASSUME NEW v \in Workers, SweepOnly(v) PROVE ClaimsOK' /\ AttemptsDiffer'
  <2>1. AttemptsDiffer'
    BY <1>3, <1>d DEF SweepOnly, AttemptsDiffer
  <2>2. ASSUME NEW w \in Workers, pc[w] # "idle" PROVE ClaimOK(w)'
    <3>1. claim[w] \in Claims /\ ClaimOK(w) BY <2>2, <1>c
    <3>2. claim[w].left > 0 => claim[w].job \notin Exhausted(v)
      BY <3>1 DEF ClaimOK, Claims, Expired, Exhausted
    <3> QED BY <1>3, <3>1, <3>2 DEF SweepOnly, Swept, ClaimOK, Claims
  <2> QED BY <1>3, <2>1, <2>2 DEF SweepOnly, ClaimsOK
<1>4. ASSUME NEW v \in Workers, EndHandler(v) PROVE ClaimsOK' /\ AttemptsDiffer'
  <2>1. /\ UNCHANGED <<rows, claim>> /\ pc[v] = "handling"
        /\ \/ pc' = [pc EXCEPT ![v] = "raised"] /\ handled' = handled
           \/ /\ pc' = [pc EXCEPT ![v] = "returned"]
              /\ handled' = handled \cup {<<claim[v].job, claim[v].attempt>>}
    BY <1>4 DEF EndHandler, HandlerReturns, HandlerRaises
  <2>2. \A w \in Workers : pc'[w] # "idle" => pc[w] # "idle"
    BY <1>0, <2>1 DEF TypeOK
  <2>3. AttemptsDiffer'
    BY <1>d, <2>1, <2>2 DEF AttemptsDiffer
  <2>4. ASSUME NEW w \in Workers, pc'[w] # "idle" PROVE ClaimOK(w)'
    <3>1. ClaimOK(w) BY <1>c, <2>2, <2>4
    <3>2. pc'[w] = "returned" => <<claim[w].job, claim[w].attempt>> \in handled'
      BY <1>0, <2>1, <3>1 DEF ClaimOK, TypeOK
    <3> QED BY <2>1, <3>1, <3>2 DEF ClaimOK, rows
  <2> QED BY <2>3, <2>4 DEF ClaimsOK
<1>5. ASSUME NEW v \in Workers, Report(v) \/ Crash(v) PROVE ClaimsOK' /\ AttemptsDiffer'
  <2>1. /\ pc' = [pc EXCEPT ![v] = "idle"] /\ claim' = [claim EXCEPT ![v] = NoClaim]
        /\ attempts' = attempts /\ handled' = handled /\ pc[v] # "idle"
    BY <1>5 DEF Report, Succeed, Fail, ReportTooLate, Crash, Idle, rows
  <2>2. \A w \in Workers : pc'[w] # "idle" => w # v /\ pc'[w] = pc[w] /\ claim'[w] = claim[w]
    BY <1>0, <2>1 DEF TypeOK
  <2>3. AttemptsDiffer'
    BY <1>d, <2>2 DEF AttemptsDiffer
  <2>4. \/ UNCHANGED <<status, lockedUntil>>
        \/ /\ Holds(v)
           /\ \E outcome : Release(claim[v].job, outcome)
    BY <1>5 DEF Report, Succeed, Fail, ReportTooLate, Crash, rows
  <2>5. ASSUME NEW w \in Workers, pc'[w] # "idle" PROVE ClaimOK(w)'
    <3>1. ClaimOK(w) /\ w # v /\ pc'[w] = pc[w] /\ pc[w] # "idle" /\ claim'[w] = claim[w]
      BY <1>c, <2>2, <2>5
    <3>2. CASE UNCHANGED <<status, lockedUntil>>
      BY <2>1, <3>1, <3>2 DEF ClaimOK
    <3>3. CASE Holds(v) /\ \E outcome : Release(claim[v].job, outcome)
      <4>1. claim[w].left > 0 => claim[w].job # claim[v].job
        BY <1>d, <2>1, <3>1, <3>3 DEF ClaimOK, Holds, AttemptsDiffer
      <4>2. claim[w].job # claim[v].job =>
              /\ status'[claim[w].job] = status[claim[w].job]
              /\ lockedUntil'[claim[w].job] = lockedUntil[claim[w].job]
        BY <1>0, <1>c, <3>1, <3>3 DEF Release, TypeOK, Claims
      <4> QED BY <2>1, <3>1, <4>1, <4>2 DEF ClaimOK
    <3> QED BY <2>4, <3>2, <3>3
  <2> QED BY <2>3, <2>5 DEF ClaimsOK
<1>6. CASE Tick
  <2>1. UNCHANGED <<status, attempts, pc, handled>>
    BY <1>6 DEF Tick
  <2>2. ASSUME NEW w \in Workers, pc[w] # "idle"
        PROVE /\ claim'[w].job = claim[w].job /\ claim'[w].attempt = claim[w].attempt
              /\ claim'[w].left = Nearer(claim[w].left, 0)
    <3>1. claim'[w] = [claim[w] EXCEPT !.left = Nearer(@, 0)]
      BY <1>6 DEF Tick
    <3>2. claim[w] \in Claims BY <1>c, <2>2
    <3> QED BY <3>1, <3>2 DEF Claims
  <2>3. AttemptsDiffer'
    BY <1>d, <2>1, <2>2 DEF AttemptsDiffer
  <2>4. ASSUME NEW w \in Workers, pc[w] # "idle" PROVE ClaimOK(w)'
    <3>1. claim[w] \in Claims /\ ClaimOK(w) BY <1>c, <2>4
    <3>2. lockedUntil'[claim[w].job] = Nearer(lockedUntil[claim[w].job], 0)
      BY <1>6, <3>1 DEF Tick, Claims
    <3>3. claim'[w].left > 0 => claim[w].left > 0
      BY <2>2, <2>4, <3>1 DEF Nearer, Claims
    <3> QED BY <2>1, <2>2, <2>4, <3>1, <3>2, <3>3 DEF ClaimOK
  <2> QED BY <2>1, <2>3, <2>4 DEF ClaimsOK
<1>7. CASE UNCHANGED vars
  BY <1>7, <1>d, <1>c DEF vars, ClaimsOK, ClaimOK, AttemptsDiffer
<1> QED BY <1>1, <1>2, <1>3, <1>4, <1>5, <1>6, <1>7 DEF Next, Poll

LEMMA Invariance == Spec => []IInv
BY InitInductive, StepInductive, PTL DEF Spec

\* Two workers are in one job only as different attempts, the older with its lease run out:
\* attempts fence, whatever the worker ids are. (jobs/queue.py claim_due, succeed, fail)
THEOREM LeasesFence == Spec => []OverlapOnlyAfterExpiry
<1>1. IInv => OverlapOnlyAfterExpiry
  <2> SUFFICES ASSUME IInv, NEW j \in Jobs, NEW v \in Workers, NEW w \in Workers,
                      v # w, Holding(v, j), Holding(w, j)
               PROVE  /\ claim[v].attempt # claim[w].attempt
                      /\ claim[v].attempt < claim[w].attempt => claim[v].left = 0
    BY DEF OverlapOnlyAfterExpiry
  <2>1. claim[v].attempt # claim[w].attempt
    BY DEF IInv, AttemptsDiffer, Holding
  <2>2. claim[v] \in Claims /\ claim[w] \in Claims /\ ClaimOK(v) /\ ClaimOK(w)
    BY BusyHasClaim DEF IInv, ClaimsOK, Holding
  <2>3. claim[v].attempt < claim[w].attempt => attempts[j] # claim[v].attempt
    BY <2>2 DEF ClaimOK, Claims, Holding
  <2>4. claim[v].attempt < claim[w].attempt => ~(claim[v].left > 0)
    BY <2>2, <2>3 DEF ClaimOK, Holding
  <2> QED BY <2>1, <2>2, <2>4 DEF Claims
<1> QED BY <1>1, Invariance, PTL

----------------------------------------------------------------------------
(***************************************************************************)
(* Ended rows                                                              *)
(***************************************************************************)
\* An ended row has no lease, so time passes it by.
EndedUnlocked == \A j \in Jobs : status[j] \in Terminal => lockedUntil[j] = 0

LEMMA EndedUnlockedInductive == TypeOK /\ EndedUnlocked /\ [Next]_vars => EndedUnlocked'
<1> SUFFICES ASSUME TypeOK, EndedUnlocked, [Next]_vars, NEW j \in Jobs, status'[j] \in Terminal
             PROVE  lockedUntil'[j] = 0
  BY DEF EndedUnlocked
<1>1. CASE \E i \in Jobs, delay \in 0 .. MaxDelay : Enqueue(i, delay) \/ Defer(i, delay)
  BY <1>1 DEF Enqueue, Defer, TypeOK, EndedUnlocked, Terminal
<1>2. CASE \E w \in Workers, i \in Jobs : Claim(w, i)
  BY <1>2 DEF Claim, Swept, EndedUnlocked, Terminal
<1>3. CASE \E w \in Workers : SweepOnly(w)
  BY <1>3 DEF SweepOnly, Swept, EndedUnlocked
<1>4. CASE \E w \in Workers : EndHandler(w) \/ ReportTooLate(w) \/ Crash(w)
  BY <1>4 DEF EndHandler, HandlerReturns, HandlerRaises, ReportTooLate, Crash, rows, EndedUnlocked
<1>5. CASE \E w \in Workers : Succeed(w) \/ Fail(w)
  BY <1>5 DEF Succeed, Fail, Release, TypeOK, EndedUnlocked
<1>6. CASE Tick
  BY <1>6 DEF Tick, Nearer, EndedUnlocked
<1>7. CASE UNCHANGED vars
  BY <1>7 DEF vars, EndedUnlocked
<1> QED BY <1>1, <1>2, <1>3, <1>4, <1>5, <1>6, <1>7 DEF Next, Poll, Report

\* No step changes any column of a row that has ended. (jobs/queue.py enqueue: "completed
\* and currently leased work remain immutable")
THEOREM EndedRowsAreFinal == Spec => EndedRowsStay
<1>1. TypeOK /\ EndedUnlocked /\ [Next]_vars => [EndedStay]_vars
  <2> SUFFICES ASSUME TypeOK, EndedUnlocked, [Next]_vars,
                      NEW j \in Jobs, status[j] \in Terminal
               PROVE  UNCHANGED Row(j)
    BY DEF EndedStay
  <2> USE DEF Row
  <2>0. status[j] \notin {"absent", "pending", "running"} /\ lockedUntil[j] = 0
    BY DEF Terminal, EndedUnlocked
  <2>1. CASE \E i \in Jobs, delay \in 0 .. MaxDelay : Enqueue(i, delay) \/ Defer(i, delay)
    BY <2>0, <2>1 DEF Enqueue, Defer, TypeOK
  <2>2. CASE \E w \in Workers, i \in Jobs : Claim(w, i)
    BY <2>0, <2>2 DEF Claim, Swept, Eligible, Exhausted, Expired, TypeOK
  <2>3. CASE \E w \in Workers : SweepOnly(w)
    BY <2>0, <2>3 DEF SweepOnly, Swept, Exhausted, Expired
  <2>4. CASE \E w \in Workers : EndHandler(w) \/ ReportTooLate(w) \/ Crash(w)
    BY <2>4 DEF EndHandler, HandlerReturns, HandlerRaises, ReportTooLate, Crash, rows
  <2>5. CASE \E w \in Workers : Succeed(w) \/ Fail(w)
    BY <2>0, <2>5 DEF Succeed, Fail, Holds, Release, TypeOK
  <2>6. CASE Tick
    BY <2>0, <2>6 DEF Tick, Nearer, TypeOK
  <2>7. CASE UNCHANGED vars
    BY <2>7 DEF vars
  <2> QED BY <2>1, <2>2, <2>3, <2>4, <2>5, <2>6, <2>7 DEF Next, Poll, Report
<1>2. Init => EndedUnlocked
  BY DEF Init, EndedUnlocked
<1>3. Spec => []EndedUnlocked
  BY <1>2, TypeCorrect, EndedUnlockedInductive, PTL DEF Spec
<1> QED BY <1>1, <1>3, TypeCorrect, PTL DEF Spec, EndedRowsStay

----------------------------------------------------------------------------
(***************************************************************************)
(* Refinement                                                              *)
(***************************************************************************)
LEMMA InitRefines == Init => Ledger!Init
BY DEF Init, Ledger!Init, phase

LEMMA StepRefines == IInv /\ [Next]_vars => [Ledger!Next]_(Ledger!vars)
<1> SUFFICES ASSUME IInv, [Next]_vars
             PROVE  Ledger!Next \/ UNCHANGED <<phase, attempts, handled>>
  BY DEF Ledger!vars
<1>0. TypeOK BY DEF IInv
<1>1. ASSUME NEW j \in Jobs, NEW delay \in 0 .. MaxDelay, Enqueue(j, delay)
      PROVE  Ledger!Admit(j)
  BY <1>0, <1>1 DEF Enqueue, Ledger!Admit, phase, TypeOK
<1>2. ASSUME NEW j \in Jobs, NEW delay \in 0 .. MaxDelay, Defer(j, delay)
      PROVE  UNCHANGED <<phase, attempts, handled>>
  BY <1>2 DEF Defer, phase
<1>3. ASSUME NEW w \in Workers, NEW j \in Jobs, Claim(w, j)
      PROVE  Ledger!Start(j, Exhausted(w))
  <2>1. \A i \in Exhausted(w) : i \in Jobs /\ status[i] = "running" /\ attempts[i] >= MaxAttempts[i]
    BY DEF Exhausted, Expired
  <2>2. /\ attempts[j] < MaxAttempts[j]
        /\ status[j] \in {"pending", "running"}
        /\ j \notin Exhausted(w)
    <3>1. attempts[j] < MaxAttempts[j] /\ (Expired(j) \/ status[j] = "pending")
      BY <1>3 DEF Claim, Eligible
    <3>2. attempts[j] \in Nat /\ MaxAttempts[j] \in Nat
      BY <1>0, RowAssumption DEF TypeOK
    <3>3. j \notin Exhausted(w)
      BY <3>1, <3>2 DEF Exhausted
    <3> QED BY <3>1, <3>3 DEF Expired
  <2>3. status' = [i \in Jobs |-> IF i = j THEN "running"
                                  ELSE IF i \in Exhausted(w) THEN "failed" ELSE status[i]]
    BY <1>3 DEF Claim, Swept
  <2>4. phase' = Ledger!GivenUp(Exhausted(w))
    BY <2>1, <2>2, <2>3 DEF phase, Ledger!GivenUp
  <2>5. Ledger!OutOfStarts(Exhausted(w))
    BY <2>1 DEF Ledger!OutOfStarts, phase
  <2>6. phase[j] = "open"
    BY <2>2 DEF phase
  <2> QED BY <1>3, <2>2, <2>4, <2>5, <2>6 DEF Ledger!Start, Claim
<1>4. ASSUME NEW w \in Workers, SweepOnly(w) PROVE Ledger!GiveUp(Exhausted(w))
  <2>1. \A i \in Exhausted(w) : i \in Jobs /\ status[i] = "running" /\ attempts[i] >= MaxAttempts[i]
    BY DEF Exhausted, Expired
  <2>2. phase' = Ledger!GivenUp(Exhausted(w))
    BY <1>4, <2>1 DEF SweepOnly, Swept, phase, Ledger!GivenUp
  <2> QED BY <1>4, <2>1, <2>2 DEF SweepOnly, Ledger!GiveUp, Ledger!OutOfStarts, phase
<1>5. ASSUME NEW w \in Workers, HandlerReturns(w)
      PROVE  \E j \in Jobs : \E n \in 1 .. attempts[j] : Ledger!Handle(j, n)
  <2>1. claim[w] \in Claims /\ ClaimOK(w)
    BY <1>5, BusyHasClaim DEF HandlerReturns, IInv, ClaimsOK
  <2>2. claim[w].job \in Jobs /\ claim[w].attempt \in 1 .. attempts[claim[w].job]
    BY <2>1 DEF Claims, ClaimOK
  <2>3. Ledger!Handle(claim[w].job, claim[w].attempt)
    BY <1>5, <2>2 DEF HandlerReturns, rows, Ledger!Handle, phase
  <2> QED BY <2>2, <2>3
<1>6. ASSUME NEW w \in Workers, HandlerRaises(w) \/ ReportTooLate(w) \/ Crash(w)
      PROVE  UNCHANGED <<phase, attempts, handled>>
  BY <1>6 DEF HandlerRaises, ReportTooLate, Crash, rows, phase
<1>7. ASSUME NEW w \in Workers, Succeed(w) PROVE \E j \in Jobs : Ledger!Complete(j)
  <2>1. claim[w] \in Claims /\ ClaimOK(w)
    BY <1>7, BusyHasClaim DEF Succeed, IInv, ClaimsOK
  <2>2. /\ claim[w].job \in Jobs /\ status[claim[w].job] = "running"
        /\ <<claim[w].job, attempts[claim[w].job]>> \in handled
    BY <1>7, <2>1 DEF Succeed, Holds, Claims, ClaimOK
  <2>3. phase' = [phase EXCEPT ![claim[w].job] = "done"]
    BY <1>0, <1>7, <2>2 DEF Succeed, Release, phase, TypeOK
  <2>4. Ledger!Complete(claim[w].job)
    BY <1>7, <2>2, <2>3 DEF Succeed, Ledger!Complete, phase
  <2> QED BY <2>2, <2>4
<1>8. ASSUME NEW w \in Workers, Fail(w)
      PROVE  Ledger!Next \/ UNCHANGED <<phase, attempts, handled>>
  <2> DEFINE j == claim[w].job
  <2>1. claim[w] \in Claims /\ j \in Jobs
    BY <1>0, <1>8, BusyHasClaim DEF Fail, Claims
  <2>2. status[j] = "running" /\ attempts[j] = claim[w].attempt
    BY <1>8 DEF Fail, Holds
  <2>3. CASE claim[w].attempt >= MaxAttempts[j]
    <3>1. phase' = Ledger!GivenUp({j})
      BY <1>0, <1>8, <2>1, <2>3 DEF Fail, Release, phase, Ledger!GivenUp, TypeOK
    <3>2. Ledger!GiveUp({j})
      BY <1>8, <2>1, <2>2, <2>3, <3>1 DEF Fail, Ledger!GiveUp, Ledger!OutOfStarts, phase
    <3> QED BY <2>1, <3>2 DEF Ledger!Next
  <2>4. CASE ~(claim[w].attempt >= MaxAttempts[j])
    <3>1. phase' = phase
      BY <1>0, <1>8, <2>1, <2>2, <2>4 DEF Fail, Release, phase, TypeOK
    <3> QED BY <1>8, <3>1 DEF Fail
  <2> QED BY <2>3, <2>4
<1>9. CASE Tick \/ UNCHANGED vars
  BY <1>9 DEF Tick, vars, phase
<1>10. \A w \in Workers : Exhausted(w) \in SUBSET Jobs
  BY DEF Exhausted
<1> QED BY <1>1, <1>2, <1>3, <1>4, <1>5, <1>6, <1>7, <1>8, <1>9, <1>10
        DEF Next, Poll, EndHandler, Report, Ledger!Next

\* The queue implements the ledger: a job succeeds only on account of its newest attempt,
\* which its handler completed, and fails only when its attempts are spent.
THEOREM QueueImplementsLedger == Spec => ImplementsLedger
BY InitRefines, StepRefines, Invariance, PTL DEF Spec, ImplementsLedger, Ledger!Spec

====
