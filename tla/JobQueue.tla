---- MODULE JobQueue ----
(***************************************************************************)
(* jobs/queue.py (JobQueue) with jobs/worker.py (JobWorker): rows of the   *)
(* jobs table, claimed under a lease by workers that poll, run a handler   *)
(* and report. An operation is one SQLite transaction and one action.      *)
(* Times are counted from now: Tick brings every deadline one step nearer. *)
(***************************************************************************)
EXTENDS Integers, FiniteSets

CONSTANTS
  Jobs,         \* idempotency keys; their order is that of the row ids
  Workers,      \* JobWorker instances
  Nobody,       \* locked_by NULL
  IdOf,         \* IdOf[w]: worker_id, "host:pid", which need not be unique
  KindOf,       \* KindOf[j]: the kind of job j
  Handles,      \* Handles[w]: kinds worker w has handlers for
  MaxAttempts,  \* MaxAttempts[j]: the row's max_attempts
  Lease,        \* lease length
  RetryBase,    \* first retry delay
  RetryCap,     \* longest retry delay
  MaxDelay,     \* bound: the furthest run_at of an enqueue
  MaxAge        \* bound: how long a due row's age is told apart

ASSUME RowAssumption ==
  /\ Jobs \subseteq Nat
  /\ MaxAttempts \in [Jobs -> Nat \ {0}]
  /\ DOMAIN KindOf = Jobs

ASSUME WorkerAssumption ==
  /\ DOMAIN Handles = Workers
  /\ DOMAIN IdOf = Workers
  /\ \A w \in Workers : IdOf[w] # Nobody

ASSUME TimingAssumption ==
  /\ Lease \in Nat \ {0}
  /\ RetryBase \in Nat \ {0} /\ RetryCap \in Nat /\ RetryBase <= RetryCap
  /\ MaxDelay \in Nat /\ MaxAge \in Nat

VARIABLES
  status,       \* "absent", "pending", "running", "succeeded", "failed"
  attempts,     \* claims so far
  runAt,        \* time left until run_at, negative when overdue
  lockedUntil,  \* time left of the lease, 0 when it expired or is NULL
  lockedBy,     \* worker_id of the claimant or Nobody
  pc,           \* pc[w]: "idle", "handling", "returned" or "raised"
  claim,        \* claim[w]: the JobClaim worker w is handling
  handled       \* history: <<job, attempt>> whose handler returned normally

vars == <<status, attempts, runAt, lockedUntil, lockedBy, pc, claim, handled>>
rows == <<status, attempts, runAt, lockedUntil, lockedBy>>

Terminal == {"succeeded", "failed"}

\* A claim of job j on its n-th attempt, with the time left of its lease.
JobClaim(j, n, left) == [job |-> j, attempt |-> n, left |-> left]
NoClaim == JobClaim(-1, 0, 0)

\* The least of base * 2^(attempt - 1) and the cap.
RetryDelay(attempt) ==
  LET exponent == IF attempt - 1 <= 30 THEN attempt - 1 ELSE 30
      delay    == RetryBase * 2 ^ exponent
  IN  IF delay \in 0 .. RetryCap THEN delay ELSE RetryCap

Init ==
  /\ status = [j \in Jobs |-> "absent"]
  /\ attempts = [j \in Jobs |-> 0]
  /\ runAt = [j \in Jobs |-> 0]
  /\ lockedUntil = [j \in Jobs |-> 0]
  /\ lockedBy = [j \in Jobs |-> Nobody]
  /\ pc = [w \in Workers |-> "idle"]
  /\ claim = [w \in Workers |-> NoClaim]
  /\ handled = {}

(***************************************************************************)
(* enqueue: a new key inserts a row; a known key is returned as it is,     *)
(* unless it is pending and may be deferred. A different content under the *)
(* same key raises and changes nothing.                                    *)
(***************************************************************************)
Enqueue(j, delay) ==
  /\ status[j] = "absent"
  /\ status' = [status EXCEPT ![j] = "pending"]
  /\ runAt' = [runAt EXCEPT ![j] = delay]
  /\ UNCHANGED <<attempts, lockedUntil, lockedBy, pc, claim, handled>>

\* Mutant of Defer: a running row is deferred too and loses its claim.
DeferAnyOpen(j, delay) ==
  /\ status[j] \in {"pending", "running"}
  /\ runAt[j] < delay
  /\ status' = [status EXCEPT ![j] = "pending"]
  /\ runAt' = [runAt EXCEPT ![j] = delay]
  /\ UNCHANGED <<attempts, lockedUntil, lockedBy, pc, claim, handled>>

Defer(j, delay) ==
  /\ status[j] = "pending"
  /\ runAt[j] < delay
  /\ runAt' = [runAt EXCEPT ![j] = delay]
  /\ UNCHANGED <<status, attempts, lockedUntil, lockedBy, pc, claim, handled>>

(***************************************************************************)
(* claim_due: fail the exhausted expired rows, then claim the first        *)
(* eligible one.                                                           *)
(***************************************************************************)
Expired(j) == status[j] = "running" /\ lockedUntil[j] <= 0

\* Mutant of Exhausted: the sweep asks for more attempts than the limit.
ExhaustedOffByOne(w) ==
  {j \in Jobs : KindOf[j] \in Handles[w] /\ Expired(j) /\ attempts[j] > MaxAttempts[j]}

Exhausted(w) ==
  {j \in Jobs : KindOf[j] \in Handles[w] /\ Expired(j) /\ attempts[j] >= MaxAttempts[j]}

\* Mutant of Eligible: the attempts of an expired row are not counted.
EligibleWithoutLimit(w) ==
  {j \in Jobs : KindOf[j] \in Handles[w]
                /\ (Expired(j) \/ (status[j] = "pending" /\ runAt[j] <= 0))}

Eligible(w) ==
  {j \in Jobs : /\ attempts[j] < MaxAttempts[j]
                /\ KindOf[j] \in Handles[w]
                /\ Expired(j) \/ (status[j] = "pending" /\ runAt[j] <= 0)}

\* Pending rows first, then by run_at, then by id; two rows of the greatest age may be
\* in either order.
Precedes(j, k) ==
  LET rank(i) == IF status[i] = "pending" THEN 0 ELSE 1
  IN  \/ rank(j) < rank(k)
      \/ rank(j) = rank(k) /\ runAt[j] < runAt[k]
      \/ rank(j) = rank(k) /\ runAt[j] = runAt[k] /\ (j <= k \/ runAt[j] = -MaxAge)

Swept(column, gone, value) == [j \in Jobs |-> IF j \in gone THEN value ELSE column[j]]

Claim(w, j) ==
  /\ pc[w] = "idle"
  /\ j \in Eligible(w)
  /\ \A k \in Eligible(w) : Precedes(j, k)
  /\ LET gone == Exhausted(w)
     IN  /\ status' = [Swept(status, gone, "failed") EXCEPT ![j] = "running"]
         /\ lockedUntil' = [Swept(lockedUntil, gone, 0) EXCEPT ![j] = Lease]
         /\ lockedBy' = [Swept(lockedBy, gone, Nobody) EXCEPT ![j] = IdOf[w]]
  /\ attempts' = [attempts EXCEPT ![j] = @ + 1]
  /\ pc' = [pc EXCEPT ![w] = "handling"]
  /\ claim' = [claim EXCEPT ![w] = JobClaim(j, attempts[j] + 1, Lease)]
  /\ UNCHANGED <<runAt, handled>>

\* A poll that claims nothing still fails the exhausted rows.
SweepOnly(w) ==
  /\ pc[w] = "idle"
  /\ Eligible(w) = {}
  /\ Exhausted(w) # {}
  /\ LET gone == Exhausted(w)
     IN  /\ status' = Swept(status, gone, "failed")
         /\ lockedUntil' = Swept(lockedUntil, gone, 0)
         /\ lockedBy' = Swept(lockedBy, gone, Nobody)
  /\ UNCHANGED <<attempts, runAt, pc, claim, handled>>

(***************************************************************************)
(* The handler, and the report of its outcome                              *)
(***************************************************************************)
HandlerReturns(w) ==
  /\ pc[w] = "handling"
  /\ pc' = [pc EXCEPT ![w] = "returned"]
  /\ handled' = handled \cup {<<claim[w].job, claim[w].attempt>>}
  /\ UNCHANGED <<rows, claim>>

HandlerRaises(w) ==
  /\ pc[w] = "handling"
  /\ pc' = [pc EXCEPT ![w] = "raised"]
  /\ UNCHANGED <<rows, claim, handled>>

\* Mutant of Holds: the attempt number is not compared.
HoldsWithoutAttempt(w) ==
  /\ status[claim[w].job] = "running"
  /\ lockedBy[claim[w].job] = IdOf[w]

\* Mutant of Holds: only the attempt number is compared.
HoldsAttemptOnly(w) == attempts[claim[w].job] = claim[w].attempt

\* The WHERE clause of succeed and fail: the row is still on this worker's attempt.
Holds(w) ==
  /\ status[claim[w].job] = "running"
  /\ attempts[claim[w].job] = claim[w].attempt
  /\ lockedBy[claim[w].job] = IdOf[w]

Idle(w) ==
  /\ pc' = [pc EXCEPT ![w] = "idle"]
  /\ claim' = [claim EXCEPT ![w] = NoClaim]

Release(j, outcome) ==
  /\ status' = [status EXCEPT ![j] = outcome]
  /\ lockedUntil' = [lockedUntil EXCEPT ![j] = 0]
  /\ lockedBy' = [lockedBy EXCEPT ![j] = Nobody]

Succeed(w) ==
  /\ pc[w] = "returned"
  /\ Holds(w)
  /\ Release(claim[w].job, "succeeded")
  /\ Idle(w)
  /\ UNCHANGED <<attempts, runAt, handled>>

\* A failure is final on the last attempt and otherwise retried after the backoff.
Fail(w) ==
  /\ pc[w] = "raised"
  /\ Holds(w)
  /\ LET j    == claim[w].job
         last == claim[w].attempt >= MaxAttempts[j]
     IN  /\ Release(j, IF last THEN "failed" ELSE "pending")
         /\ runAt' = [runAt EXCEPT ![j] = IF last THEN 0 ELSE RetryDelay(claim[w].attempt)]
  /\ Idle(w)
  /\ UNCHANGED <<attempts, handled>>

\* The report of an attempt that lost its row updates nothing.
ReportTooLate(w) ==
  /\ pc[w] \in {"returned", "raised"}
  /\ ~Holds(w)
  /\ Idle(w)
  /\ UNCHANGED <<rows, handled>>

\* The worker's task is cancelled or its process dies; the lease stays behind.
Crash(w) ==
  /\ pc[w] # "idle"
  /\ Idle(w)
  /\ UNCHANGED <<rows, handled>>

Nearer(t, floor) == IF t > floor THEN t - 1 ELSE floor

Tick ==
  /\ runAt' = [j \in Jobs |-> IF status[j] \in {"pending", "running"}
                              THEN Nearer(runAt[j], -MaxAge) ELSE runAt[j]]
  /\ lockedUntil' = [j \in Jobs |-> Nearer(lockedUntil[j], 0)]
  /\ claim' = [w \in Workers |-> [claim[w] EXCEPT !.left = Nearer(@, 0)]]
  /\ UNCHANGED <<status, attempts, lockedBy, pc, handled>>

Poll(w) == SweepOnly(w) \/ \E j \in Jobs : Claim(w, j)
EndHandler(w) == HandlerReturns(w) \/ HandlerRaises(w)
Report(w) == Succeed(w) \/ Fail(w) \/ ReportTooLate(w)

Next ==
  \/ \E j \in Jobs, delay \in 0 .. MaxDelay : Enqueue(j, delay) \/ Defer(j, delay)
  \/ \E w \in Workers : Poll(w) \/ EndHandler(w) \/ Report(w) \/ Crash(w)
  \/ Tick

\* Time passes, run() polls until it is stopped, handlers end and their outcome is reported.
Fairness ==
  /\ WF_vars(Tick)
  /\ \A w \in Workers : WF_vars(Poll(w)) /\ WF_vars(EndHandler(w)) /\ WF_vars(Report(w))

Spec == Init /\ [][Next]_vars
FairSpec == Spec /\ Fairness

----------------------------------------------------------------------------
(***************************************************************************)
(* Properties                                                              *)
(***************************************************************************)
\* The columns and the workers' claims have the shape the code gives them.
TypeOK ==
  /\ status \in [Jobs -> {"absent", "pending", "running"} \cup Terminal]
  /\ attempts \in [Jobs -> Nat] /\ \A j \in Jobs : attempts[j] <= MaxAttempts[j]
  /\ runAt \in [Jobs -> Int]
  /\ lockedUntil \in [Jobs -> 0 .. Lease]
  /\ lockedBy \in [Jobs -> {IdOf[w] : w \in Workers} \cup {Nobody}]
  /\ pc \in [Workers -> {"idle", "handling", "returned", "raised"}]
  /\ claim \in [Workers -> [job : Jobs, attempt : Nat, left : 0 .. Lease] \cup {NoClaim}]
  /\ \A w \in Workers : claim[w] = NoClaim <=> pc[w] = "idle"
  /\ handled \subseteq Jobs \X Nat

Holding(w, j) == pc[w] # "idle" /\ claim[w].job = j

\* "An accidental second process cannot claim the same ready row": two workers are in the
\* same job only as different attempts, the older of which has outlived its lease.
OverlapOnlyAfterExpiry ==
  \A j \in Jobs : \A v, w \in Workers :
    (v # w /\ Holding(v, j) /\ Holding(w, j))
      => /\ claim[v].attempt # claim[w].attempt
         /\ claim[v].attempt < claim[w].attempt => claim[v].left = 0

Row(j) == <<status[j], attempts[j], runAt[j], lockedUntil[j], lockedBy[j]>>
EndedStay == \A j \in Jobs : status[j] \in Terminal => UNCHANGED Row(j)

\* "Completed and currently leased work remain immutable": no late report, sweep or repeated
\* enqueue changes any column of a row that has ended.
EndedRowsStay == [][EndedStay]_vars

\* The queue implements the ledger: a job succeeds only on account of its newest attempt and
\* fails only when its attempts are spent.
phase == [j \in Jobs |->
            IF status[j] = "succeeded" THEN "done"
            ELSE IF status[j] = "failed" THEN "given_up"
            ELSE IF status[j] = "absent" THEN "absent" ELSE "open"]

Ledger == INSTANCE JobLedger WITH Limit <- MaxAttempts, started <- attempts

ImplementsLedger == Ledger!Spec

\* Unless an enqueue defers it for ever, every admitted job ends, whatever crashes: each
\* crash costs an attempt, and an expired lease is claimed again or swept.
Deferral == \E j \in Jobs, delay \in 0 .. MaxDelay : Defer(j, delay)
EveryJobEnds ==
  (<>[][~Deferral]_vars) =>
    \A j \in Jobs : (status[j] = "pending") ~> (status[j] \in Terminal)

====
