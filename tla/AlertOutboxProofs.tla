--------------------------- MODULE AlertOutboxProofs ---------------------------
(***************************************************************************)
(* Proofs about AlertOutbox for every set of rows and workers and every    *)
(* delivery policy.                                                        *)
(***************************************************************************)
EXTENDS AlertOutbox, TLAPS

(* An instant that ages stays in its range. *)
LEMMA AgeType ==
    ASSUME NEW low \in Int, NEW high \in Int,
           NEW t \in (low..high) \cup {None}
    PROVE  Age(t, low) \in (low..high) \cup {None}
  BY DEF Age

(* A row with another status, or a last attempt that ages, is a row. *)
LEMMA StatusType ==
    ASSUME NEW row \in OutboxRow, NEW s \in Statuses
    PROVE  [row EXCEPT !.status = s] \in OutboxRow
  BY DEF OutboxRow

LEMMA DeadLetterType ==
    ASSUME NEW row \in OutboxRow
    PROVE  DeadLetter(row) \in OutboxRow
  BY DEF OutboxRow, DeadLetter, Statuses

LEMMA AgedRowType ==
    ASSUME NEW row \in OutboxRow
    PROVE  [row EXCEPT !.last_attempt_at = Age(@, -(MaxLag + MaxBackoff))] \in OutboxRow
  <1> DEFINE t == Age(row.last_attempt_at, -(MaxLag + MaxBackoff))
  <1>1. t \in (-(MaxLag + MaxBackoff)..0) \cup {None}
    BY PolicyAssumption, EnvironmentAssumption DEF OutboxRow, Age
  <1> HIDE DEF t
  <1>2. [row EXCEPT !.last_attempt_at = t] \in OutboxRow
    BY <1>1 DEF OutboxRow
  <1> QED
    BY <1>2 DEF t

LEMMA AgedLeaseType ==
    ASSUME NEW l \in LeaseRow
    PROVE  [l EXCEPT !.expires_at = Age(@, -MaxLag)] \in LeaseRow
  <1>1. l.expires_at # None
    BY NoneAssumption DEF LeaseRow
  <1>2. Age(l.expires_at, -MaxLag) \in -MaxLag..LeaseSeconds
    BY <1>1, PolicyAssumption, EnvironmentAssumption DEF LeaseRow, Age
  <1> QED
    BY <1>2 DEF LeaseRow

LEMMA AgedJobType ==
    ASSUME NEW j \in WorkerJob
    PROVE  [j EXCEPT !.attempted_at = Age(@, -(MaxLag + LeaseSeconds))] \in WorkerJob
  <1>1. j.attempted_at # None
    BY NoneAssumption DEF WorkerJob
  <1>2. Age(j.attempted_at, -(MaxLag + LeaseSeconds)) \in -(MaxLag + LeaseSeconds)..0
    BY <1>1, PolicyAssumption, EnvironmentAssumption DEF WorkerJob, Age
  <1> QED
    BY <1>2 DEF WorkerJob

LEMMA BuriedType ==
    ASSUME NEW d \in [active : Nat, requeued : Nat]
    PROVE  [d EXCEPT !.active = @ + 1] \in [active : Nat, requeued : Nat]
  OBVIOUS

LEMMA AgedScheduleType ==
    ASSUME NEW t \in Schedule
    PROVE  Age(t, -MaxLag) \in Schedule
  BY AgeType, PolicyAssumption, EnvironmentAssumption DEF Schedule

(* A delay of the provider is cut to the policy's bound. *)
LEMMA BoundedRetryAtType ==
    ASSUME NEW hint \in Hints
    PROVE  BoundedRetryAt(hint) \in Schedule
  BY PolicyAssumption, EnvironmentAssumption DEF BoundedRetryAt, AtMost, Schedule

--------------------------------------------------------------------------------
LEMMA InitInvariant == Init => IInv
  <1> SUFFICES ASSUME Init PROVE IInv
    OBVIOUS
  <1>1. TypeOK
    BY PolicyAssumption, EnvironmentAssumption
    DEF Init, TypeOK, OutboxRow, LeaseRow, Schedule, WorkerJob, NewRow, Statuses, Answers
  <1>2. WorkersAgree
    BY DEF Init, WorkersAgree
  <1>3. TablesAgree
    BY DEF Init, TablesAgree, RowAgrees, NewRow
  <1> QED
    BY <1>1, <1>2, <1>3 DEF IInv

(* Every action keeps every value in its range. *)
LEMMA TypeStep == IInv /\ [Next]_vars => TypeOK'
  <1> SUFFICES ASSUME IInv, [Next]_vars PROVE TypeOK'
    OBVIOUS
  <1> USE PolicyAssumption, EnvironmentAssumption, WorkerIdAssumption
  <1>1. TypeOK /\ WorkersAgree
    BY DEF IInv
  <1>2. ASSUME NEW r \in Rows, Enqueue(r) PROVE TypeOK'
    BY <1>1, <1>2 DEF TypeOK, OutboxRow, Enqueue, NewRow, Statuses, locals, world
  <1>3. ASSUME NEW r \in Rows, Requeue(r) PROVE TypeOK'
    BY <1>1, <1>3 DEF TypeOK, OutboxRow, Schedule, Requeue, NewRow, Statuses, locals, world
  <1>4. ASSUME NEW r \in Rows, ProviderAcceptsLate(r) PROVE TypeOK'
    BY <1>1, <1>4 DEF TypeOK, ProviderAcceptsLate, tables, locals
  <1>5. ASSUME NEW w \in Workers, ReadClock(w) PROVE TypeOK'
    BY <1>1, <1>5 DEF TypeOK, ReadClock, tables, world
  <1>6. ASSUME NEW w \in Workers, ClaimNothing(w) PROVE TypeOK'
    <2>1. outbox' \in [Rows -> OutboxRow]
      BY <1>1, <1>6, DeadLetterType DEF TypeOK, ClaimNothing
    <2>2. lease' \in [Rows -> LeaseRow \cup {None}]
      BY <1>1, <1>6 DEF TypeOK, ClaimNothing
    <2>3. retry' \in [Rows -> Schedule]
      BY <1>1, <1>6 DEF TypeOK, ClaimNothing, Schedule
    <2>4. deadLetters' \in [Rows -> [active : Nat, requeued : Nat]]
      BY <1>1, <1>6, BuriedType DEF TypeOK, ClaimNothing
    <2> QED
      BY <1>1, <1>6, <2>1, <2>2, <2>3, <2>4
      DEF TypeOK, ClaimNothing, world
  <1>7. ASSUME NEW w \in Workers, NEW r \in Rows, ClaimRow(w, r) PROVE TypeOK'
    <2>1. outbox[r].attempts + 1 \in 1..MaxAttempts
      BY <1>1, <1>7 DEF TypeOK, OutboxRow, ClaimRow, Claimable, Candidate, Exhausted
    <2>2. outbox' \in [Rows -> OutboxRow]
      <3>1. [status |-> "in_flight", attempts |-> outbox[r].attempts + 1,
             last_attempt_at |-> reading[w]] \in OutboxRow
        BY <1>1, <2>1 DEF TypeOK, OutboxRow, Statuses
      <3> QED
        BY <1>1, <1>7, <3>1, DeadLetterType DEF TypeOK, ClaimRow
    <2>3. lease' \in [Rows -> LeaseRow \cup {None}]
      BY <1>1, <1>7 DEF TypeOK, ClaimRow, LeaseRow
    <2>4. retry' \in [Rows -> Schedule]
      BY <1>1, <1>7 DEF TypeOK, ClaimRow, Schedule
    <2>5. deadLetters' \in [Rows -> [active : Nat, requeued : Nat]]
      BY <1>1, <1>7, BuriedType DEF TypeOK, ClaimRow
    <2>6. job' \in [Workers -> WorkerJob \cup {None}]
      BY <1>1, <1>7, <2>1 DEF TypeOK, ClaimRow, WorkerJob
    <2> QED
      BY <1>1, <1>7, <2>2, <2>3, <2>4, <2>5, <2>6
      DEF TypeOK, ClaimRow, world
  <1>8. ASSUME NEW w \in Workers, ProviderAccepts(w) PROVE TypeOK'
    BY <1>1, <1>8 DEF TypeOK, WorkerJob, ProviderAccepts, tables, WorkersAgree, Answers
  <1>9. ASSUME NEW w \in Workers, Return(w) PROVE TypeOK'
    <2>1. CASE ReturnDelivered(w)
      BY <1>1, <2>1 DEF TypeOK, Schedule, ReturnDelivered, Answered, tables, Answers
    <2>2. CASE ReturnTransportFailure(w)
      BY <1>1, <2>2
      DEF TypeOK, Schedule, WorkerJob, ReturnTransportFailure, LeaveRequest, Answered, tables, Answers, WorkersAgree
    <2>3. ASSUME NEW hint \in Hints, ReturnRetryAfter(w, hint) PROVE TypeOK'
      <3>1. BoundedRetryAt(hint) \in Schedule
        BY BoundedRetryAtType
      <3> QED
        BY <1>1, <2>3, <3>1
        DEF TypeOK, ReturnRetryAfter, Answered, tables, Answers
    <2>4. ASSUME NEW hint \in Hints, ReturnRaises(w, hint) PROVE TypeOK'
      BY <1>1, <2>4 DEF TypeOK, Schedule, ReturnRaises, Leave, tables, world, Answers
    <2>5. CASE ReturnPermanent(w)
      BY <1>1, <2>5 DEF TypeOK, Schedule, ReturnPermanent, Answered, tables, Answers
    <2> QED
      BY <1>9, <2>1, <2>2, <2>3, <2>4, <2>5 DEF Return
  <1>10. ASSUME NEW w \in Workers, Complete(w) PROVE TypeOK'
    <2>1. CASE CompleteLeaseLost(w)
      BY <1>1, <2>1
      DEF TypeOK, Schedule, CompleteLeaseLost, Leave, tables, world, Answers
    <2>2. ASSUME Settles(w) PROVE job[w].row \in Rows
      BY <1>1, <2>2 DEF Settles, WorkersAgree, TypeOK, WorkerJob
    <2>3. ASSUME Settles(w), NEW row \in OutboxRow,
                 outbox' = [outbox EXCEPT ![job[w].row] = row],
                 retry' \in [Rows -> Schedule],
                 deadLetters' \in [Rows -> [active : Nat, requeued : Nat]]
          PROVE  TypeOK'
      <3>1. phase' \in [Workers -> {"idle", "claiming", "sending", "completing", "raised"}]
        BY <1>1, <2>3 DEF TypeOK, Settles, Leave
      <3>2. reading' \in [Workers -> -MaxLag..0] /\ retry_at' \in [Workers -> Schedule]
        BY <1>1, <2>3 DEF TypeOK, Settles, Leave, Schedule
      <3>3. job' \in [Workers -> WorkerJob \cup {None}] /\ answer' \in [Workers -> Answers]
        BY <1>1, <2>3 DEF TypeOK, Settles, Leave, Answers
      <3>4. outbox' \in [Rows -> OutboxRow] /\ lease' \in [Rows -> LeaseRow \cup {None}]
        BY <1>1, <2>3 DEF TypeOK, Settles
      <3> QED
        BY <1>1, <2>3, <3>1, <3>2, <3>3, <3>4 DEF TypeOK, Settles, world
    <2>4. CASE CompleteDelivered(w)
      <3>1. [outbox[job[w].row] EXCEPT !.status = "delivered"] \in OutboxRow
        BY <1>1, <2>2, <2>4, StatusType DEF TypeOK, CompleteDelivered, Statuses
      <3> QED
        BY <1>1, <2>3, <2>4, <3>1 DEF TypeOK, CompleteDelivered, Schedule
    <2>5. CASE CompleteFailed(w)
      <3>1. [outbox[job[w].row] EXCEPT !.status = "failed"] \in OutboxRow
        BY <1>1, <2>2, <2>5, StatusType DEF TypeOK, CompleteFailed, Statuses
      <3> QED
        BY <1>1, <2>3, <2>5, <3>1 DEF TypeOK, CompleteFailed
    <2>6. CASE CompleteDeadLetter(w)
      <3>1. DeadLetter(outbox[job[w].row]) \in OutboxRow
        BY <1>1, <2>2, <2>6, DeadLetterType DEF TypeOK, CompleteDeadLetter
      <3>2. deadLetters' \in [Rows -> [active : Nat, requeued : Nat]]
        BY <1>1, <2>2, <2>6 DEF TypeOK, CompleteDeadLetter
      <3> QED
        BY <1>1, <2>3, <2>6, <3>1, <3>2 DEF TypeOK, CompleteDeadLetter, Schedule
    <2> QED
      BY <1>10, <2>1, <2>4, <2>5, <2>6 DEF Complete
  <1>11. ASSUME NEW w \in Workers, Crash(w) PROVE TypeOK'
    BY <1>1, <1>11 DEF TypeOK, Schedule, WorkerJob, Crash, LeaveRequest, Leave, tables, Answers, WorkersAgree
  <1>12. ASSUME NEW w \in Workers, Restart(w) PROVE TypeOK'
    BY <1>1, <1>12 DEF TypeOK, Schedule, Restart, Leave, tables, world, Answers
  <1>13. ASSUME Tick PROVE TypeOK'
    <2>1. outbox' \in [Rows -> OutboxRow]
      BY <1>1, <1>13, AgedRowType DEF TypeOK, Tick
    <2>2. lease' \in [Rows -> LeaseRow \cup {None}]
      BY <1>1, <1>13, AgedLeaseType DEF TypeOK, Tick
    <2>3. retry' \in [Rows -> Schedule]
      BY <1>1, <1>13, AgedScheduleType DEF TypeOK, Tick
    <2>4. reading' \in [Workers -> -MaxLag..0]
      BY <1>1, <1>13 DEF TypeOK, Tick, Pending
    <2>5. job' \in [Workers -> WorkerJob \cup {None}]
      BY <1>1, <1>13, AgedJobType DEF TypeOK, Tick
    <2>6. retry_at' \in [Workers -> Schedule]
      BY <1>1, <1>13, AgedScheduleType DEF TypeOK, Tick
    <2> QED
      BY <1>1, <1>13, <2>1, <2>2, <2>3, <2>4, <2>5, <2>6
      DEF TypeOK, Tick, world
  <1>14. CASE UNCHANGED vars
    BY <1>1, <1>14 DEF TypeOK, vars, tables, locals, world
  <1> QED
    BY <1>2, <1>3, <1>4, <1>5, <1>6, <1>7, <1>8, <1>9, <1>10, <1>11, <1>12, <1>13,
       <1>14
    DEF Next, Worker, Claim

--------------------------------------------------------------------------------
(* A worker has a job, and an answer that fits, at the steps that need one. *)
LEMMA WorkersAgreeStep == IInv /\ [Next]_vars => WorkersAgree'
  <1> SUFFICES ASSUME IInv, [Next]_vars PROVE WorkersAgree'
    OBVIOUS
  <1>1. TypeOK /\ WorkersAgree
    BY DEF IInv
  <1>2. CASE UNCHANGED <<phase, job, answer>>
    BY <1>1, <1>2 DEF WorkersAgree
  <1>3. ASSUME NEW w \in Workers, ReadClock(w) PROVE WorkersAgree'
    BY <1>1, <1>3 DEF WorkersAgree, ReadClock, TypeOK
  <1>4. ASSUME NEW w \in Workers, Claim(w) PROVE WorkersAgree'
    <2>1. CASE ClaimNothing(w)
      BY <1>1, <2>1 DEF WorkersAgree, ClaimNothing, TypeOK
    <2>2. ASSUME NEW r \in Rows, ClaimRow(w, r) PROVE WorkersAgree'
      <3> DEFINE j == [row |-> r, attempts |-> outbox[r].attempts + 1,
                       attempted_at |-> reading[w]]
      <3>1. outbox[r].attempts + 1 \in Nat /\ reading[w] \in Int
        BY <1>1, PolicyAssumption, EnvironmentAssumption DEF TypeOK, OutboxRow
      <3>2. j \in Job
        BY <3>1 DEF Job
      <3>3. j # None
        BY <3>2, NoneAssumption
      <3>4. job' = [job EXCEPT ![w] = j]
        BY <2>2 DEF ClaimRow
      <3> HIDE DEF j
      <3> QED
        BY <1>1, <2>2, <3>3, <3>4 DEF WorkersAgree, ClaimRow, TypeOK
    <2> QED
      BY <1>4, <2>1, <2>2 DEF Claim
  <1>5. ASSUME NEW w \in Workers, ProviderAccepts(w) PROVE WorkersAgree'
    BY <1>1, <1>5 DEF WorkersAgree, ProviderAccepts, TypeOK
  <1>6. ASSUME NEW w \in Workers, NEW a \in {"delivered", "retryable", "permanent"},
               NEW s \in Schedule, Answered(w, a, s)
        PROVE  WorkersAgree'
    BY <1>1, <1>6 DEF WorkersAgree, Answered, TypeOK
  <1>7. ASSUME NEW w \in Workers, NEW to \in {"idle", "raised"}, Leave(w, to)
        PROVE  WorkersAgree'
    BY <1>1, <1>7 DEF WorkersAgree, Leave, TypeOK
  <1>8. ASSUME NEW w \in Workers, Return(w) PROVE WorkersAgree'
    <2>1. None \in Schedule
      BY DEF Schedule
    <2>2. ASSUME NEW hint \in Hints, ReturnRetryAfter(w, hint) PROVE WorkersAgree'
      BY <1>6, <2>2, BoundedRetryAtType DEF ReturnRetryAfter
    <2> QED
      BY <1>6, <1>7, <1>8, <2>1, <2>2
      DEF Return, ReturnDelivered, ReturnTransportFailure, ReturnRaises, ReturnPermanent
  <1>9. ASSUME Tick PROVE WorkersAgree'
    <2>1. \A w \in Workers : job'[w] = None <=> job[w] = None
      <3> SUFFICES ASSUME NEW w \in Workers, job[w] # None PROVE job'[w] # None
        BY <1>1, <1>9 DEF Tick
      <3>1. job'[w] \in WorkerJob
        BY <1>1, <1>9, AgedJobType DEF Tick, TypeOK
      <3> QED
        BY <3>1, NoneAssumption DEF WorkerJob, Job
    <2> QED
      BY <1>1, <1>9, <2>1 DEF WorkersAgree, Tick
  <1> QED
    BY <1>2, <1>3, <1>4, <1>5, <1>7, <1>8, <1>9
    DEF Next, Worker, Complete, CompleteLeaseLost, CompleteDelivered, CompleteFailed,
        CompleteDeadLetter, Settles, Crash, Restart, Enqueue, Requeue,
        ProviderAcceptsLate, locals, vars

--------------------------------------------------------------------------------
(* A row that a claim scans without taking it keeps its tables in step,    *)
(* be it buried, relieved of a schedule or left alone.                     *)
LEMMA ScannedRowAgrees ==
    ASSUME NEW q \in Rows, NEW S \in SUBSET Rows, NEW at \in Int,
           TypeOK, RowAgrees(q),
           outbox'[q] = IF q \in Buried(S, at) THEN DeadLetter(outbox[q]) ELSE outbox[q],
           lease'[q] = IF Expired(q, at) THEN None ELSE lease[q],
           retry'[q] = IF q \in Buried(S, at) \cup Lapsed(S, at) THEN None ELSE retry[q],
           deadLetters'[q] = IF q \in Buried(S, at)
                             THEN [deadLetters[q] EXCEPT !.active = @ + 1]
                             ELSE deadLetters[q]
    PROVE  RowAgrees(q)'
  <1>1. CASE q \in Buried(S, at)
    <2>1. outbox[q].status \in Open /\ ~Leased(q, at)
      BY <1>1 DEF Buried, Exhausted, Candidate
    <2>2. lease'[q] = None
      <3>1. CASE lease[q] = None
        BY <3>1
      <3>2. CASE lease[q] # None
        <4>1. lease[q].expires_at \in Int
          BY <3>2, PolicyAssumption, EnvironmentAssumption DEF TypeOK, LeaseRow
        <4>2. Expired(q, at)
          BY <2>1, <3>2, <4>1 DEF Leased, Expired
        <4> QED
          BY <4>2
      <3> QED
        BY <3>1, <3>2
    <2>3. outbox'[q].status = "dead_letter" /\ outbox'[q].attempts = outbox[q].attempts
      BY <1>1 DEF DeadLetter, TypeOK, OutboxRow
    <2>4. deadLetters'[q].active = 1
      BY <1>1, <2>1 DEF RowAgrees, Open, TypeOK
    <2> QED
      BY <1>1, <2>2, <2>3, <2>4 DEF RowAgrees
  <1>2. CASE q \notin Buried(S, at)
    BY <1>2 DEF RowAgrees
  <1> QED
    BY <1>1, <1>2

(* The four tables agree after every step. *)
LEMMA TablesAgreeStep == IInv /\ [Next]_vars => TablesAgree'
  <1> SUFFICES ASSUME IInv, [Next]_vars PROVE TablesAgree'
    OBVIOUS
  <1>1. TypeOK /\ WorkersAgree /\ TablesAgree
    BY DEF IInv
  <1>2. CASE UNCHANGED tables
    BY <1>1, <1>2 DEF TablesAgree, RowAgrees, tables
  <1>3. ASSUME NEW r \in Rows, Enqueue(r) PROVE TablesAgree'
    BY <1>1, <1>3 DEF TablesAgree, RowAgrees, Enqueue, NewRow, TypeOK
  <1>4. ASSUME NEW r \in Rows, Requeue(r) PROVE TablesAgree'
    BY <1>1, <1>4 DEF TablesAgree, RowAgrees, Requeue, NewRow, TypeOK
  <1>5. ASSUME NEW w \in Workers, Claim(w) PROVE TablesAgree'
    <2>1. reading[w] \in Int
      BY <1>1, EnvironmentAssumption DEF TypeOK
    <2>2. CASE ClaimNothing(w)
      BY <1>1, <2>1, <2>2, ScannedRowAgrees DEF TablesAgree, ClaimNothing
    <2>3. ASSUME NEW r \in Rows, ClaimRow(w, r) PROVE TablesAgree'
      <3> DEFINE scanned == {q \in Rows : q <= r}
      <3>1. ASSUME NEW q \in Rows, q # r PROVE RowAgrees(q)'
        BY <1>1, <2>1, <2>3, <3>1, ScannedRowAgrees DEF TablesAgree, ClaimRow
      <3>2. outbox[r].status \in Open /\ ~Deferred(r, reading[w])
        BY <2>3 DEF ClaimRow, Claimable, Candidate
      <3>3. retry'[r] = None
        <4>1. r \in scanned
          BY RowsAssumption
        <4>2. retry[r] # None => r \in Lapsed(scanned, reading[w])
          BY <2>3, <4>1 DEF ClaimRow, Claimable, Lapsed
        <4> QED
          BY <2>3, <4>2 DEF ClaimRow
      <3>4. deadLetters'[r].active = 0
        <4>1. deadLetters'[r] = deadLetters[r]
          BY <2>3 DEF ClaimRow, Claimable, Buried
        <4> QED
          BY <1>1, <3>2, <4>1 DEF TablesAgree, RowAgrees, Open
      <3>5. /\ outbox'[r].status = "in_flight" /\ outbox'[r].attempts = outbox[r].attempts + 1
            /\ outbox'[r].last_attempt_at = reading[w]
        BY <2>3 DEF ClaimRow
      <3>6. outbox[r].attempts + 1 > 0 /\ reading[w] # None
        BY <1>1, <2>1, PolicyAssumption, NoneAssumption DEF TypeOK, OutboxRow
      <3>7. RowAgrees(r)'
        BY <3>3, <3>4, <3>5, <3>6 DEF RowAgrees
      <3> QED
        BY <3>1, <3>7 DEF TablesAgree
    <2> QED
      BY <1>5, <2>2, <2>3 DEF Claim
  <1>6. ASSUME NEW w \in Workers, Settles(w) PROVE job[w].row \in Rows /\ lease[job[w].row] # None
    BY <1>1, <1>6 DEF Settles, OwnsLease, WorkersAgree, TypeOK, WorkerJob
  <1>7. ASSUME NEW w \in Workers, CompleteDelivered(w) PROVE TablesAgree'
    <2>0. PICK r \in Rows : r = job[w].row
      BY <1>6, <1>7 DEF CompleteDelivered
    <2>1. Settles(w) /\ r = job[w].row /\ lease[r] # None
      BY <1>6, <1>7, <2>0 DEF CompleteDelivered
    <2>2. outbox'[r].status = "delivered"
      BY <1>1, <1>7, <2>1 DEF CompleteDelivered, TypeOK, OutboxRow
    <2>3. lease'[r] = None /\ retry'[r] = None
      BY <1>1, <1>7, <2>1 DEF CompleteDelivered, Settles, TypeOK
    <2>4. RowAgrees(r)'
      BY <1>1, <1>7, <2>1, <2>2, <2>3 DEF TablesAgree, RowAgrees, CompleteDelivered
    <2>5. ASSUME NEW q \in Rows, q # r PROVE RowAgrees(q)'
      BY <1>1, <1>7, <2>1, <2>5 DEF TablesAgree, RowAgrees, CompleteDelivered, Settles, TypeOK
    <2> QED
      BY <2>4, <2>5 DEF TablesAgree
  <1>8. ASSUME NEW w \in Workers, CompleteFailed(w) PROVE TablesAgree'
    <2>0. PICK r \in Rows : r = job[w].row
      BY <1>6, <1>8 DEF CompleteFailed
    <2>1. Settles(w) /\ r = job[w].row /\ lease[r] # None
      BY <1>6, <1>8, <2>0 DEF CompleteFailed
    <2>2. outbox[r].attempts < MaxAttempts
      BY <1>1, <1>8, <2>1, PolicyAssumption DEF CompleteFailed, Hopeless, TypeOK, OutboxRow
    <2>3. /\ outbox'[r].status = "failed" /\ outbox'[r].attempts = outbox[r].attempts
          /\ outbox'[r].last_attempt_at = outbox[r].last_attempt_at
      BY <1>1, <1>8, <2>1 DEF CompleteFailed, TypeOK, OutboxRow
    <2>4. lease'[r] = None
      BY <1>1, <2>1 DEF Settles, TypeOK
    <2>5. RowAgrees(r)'
      BY <1>1, <1>8, <2>1, <2>2, <2>3, <2>4 DEF TablesAgree, RowAgrees, CompleteFailed
    <2>6. ASSUME NEW q \in Rows, q # r PROVE RowAgrees(q)'
      BY <1>1, <1>8, <2>1, <2>6 DEF TablesAgree, RowAgrees, CompleteFailed, Settles, TypeOK
    <2> QED
      BY <2>5, <2>6 DEF TablesAgree
  <1>9. ASSUME NEW w \in Workers, CompleteDeadLetter(w) PROVE TablesAgree'
    <2>0. PICK r \in Rows : r = job[w].row
      BY <1>6, <1>9 DEF CompleteDeadLetter
    <2>1. Settles(w) /\ r = job[w].row /\ lease[r] # None
      BY <1>6, <1>9, <2>0 DEF CompleteDeadLetter
    <2>2. outbox'[r].status = "dead_letter"
      BY <1>1, <1>9, <2>1 DEF CompleteDeadLetter, DeadLetter, TypeOK, OutboxRow
    <2>3. lease'[r] = None /\ retry'[r] = None
      BY <1>1, <1>9, <2>1 DEF CompleteDeadLetter, Settles, TypeOK
    <2>4. deadLetters'[r].active = 1
      BY <1>1, <1>9, <2>1 DEF CompleteDeadLetter, TablesAgree, RowAgrees, TypeOK
    <2>5. RowAgrees(r)'
      BY <2>2, <2>3, <2>4 DEF RowAgrees
    <2>6. ASSUME NEW q \in Rows, q # r PROVE RowAgrees(q)'
      BY <1>1, <1>9, <2>1, <2>6 DEF TablesAgree, RowAgrees, CompleteDeadLetter, Settles, TypeOK
    <2> QED
      BY <2>5, <2>6 DEF TablesAgree
  <1>10. ASSUME Tick PROVE TablesAgree'
    <2> SUFFICES ASSUME NEW r \in Rows PROVE RowAgrees(r)'
      BY DEF TablesAgree
    <2>1. lease'[r] # None => lease[r] # None
      BY <1>10 DEF Tick
    <2>2. retry'[r] # None => retry[r] # None
      BY <1>10 DEF Tick, Age
    <2>3. outbox'[r].status = outbox[r].status /\ outbox'[r].attempts = outbox[r].attempts
      BY <1>1, <1>10 DEF Tick, TypeOK, OutboxRow
    <2>4. outbox[r].last_attempt_at # None => outbox'[r].last_attempt_at # None
      <3>1. /\ outbox[r] \in OutboxRow
            /\ outbox'[r].last_attempt_at = Age(outbox[r].last_attempt_at, -(MaxLag + MaxBackoff))
        BY <1>1, <1>10 DEF Tick, TypeOK, OutboxRow
      <3> QED
        BY <3>1, NoneAssumption DEF OutboxRow, Age
    <2>5. deadLetters' = deadLetters
      BY <1>10 DEF Tick
    <2> QED
      BY <1>1, <2>1, <2>2, <2>3, <2>4, <2>5 DEF TablesAgree, RowAgrees
  <1> QED
    BY <1>2, <1>3, <1>4, <1>5, <1>7, <1>8, <1>9, <1>10
    DEF Next, Worker, Complete, CompleteLeaseLost, Return, ReturnDelivered,
        ReturnTransportFailure, ReturnRetryAfter, ReturnRaises, ReturnPermanent, Answered,
        ReadClock, ProviderAccepts, ProviderAcceptsLate, Crash, Restart, vars

--------------------------------------------------------------------------------
(* The backoff of an attempt is a delay. *)
LEMMA DelayType ==
    ASSUME NEW n \in 1..MaxAttempts
    PROVE  Delay(n) \in Nat
  BY BackoffAssumption, PolicyAssumption DEF Delay, AtMost

(* Of a row it scans without taking it, a claim drops only a schedule that *)
(* is over, and it does not move a failed row at all.                      *)
LEMMA ScannedDelays ==
    ASSUME NEW q \in Rows, NEW S \in SUBSET Rows, NEW at \in Int, at <= 0,
           TypeOK, RowAgrees(q),
           outbox'[q] = IF q \in Buried(S, at) THEN DeadLetter(outbox[q]) ELSE outbox[q],
           retry'[q] = IF q \in Buried(S, at) \cup Lapsed(S, at) THEN None ELSE retry[q]
    PROVE  DelaysKept(q)
  <1>1. outbox[q].status = "failed" => q \notin Buried(S, at)
    BY PolicyAssumption DEF RowAgrees, Buried, Exhausted, TypeOK, OutboxRow
  <1>2. retry[q] # None => retry[q] \in Int
    BY PolicyAssumption, EnvironmentAssumption DEF TypeOK, Schedule
  <1>3. q \in Lapsed(S, at) => retry[q] <= 0
    BY <1>2 DEF Lapsed, Deferred
  <1> QED
    BY <1>1, <1>3 DEF DelaysKept, RowAgrees

(* A retry waits for the provider's schedule and for its own backoff. *)
LEMMA DelaysKeptStep == IInv /\ [Next]_vars => \A r \in Rows : DelaysKept(r)
  <1> SUFFICES ASSUME IInv, [Next]_vars, NEW r \in Rows PROVE DelaysKept(r)
    OBVIOUS
  <1>1. TypeOK /\ WorkersAgree /\ RowAgrees(r)
    BY DEF IInv, TablesAgree
  <1>2. CASE UNCHANGED <<outbox, retry>>
    BY <1>2 DEF DelaysKept
  <1>3. ASSUME NEW q \in Rows, Enqueue(q) \/ Requeue(q) PROVE DelaysKept(r)
    BY <1>1, <1>3 DEF DelaysKept, Enqueue, Requeue, RowAgrees, TypeOK
  <1>4. ASSUME NEW w \in Workers, ClaimNothing(w) PROVE DelaysKept(r)
    <2>1. reading[w] \in Int /\ reading[w] <= 0
      BY <1>1, EnvironmentAssumption DEF TypeOK
    <2> QED
      BY <1>1, <1>4, <2>1, ScannedDelays DEF ClaimNothing
  <1>5. ASSUME NEW w \in Workers, NEW q \in Rows, ClaimRow(w, q) PROVE DelaysKept(r)
    <2>1. reading[w] \in Int /\ reading[w] <= 0
      BY <1>1, EnvironmentAssumption DEF TypeOK
    <2>2. CASE r # q
      BY <1>1, <1>5, <2>1, <2>2, ScannedDelays DEF ClaimRow
    <2>3. CASE r = q
      <3>1. ~Deferred(r, reading[w]) /\ RetryIsDue(r, reading[w])
        BY <1>5, <2>3 DEF ClaimRow, Claimable
      <3>2. retry[r] # None => retry[r] <= 0
        BY <1>1, <2>1, <3>1, PolicyAssumption, EnvironmentAssumption
        DEF Deferred, TypeOK, Schedule
      <3>3. outbox'[r].status = "in_flight"
        BY <1>5, <2>3 DEF ClaimRow
      <3>4. ASSUME outbox[r].status = "failed"
            PROVE  outbox[r].last_attempt_at + Delay(outbox[r].attempts) <= 0
        <4>1. outbox[r].attempts \in 1..MaxAttempts /\ outbox[r].last_attempt_at \in Int
          BY <1>1, <3>4, PolicyAssumption, EnvironmentAssumption
          DEF TypeOK, OutboxRow, RowAgrees
        <4>2. Delay(outbox[r].attempts) \in Nat
          BY <4>1, DelayType
        <4>3. reading[w] >= outbox[r].last_attempt_at + Delay(outbox[r].attempts)
          BY <1>1, <3>1, <3>4, <4>1 DEF RetryIsDue, RowAgrees
        <4> QED
          BY <2>1, <4>1, <4>2, <4>3
      <3> QED
        BY <3>2, <3>3, <3>4 DEF DelaysKept
    <2> QED
      BY <2>2, <2>3
  <1>6. ASSUME NEW w \in Workers,
               CompleteDelivered(w) \/ CompleteFailed(w) \/ CompleteDeadLetter(w)
        PROVE  DelaysKept(r)
    <2>1. /\ job[w].row \in Rows /\ lease[job[w].row] # None
          /\ outbox[job[w].row].status = "in_flight"
      BY <1>1, <1>6
      DEF CompleteDelivered, CompleteFailed, CompleteDeadLetter, Settles, OwnsLease,
          WorkersAgree, TypeOK, WorkerJob, IInv, TablesAgree, RowAgrees
    <2>2. CASE r = job[w].row
      BY <1>1, <2>1, <2>2 DEF DelaysKept, RowAgrees
    <2>3. CASE r # job[w].row
      <3>1. outbox'[r] = outbox[r] /\ retry'[r] = retry[r]
        BY <1>1, <1>6, <2>1, <2>3
        DEF CompleteDelivered, CompleteFailed, CompleteDeadLetter, TypeOK
      <3> QED
        BY <3>1 DEF DelaysKept
    <2> QED
      BY <2>2, <2>3
  <1>7. CASE Tick
    <2>1. outbox'[r].status = outbox[r].status
      BY <1>1, <1>7 DEF Tick, TypeOK, OutboxRow
    <2>2. retry'[r] = Age(retry[r], -MaxLag)
      BY <1>7 DEF Tick
    <2>3. retry[r] # None => retry'[r] # None
      BY <1>1, <2>2, NoneAssumption, PolicyAssumption, EnvironmentAssumption
      DEF TypeOK, Schedule, Age
    <2> QED
      BY <2>1, <2>3 DEF DelaysKept
  <1> QED
    BY <1>2, <1>3, <1>4, <1>5, <1>6, <1>7
    DEF Next, Worker, Claim, Complete, CompleteLeaseLost, Return, ReturnDelivered,
        ReturnTransportFailure, ReturnRetryAfter, ReturnRaises, ReturnPermanent, Answered,
        ReadClock, ProviderAccepts, ProviderAcceptsLate, Crash, Restart, tables, vars

--------------------------------------------------------------------------------
LEMMA IInvStep == IInv /\ [Next]_vars => IInv'
  BY TypeStep, WorkersAgreeStep, TablesAgreeStep DEF IInv

(* Every reachable state of the outbox satisfies the inductive invariant. *)
THEOREM IInvariant == Spec => []IInv
  BY InitInvariant, IInvStep, PTL DEF Spec

(* Every value keeps its range: attempts within the budget, leases within  *)
(* lease_seconds, schedules within max_retry_after_seconds.                *)
THEOREM TypeCorrect == Spec => []TypeOK
  <1>1. IInv => TypeOK
    BY DEF IInv
  <1> QED
    BY <1>1, IInvariant, PTL

(* The outbox, lease, retry and dead-letter tables agree after every       *)
(* transaction of claim_alert_outbox, complete_alert_delivery,             *)
(* requeue_alert_dead_letter and save_alert_transition.                    *)
THEOREM TablesAlwaysAgree == Spec => []TablesAgree
  <1>1. IInv => TablesAgree
    BY DEF IInv
  <1> QED
    BY <1>1, IInvariant, PTL

(* No retry comes before the provider's schedule or before its own backoff *)
(* (claim_alert_outbox, _retry_is_due, _delete_retry_schedule).            *)
THEOREM RetriesWait == Spec => BothDelaysKept
  BY IInvariant, DelaysKeptStep, PTL DEF Spec, BothDelaysKept

--------------------------------------------------------------------------------
(* Nobody waits longer than the settings say. *)
LEMMA WaitType ==
    /\ LongestWait \in Nat
    /\ LeaseSeconds <= LongestWait /\ MaxRetryAfter <= LongestWait
    /\ MaxBackoff <= LongestWait
  BY PolicyAssumption DEF LongestWait, AtLeast

LEMMA WaitIsOver ==
    ASSUME IInv, NEW r \in Rows, outbox[r].status \in Open,
           NEW at \in Int, at >= LongestWait
    PROVE  Takes(r, at)
  <1> USE DEF IInv
  <1>1. ~Leased(r, at)
    BY WaitType, PolicyAssumption, EnvironmentAssumption DEF TypeOK, LeaseRow, Leased
  <1>2. ~Deferred(r, at)
    BY WaitType, PolicyAssumption, EnvironmentAssumption DEF TypeOK, Schedule, Deferred
  <1>3. RetryIsDue(r, at)
    <2>1. CASE outbox[r].last_attempt_at = None \/ outbox[r].attempts = 0
      BY <2>1 DEF RetryIsDue
    <2>2. CASE outbox[r].last_attempt_at # None /\ outbox[r].attempts # 0
      <3> DEFINE n == outbox[r].attempts
                 t == outbox[r].last_attempt_at
      <3>1. n \in 1..MaxAttempts /\ t \in -(MaxLag + MaxBackoff)..0
        BY <2>2, PolicyAssumption DEF TypeOK, OutboxRow
      <3>2. Delay(n) \in Nat /\ Delay(n) <= MaxBackoff
        BY <3>1, BackoffAssumption, PolicyAssumption DEF Delay, AtMost
      <3>3. at >= t + Delay(n)
        BY <3>1, <3>2, WaitType, PolicyAssumption, EnvironmentAssumption
      <3> QED BY <3>3 DEF RetryIsDue
    <2> QED BY <2>1, <2>2
  <1> QED BY <1>1, <1>2, <1>3 DEF Takes, Claimable, Candidate

(* For any settings an open row that is left alone is taken by every claim *)
(* from LongestWait on: what a lease, a Retry-After and the backoff hold   *)
(* back is bounded by the policy (claim_alert_outbox).                     *)
THEOREM NobodyIsLockedOut ==
    Spec => [](/\ NeverLockedOut
               /\ \A r \in Rows : \A at \in Int :
                     outbox[r].status \in Open /\ at >= LongestWait => Takes(r, at))
  <1>1. IInv => /\ NeverLockedOut
                /\ \A r \in Rows : \A at \in Int :
                      outbox[r].status \in Open /\ at >= LongestWait => Takes(r, at)
    BY WaitIsOver, WaitType DEF NeverLockedOut
  <1> QED
    BY <1>1, IInvariant, PTL

--------------------------------------------------------------------------------
(* Fencing.  The processes have ids of their own from here on. *)

LEMMA FencedInit == Init => FencedInv
  <1> SUFFICES ASSUME Init PROVE FencedInv
    OBVIOUS
  <1>1. \A w \in Workers : job[w] = None
    BY DEF Init
  <1> QED
    BY <1>1, InitInvariant DEF FencedInv, ExclusiveWindow, InWindow, LeaseOfLatestAttempt

(* A worker whose job, row and lease a step leaves alone stays fenced. *)
LEMMA FencedFrame ==
    ASSUME NEW v \in Workers, FencedInv, job[v] # None => job'[v] = job[v],
           job'[v] # None => job[v] # None,
           job[v] # None =>
              /\ outbox'[job[v].row].attempts = outbox[job[v].row].attempts
              /\ lease'[job[v].row] = lease[job[v].row]
    PROVE  (InWindow(v) => HoldsItsLease(v))' /\ (job[v] # None => LeaseIsOfItsAttempt(v))'
  BY DEF FencedInv, ExclusiveWindow, LeaseOfLatestAttempt, InWindow, WindowEnd, HoldsItsLease,
         LeaseIsOfItsAttempt

(* Of a claim a worker notices at most that a lease of its row is gone     *)
(* which had expired, or that another worker's lease is there.             *)
LEMMA FencedClaim ==
    ASSUME NEW v \in Workers, NEW at \in Int, at <= 0, FencedInv, job[v] # None,
           job'[v] = job[v],
           \/ lease'[job[v].row] = lease[job[v].row]
           \/ Expired(job[v].row, at) /\ lease'[job[v].row] = None,
           outbox'[job[v].row].attempts = outbox[job[v].row].attempts
    PROVE  (InWindow(v) => HoldsItsLease(v))' /\ (job[v] # None => LeaseIsOfItsAttempt(v))'
  <1>1. job[v].attempted_at \in Int /\ LeaseSeconds \in Int
    BY PolicyAssumption, EnvironmentAssumption DEF FencedInv, IInv, TypeOK, WorkerJob
  <1>2. InWindow(v) => ~Expired(job[v].row, at)
    BY <1>1 DEF FencedInv, ExclusiveWindow, InWindow, HoldsItsLease, WindowEnd, Expired
  <1> QED
    BY <1>2 DEF FencedInv, ExclusiveWindow, LeaseOfLatestAttempt, InWindow, WindowEnd,
                HoldsItsLease, LeaseIsOfItsAttempt

(* Every step keeps the workers fenced: proved for one worker v at a time. *)
LEMMA FencedStep ==
    ASSUME UniqueIds
    PROVE  FencedInv /\ [Next]_vars => FencedInv'
  <1> SUFFICES ASSUME FencedInv, [Next]_vars, NEW v \in Workers
               PROVE  /\ (InWindow(v) => HoldsItsLease(v))'
                      /\ (job[v] # None => LeaseIsOfItsAttempt(v))'
    BY IInvStep DEF FencedInv, ExclusiveWindow, LeaseOfLatestAttempt
  <1> DEFINE Goal == /\ (InWindow(v) => HoldsItsLease(v))'
                     /\ (job[v] # None => LeaseIsOfItsAttempt(v))'
  <1>1. TypeOK /\ WorkersAgree /\ TablesAgree /\ ExclusiveWindow /\ LeaseOfLatestAttempt
    BY DEF FencedInv, IInv
  <1>2. job[v] # None => job[v].row \in Rows
    BY <1>1 DEF TypeOK, WorkerJob
  <1>3. CASE UNCHANGED <<outbox, lease, job>>
    BY <1>3, FencedFrame
  <1>4. ASSUME NEW r \in Rows, Enqueue(r) PROVE Goal
    <2>1. lease[r] = None
      BY <1>1, <1>4 DEF TablesAgree, RowAgrees, Enqueue
    <2>2. lease' = lease /\ job' = job
      BY <1>4 DEF Enqueue, locals
    <2>3. CASE job[v] # None /\ job[v].row = r
      BY <1>1, <2>1, <2>2, <2>3
      DEF ExclusiveWindow, InWindow, HoldsItsLease, LeaseIsOfItsAttempt, WindowEnd
    <2>4. CASE job[v] # None => job[v].row # r
      BY <1>1, <1>2, <1>4, <2>2, <2>4, FencedFrame DEF Enqueue, TypeOK
    <2> QED
      BY <2>3, <2>4
  <1>5. ASSUME NEW r \in Rows, Requeue(r) PROVE Goal
    <2>1. lease[r] = None
      BY <1>1, <1>5 DEF TablesAgree, RowAgrees, Requeue
    <2>2. lease' = lease /\ job' = job
      BY <1>1, <1>5, <2>1 DEF Requeue, TypeOK, locals
    <2>3. CASE job[v] # None /\ job[v].row = r
      BY <1>1, <2>1, <2>2, <2>3
      DEF ExclusiveWindow, InWindow, HoldsItsLease, LeaseIsOfItsAttempt, WindowEnd
    <2>4. CASE job[v] # None => job[v].row # r
      BY <1>1, <1>2, <1>5, <2>2, <2>4, FencedFrame DEF Requeue, TypeOK
    <2> QED
      BY <2>3, <2>4
  <1>6. ASSUME NEW w \in Workers, ClaimNothing(w) PROVE Goal
    <2>1. reading[w] \in Int /\ reading[w] <= 0 /\ job' = job
      BY <1>1, <1>6, EnvironmentAssumption DEF TypeOK, ClaimNothing
    <2>2. CASE job[v] = None
      BY <2>1, <2>2 DEF InWindow
    <2>3. CASE job[v] # None
      <3> DEFINE r == job[v].row
      <3>1. outbox'[r].attempts = outbox[r].attempts
        BY <1>1, <1>2, <1>6, <2>3 DEF ClaimNothing, DeadLetter, TypeOK, OutboxRow
      <3>2. lease'[r] = lease[r] \/ (Expired(r, reading[w]) /\ lease'[r] = None)
        BY <1>2, <1>6, <2>3 DEF ClaimNothing
      <3> QED
        BY <2>1, <2>3, <3>1, <3>2, FencedClaim
    <2> QED
      BY <2>2, <2>3
  <1>7. ASSUME NEW w \in Workers, NEW r \in Rows, ClaimRow(w, r) PROVE Goal
    <2>1. reading[w] \in Int /\ reading[w] <= 0
      BY <1>1, EnvironmentAssumption DEF TypeOK
    <2>2. /\ outbox'[r].attempts = outbox[r].attempts + 1
          /\ lease'[r] = [worker_id |-> WorkerId[w], expires_at |-> reading[w] + LeaseSeconds]
          /\ job' = [job EXCEPT ![w] = [row |-> r, attempts |-> outbox[r].attempts + 1,
                                        attempted_at |-> reading[w]]]
      BY <1>7 DEF ClaimRow
    <2>3. lease'[r] # None
      <3>1. lease'[r] \in Lease
        BY <2>1, <2>2, PolicyAssumption, WorkerIdAssumption DEF Lease
      <3> QED
        BY <3>1, NoneAssumption
    <2>4. CASE v = w
      BY <1>1, <2>2, <2>3, <2>4
      DEF TypeOK, InWindow, WindowEnd, HoldsItsLease, LeaseIsOfItsAttempt
    <2>5. CASE v # w
      <3>1. job'[v] = job[v]
        BY <1>1, <2>2, <2>5 DEF TypeOK
      <3>2. CASE job[v] = None
        BY <3>1, <3>2 DEF InWindow
      <3>3. CASE job[v] # None /\ job[v].row # r
        <4> DEFINE q == job[v].row
        <4>1. outbox'[q].attempts = outbox[q].attempts
          BY <1>1, <1>2, <1>7, <3>3 DEF ClaimRow, DeadLetter, TypeOK, OutboxRow
        <4>2. lease'[q] = lease[q] \/ (Expired(q, reading[w]) /\ lease'[q] = None)
          BY <1>2, <1>7, <3>3 DEF ClaimRow
        <4> QED
          BY <2>1, <3>1, <3>3, <4>1, <4>2, FencedClaim
      <3>4. CASE job[v] # None /\ job[v].row = r
        <4>1. ~InWindow(v)
          <5>1. ~Leased(r, reading[w])
            BY <1>7 DEF ClaimRow, Claimable, Candidate
          <5>2. job[v].attempted_at \in Int /\ LeaseSeconds \in Int
            BY <1>1, <3>4, PolicyAssumption, EnvironmentAssumption DEF TypeOK, WorkerJob
          <5> QED
            BY <1>1, <2>1, <3>4, <5>1, <5>2
            DEF ExclusiveWindow, InWindow, HoldsItsLease, WindowEnd, Leased
        <4>2. WorkerId[v] # WorkerId[w]
          BY <2>5 DEF UniqueIds
        <4> QED
          BY <2>2, <3>1, <3>4, <4>1, <4>2 DEF InWindow, WindowEnd, LeaseIsOfItsAttempt
      <3> QED
        BY <3>2, <3>3, <3>4
    <2> QED
      BY <2>4, <2>5
  <1>8. ASSUME NEW w \in Workers, Settles(w),
               \A q \in Rows : outbox'[q].attempts = outbox[q].attempts
        PROVE  Goal
    <2>1. job[w] # None /\ job[w].row \in Rows
      BY <1>1, <1>8 DEF Settles, WorkersAgree, TypeOK, WorkerJob
    <2>2. /\ job' = [job EXCEPT ![w] = None]
          /\ lease' = [lease EXCEPT ![job[w].row] = None]
          /\ lease[job[w].row] # None /\ lease[job[w].row].worker_id = WorkerId[w]
      BY <1>8 DEF Settles, Leave, OwnsLease
    <2>3. CASE v = w
      BY <1>1, <2>2, <2>3 DEF TypeOK, InWindow
    <2>4. CASE v # w
      <3>1. job'[v] = job[v]
        BY <1>1, <2>2, <2>4 DEF TypeOK
      <3>2. CASE job[v] = None
        BY <3>1, <3>2 DEF InWindow
      <3>3. CASE job[v] # None /\ job[v].row # job[w].row
        BY <1>1, <1>2, <1>8, <2>2, <3>1, <3>3, FencedFrame DEF TypeOK
      <3>4. CASE job[v] # None /\ job[v].row = job[w].row
        <4>1. ~InWindow(v)
          BY <1>1, <2>2, <2>4, <3>4 DEF ExclusiveWindow, HoldsItsLease, UniqueIds
        <4>2. lease'[job[v].row] = None
          BY <1>1, <2>1, <2>2, <3>4 DEF TypeOK
        <4> QED
          BY <3>1, <4>1, <4>2 DEF InWindow, WindowEnd, LeaseIsOfItsAttempt
      <3> QED
        BY <3>2, <3>3, <3>4
    <2> QED
      BY <2>3, <2>4
  <1>9. ASSUME NEW w \in Workers,
               CompleteDelivered(w) \/ CompleteFailed(w) \/ CompleteDeadLetter(w)
        PROVE  Goal
    <2>1. Settles(w)
      BY <1>9 DEF CompleteDelivered, CompleteFailed, CompleteDeadLetter
    <2>2. ASSUME NEW q \in Rows PROVE outbox'[q].attempts = outbox[q].attempts
      <3>1. outbox \in [Rows -> OutboxRow] /\ outbox[q] \in OutboxRow
        BY <1>1 DEF TypeOK
      <3>2. CASE CompleteDelivered(w)
        BY <3>1, <3>2 DEF CompleteDelivered, OutboxRow
      <3>3. CASE CompleteFailed(w)
        BY <3>1, <3>3 DEF CompleteFailed, OutboxRow
      <3>4. CASE CompleteDeadLetter(w)
        BY <3>1, <3>4 DEF CompleteDeadLetter, DeadLetter, OutboxRow
      <3> QED
        BY <1>9, <3>2, <3>3, <3>4
    <2> QED
      BY <1>8, <2>1, <2>2
  <1>10. ASSUME NEW w \in Workers, NEW to \in {"idle", "raised"}, Leave(w, to), UNCHANGED tables
         PROVE  Goal
    <2>1. CASE v = w
      BY <1>1, <1>10, <2>1 DEF TypeOK, Leave, InWindow
    <2>2. CASE v # w
      BY <1>1, <1>10, <2>2, FencedFrame DEF TypeOK, Leave, tables
    <2> QED
      BY <2>1, <2>2
  <1>11. ASSUME Tick PROVE Goal
    <2>1. CASE job[v] = None
      BY <1>11, <2>1 DEF Tick, InWindow
    <2>2. CASE job[v] # None
      <3> DEFINE aged == Age(job[v].attempted_at, -(MaxLag + LeaseSeconds))
      <3>1. PICK r \in Rows : r = job[v].row
        BY <1>2, <2>2
      <3>2. /\ job'[v].row = r /\ job'[v].attempts = job[v].attempts
            /\ job'[v].attempted_at = aged
        BY <1>1, <1>11, <2>2, <3>1 DEF Tick, TypeOK, WorkerJob
      <3>3. outbox'[r].attempts = outbox[r].attempts
        BY <1>1, <1>11 DEF Tick, TypeOK, OutboxRow
      <3>4. lease'[r] # None => lease[r] # None /\ lease'[r].worker_id = lease[r].worker_id
        BY <1>1, <1>11 DEF Tick, TypeOK, LeaseRow
      <3>5. LeaseIsOfItsAttempt(v)'
        BY <1>1, <2>2, <3>1, <3>2, <3>3, <3>4 DEF LeaseOfLatestAttempt, LeaseIsOfItsAttempt
      <3>6. ASSUME InWindow(v)' PROVE HoldsItsLease(v)'
        <4>1. /\ job[v].attempted_at \in Int /\ LeaseSeconds \in Nat \ {0}
              /\ MaxLag \in Nat /\ job[v].attempted_at # None
          BY <1>1, <2>2, PolicyAssumption, EnvironmentAssumption, NoneAssumption
          DEF TypeOK, WorkerJob
        <4>2. aged = job[v].attempted_at - 1 /\ WindowEnd(v) > 1
          BY <3>2, <3>6, <4>1 DEF Age, InWindow, WindowEnd
        <4>3. /\ lease[r] # None /\ lease[r].worker_id = WorkerId[v]
              /\ lease[r].expires_at = WindowEnd(v)
          BY <1>1, <2>2, <3>1, <4>1, <4>2 DEF ExclusiveWindow, InWindow, WindowEnd, HoldsItsLease
        <4>4. lease'[r] = [lease[r] EXCEPT !.expires_at = Age(@, -MaxLag)]
          BY <1>11, <4>3 DEF Tick
        <4>5. lease[r] \in LeaseRow /\ lease'[r] \in LeaseRow
          BY <1>1, <4>3, <4>4, AgedLeaseType DEF TypeOK
        <4>6. lease'[r] # None
          BY <4>5, NoneAssumption, PolicyAssumption, EnvironmentAssumption DEF LeaseRow, Lease
        <4>7. lease'[r].worker_id = WorkerId[v]
          BY <4>3, <4>4, <4>5 DEF LeaseRow
        <4>8. lease[r].expires_at \in Int /\ lease[r].expires_at # None
          BY <4>1, <4>3, NoneAssumption DEF WindowEnd
        <4>9. lease'[r].expires_at = lease[r].expires_at - 1
          BY <4>1, <4>2, <4>3, <4>4, <4>5, <4>8 DEF LeaseRow, Age
        <4> QED
          BY <3>2, <4>1, <4>2, <4>3, <4>6, <4>7, <4>9 DEF HoldsItsLease, WindowEnd
      <3> QED
        BY <3>5, <3>6
    <2> QED
      BY <2>1, <2>2
  <1>12. ASSUME NEW w \in Workers, Return(w) PROVE Goal
    BY <1>3, <1>10, <1>12
    DEF Return, ReturnDelivered, ReturnTransportFailure, ReturnRetryAfter, ReturnRaises,
        ReturnPermanent, Answered, tables
  <1> QED
    BY <1>3, <1>4, <1>5, <1>6, <1>7, <1>9, <1>10, <1>11, <1>12
    DEF Next, Worker, Claim, Complete, CompleteLeaseLost, ReadClock, ProviderAccepts,
        ProviderAcceptsLate, Crash, Restart, tables, locals, vars

(* With ids of their own, the workers stay fenced in every reachable state. *)
THEOREM FencedInvariant == ASSUME UniqueIds PROVE Spec => []FencedInv
  BY FencedInit, FencedStep, PTL DEF Spec

(* Until lease_seconds have passed since its claim, a worker's lease row is *)
(* the one it wrote.                                                        *)
THEOREM LeaseWindowExclusive == ASSUME UniqueIds PROVE Spec => []ExclusiveWindow
  <1>1. FencedInv => ExclusiveWindow
    BY DEF FencedInv
  <1> QED
    BY <1>1, FencedInvariant, PTL

(* No two workers are inside the lease window of one row at once.           *)
THEOREM LeaseMutualExclusion == ASSUME UniqueIds PROVE Spec => []MutualExclusion
  <1>1. FencedInv => MutualExclusion
    BY DEF FencedInv, ExclusiveWindow, MutualExclusion, HoldsItsLease, UniqueIds
  <1> QED
    BY <1>1, FencedInvariant, PTL

(* complete_alert_delivery lets only the worker of the latest attempt       *)
(* settle a row.                                                            *)
LEMMA LatestAttemptStep ==
    ASSUME UniqueIds
    PROVE  FencedInv /\ [Next]_vars => LatestAttemptSettles
  <1> SUFFICES ASSUME FencedInv, [Next]_vars, NEW w \in Workers,
                      phase[w] = "completing", phase'[w] = "idle",
                      outbox'[job[w].row].status # outbox[job[w].row].status
               PROVE  /\ outbox[job[w].row].status = "in_flight"
                      /\ outbox[job[w].row].attempts = job[w].attempts
    BY DEF LatestAttemptSettles
  <1>1. /\ TypeOK /\ WorkersAgree /\ TablesAgree /\ LeaseOfLatestAttempt
        /\ job[w] # None /\ job[w].row \in Rows
    BY DEF FencedInv, IInv, WorkersAgree, TypeOK, WorkerJob
  <1>2. Settles(w)
    <2>1. ASSUME NEW v \in Workers, Worker(v) \/ Crash(v) \/ Restart(v) PROVE v = w
      <3>0. phase \in [Workers -> {"idle", "claiming", "sending", "completing", "raised"}]
        BY <1>1 DEF TypeOK
      <3>1. CASE ReadClock(v) \/ Claim(v) \/ ProviderAccepts(v)
        BY <3>0, <3>1 DEF ReadClock, Claim, ClaimNothing, ClaimRow, ProviderAccepts
      <3>2. CASE Return(v)
        BY <3>0, <3>2
        DEF Return, ReturnDelivered, ReturnTransportFailure, ReturnRetryAfter, ReturnRaises,
            ReturnPermanent, Answered, Leave
      <3>3. CASE Complete(v)
        BY <3>0, <3>3
        DEF Complete, Settles, CompleteLeaseLost, CompleteDelivered, CompleteFailed,
            CompleteDeadLetter, Leave
      <3>4. CASE Crash(v) \/ Restart(v)
        BY <3>0, <3>4 DEF Crash, Restart, Leave
      <3> QED
        BY <2>1, <3>1, <3>2, <3>3, <3>4 DEF Worker
    <2>2. Complete(w) \/ Crash(w)
      <3>1. ~(ReadClock(w) \/ Claim(w) \/ ProviderAccepts(w) \/ Restart(w))
        BY DEF ReadClock, Claim, ClaimNothing, ClaimRow, ProviderAccepts, Restart
      <3>2. ~Return(w)
        BY DEF Return, ReturnDelivered, ReturnTransportFailure, ReturnRetryAfter, ReturnRaises,
               ReturnPermanent, Answered
      <3>3. PICK v \in Workers : Worker(v) \/ Crash(v) \/ Restart(v)
        BY DEF Next, Enqueue, Requeue, ProviderAcceptsLate, Tick, locals, vars
      <3> QED
        BY <2>1, <3>1, <3>2, <3>3 DEF Worker
    <2> QED
      BY <2>2 DEF Complete, CompleteLeaseLost, CompleteDelivered, CompleteFailed,
                  CompleteDeadLetter, Crash, tables
  <1> QED
    BY <1>1, <1>2
    DEF Settles, OwnsLease, LeaseOfLatestAttempt, LeaseIsOfItsAttempt, TablesAgree, RowAgrees

(* A late worker never settles the row of a newer attempt.                  *)
THEOREM LateWorkersAreFenced == ASSUME UniqueIds PROVE Spec => OnlyTheLatestAttemptSettles
  BY FencedInvariant, LatestAttemptStep, PTL DEF Spec, OnlyTheLatestAttemptSettles
================================================================================
