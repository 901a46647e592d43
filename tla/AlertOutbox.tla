------------------------------ MODULE AlertOutbox ------------------------------
(***************************************************************************)
(* The durable alert outbox: the four SQLite tables that carry an alert    *)
(* from its enqueue to its delivery (storage/metadata.py), the workers     *)
(* that drain them (flush_alert_outbox in alerts/delivery.py), the webhook *)
(* provider they call, and the operator who requeues dead letters.         *)
(*                                                                         *)
(* Every database function is one BEGIN IMMEDIATE transaction, so it is    *)
(* one action.  Between two of them a worker reads the wall clock, waits   *)
(* for the write lock and waits for the provider: those are actions of     *)
(* their own, and any other worker may act in between.                     *)
(*                                                                         *)
(* TIME.  Every instant is kept relative to the present, which is          *)
(* therefore always 0: a lease that expires in two seconds has             *)
(* expires_at = 2, one that expired a second ago has expires_at = -1.      *)
(* Tick subtracts one from every instant in the tables and in the workers. *)
(* The comparisons of the code read unchanged, time is unbounded, and the  *)
(* state stays finite because an instant so old that no comparison can     *)
(* tell it from an older one stops ageing.                                 *)
(*                                                                         *)
(* A definition marked "mutant" is a wrong version of the one that follows *)
(* it and is used by nothing: replacing that one by it breaks a property.  *)
(***************************************************************************)
EXTENDS Integers, FiniteSets

CONSTANTS
    Rows,            \* outbox rows; their order is ORDER BY created_at, id
    Workers,         \* processes that run flush_alert_outbox
    WorkerIds,       \* the values worker_id takes
    WorkerId,        \* the worker_id each process runs under
    LeaseSeconds, MaxAttempts, BaseBackoff, MaxBackoff, MaxRetryAfter,
                     \* DeliveryPolicy
    Hints,           \* Retry-After delays a provider may ask for
    DatetimeRange,   \* seconds from now to the last instant datetime can hold
    MaxLag,          \* longest wait between a clock reading and its transaction
    MaxRequeues,     \* bound: requeues of one row
    None             \* SQL NULL, or no row

Lease == [worker_id : WorkerIds, expires_at : Int]
Job   == [row : Rows, attempts : Nat, attempted_at : Int]

ASSUME RowsAssumption == Rows \subseteq Nat
ASSUME WorkersAssumption == IsFiniteSet(Workers)
ASSUME WorkerIdAssumption == WorkerId \in [Workers -> WorkerIds]
(* DeliveryPolicy's field bounds and validate_backoff. *)
ASSUME PolicyAssumption ==
    /\ LeaseSeconds \in Nat \ {0}
    /\ MaxAttempts \in Nat \ {0}
    /\ BaseBackoff \in Nat
    /\ MaxBackoff \in Nat /\ MaxBackoff >= BaseBackoff
    /\ MaxRetryAfter \in Nat
ASSUME EnvironmentAssumption ==
    /\ Hints \subseteq Nat
    /\ DatetimeRange \in Nat
    /\ MaxLag \in Nat
    /\ MaxRequeues \in Nat
(* An arithmetic fact: the backoff of every attempt number is a delay.     *)
ASSUME BackoffAssumption ==
    \A n \in 1..MaxAttempts : BaseBackoff * 2 ^ (n - 1) \in Nat
ASSUME NoneAssumption == None \notin Int \cup Lease \cup Job

VARIABLES
    outbox,       \* AlertOutboxRow of each row; status "absent" before its insert
    lease,        \* AlertDeliveryLeaseRow of each row, or None
    retry,        \* AlertRetryScheduleRow.retry_at of each row, or None
    deadLetters,  \* AlertDeadLetterRows of each row: not requeued, requeued
    phase,        \* where each worker is in the loop of flush_alert_outbox
    reading,      \* the worker's local now: attempted_at or completed_at
    job,          \* the worker's local copy of the claimed row, or None
    answer,       \* what has become of the worker's request
    retry_at,     \* the worker's local retry_at, or None
    adrift,       \* requests the provider may still accept, whose sender is gone
    received      \* requests the provider has accepted

tables == <<outbox, lease, retry, deadLetters>>
locals == <<phase, reading, job, answer, retry_at>>
world  == <<adrift, received>>
vars   == <<tables, locals, world>>

Statuses == {"absent", "pending", "in_flight", "failed", "delivered", "dead_letter"}
Open     == {"pending", "in_flight", "failed"}
Answers  == {"none", "accepted", "delivered", "retryable", "permanent"}

AtMost(a, b) == IF a <= b THEN a ELSE b

--------------------------------------------------------------------------------
(* What a claim sees at the instant `at` it carries as now. *)

ExpiredEarly(r, at) == lease[r] # None /\ lease[r].expires_at <= at + 1  \* mutant
Expired(r, at)  == lease[r] # None /\ lease[r].expires_at <= at
Leased(r, at)   == lease[r] # None /\ lease[r].expires_at > at
CandidateLeased(r, at) == outbox[r].status \in Open                       \* mutant
CandidateNotInFlight(r, at) ==                                            \* mutant
    outbox[r].status \in {"pending", "failed"} /\ ~Leased(r, at)
Candidate(r, at) == outbox[r].status \in Open /\ ~Leased(r, at)
ExhaustedLate(r, at) == Candidate(r, at) /\ outbox[r].attempts > MaxAttempts \* mutant
Exhausted(r, at) == Candidate(r, at) /\ outbox[r].attempts >= MaxAttempts

(* The provider's schedule of a row, in the future or over. *)
DeferredNever(r, at) == FALSE                                             \* mutant
Deferred(r, at) == retry[r] # None /\ retry[r] > at

(* min(base * 2 ** (attempts - 1), max): past the cap the exponent is idle. *)
Delay(attempts) == AtMost(BaseBackoff * 2 ^ (attempts - 1), MaxBackoff)

RetryIsDue(r, at) ==
    outbox[r].last_attempt_at # None /\ outbox[r].attempts # 0 =>
       at >= outbox[r].last_attempt_at + Delay(outbox[r].attempts)

Claimable(r, at) ==
    /\ Candidate(r, at)
    /\ ~Exhausted(r, at)
    /\ ~Deferred(r, at)
    /\ RetryIsDue(r, at)

(* What the scan does on its way: it dead-letters every exhausted row it    *)
(* meets, and deletes every schedule that is over, whether or not the       *)
(* row's own backoff lets it be claimed.                                    *)
Buried(scanned, at) == {r \in scanned : Exhausted(r, at)}
LapsedKept(scanned, at) == {}                                             \* mutant
Lapsed(scanned, at) ==
    {r \in scanned : Candidate(r, at) /\ retry[r] # None /\ ~Deferred(r, at)}

DeadLetter(row) == [row EXCEPT !.status = "dead_letter"]

--------------------------------------------------------------------------------
NewRow == [status |-> "pending", attempts |-> 0, last_attempt_at |-> None]

Init ==
    /\ outbox = [r \in Rows |-> [NewRow EXCEPT !.status = "absent"]]
    /\ lease = [r \in Rows |-> None]
    /\ retry = [r \in Rows |-> None]
    /\ deadLetters = [r \in Rows |-> [active |-> 0, requeued |-> 0]]
    /\ phase = [w \in Workers |-> "idle"]
    /\ reading = [w \in Workers |-> 0]
    /\ job = [w \in Workers |-> None]
    /\ answer = [w \in Workers |-> "none"]
    /\ retry_at = [w \in Workers |-> None]
    /\ adrift = [r \in Rows |-> 0]
    /\ received = [r \in Rows |-> 0]

(* save_alert_transition inserts a row.  Evaluators commit in any order,   *)
(* created_at is read before the commit: any absent row may be next.       *)
Enqueue(r) ==
    /\ outbox[r].status = "absent"
    /\ outbox' = [outbox EXCEPT ![r] = NewRow]
    /\ UNCHANGED <<lease, retry, deadLetters, locals, world>>

--------------------------------------------------------------------------------
(* flush_alert_outbox, one turn of its loop. *)

(* attempted_at = datetime.now(UTC), before the claim's transaction. *)
ReadClock(w) ==
    /\ phase[w] = "idle"
    /\ phase' = [phase EXCEPT ![w] = "claiming"]
    /\ reading' = [reading EXCEPT ![w] = 0]
    /\ UNCHANGED <<tables, job, answer, retry_at, world>>

(* The claim stops at the first row it can take; the rows before it have   *)
(* been scanned, those after it are left as they are.                      *)
ClaimRow(w, r) ==
    LET at      == reading[w]
        scanned == {q \in Rows : q <= r}
    IN  /\ phase[w] = "claiming"
        /\ Claimable(r, at)
        /\ \A q \in Rows : q < r => ~Claimable(q, at)
        /\ outbox' = [q \in Rows |->
              IF q = r
              THEN [status |-> "in_flight",
                    attempts |-> outbox[q].attempts + 1,
                    last_attempt_at |-> at]
              ELSE IF q \in Buried(scanned, at) THEN DeadLetter(outbox[q])
              ELSE outbox[q]]
        /\ lease' = [q \in Rows |->
              IF q = r
              THEN [worker_id |-> WorkerId[w], expires_at |-> at + LeaseSeconds]
              ELSE IF Expired(q, at) THEN None ELSE lease[q]]
        /\ retry' = [q \in Rows |->
              IF q \in Buried(scanned, at) \cup Lapsed(scanned, at)
              THEN None ELSE retry[q]]
        /\ deadLetters' = [q \in Rows |->
              IF q \in Buried(scanned, at)
              THEN [deadLetters[q] EXCEPT !.active = @ + 1]
              ELSE deadLetters[q]]
        /\ phase' = [phase EXCEPT ![w] = "sending"]
        /\ reading' = [reading EXCEPT ![w] = 0]
        /\ job' = [job EXCEPT ![w] = [row |-> r,
                                      attempts |-> outbox[r].attempts + 1,
                                      attempted_at |-> at]]
        /\ UNCHANGED <<answer, retry_at, world>>

(* Nothing to claim: the whole table has been scanned and the flush ends. *)
ClaimNothing(w) ==
    LET at == reading[w]
    IN  /\ phase[w] = "claiming"
        /\ \A q \in Rows : ~Claimable(q, at)
        /\ outbox' = [q \in Rows |->
              IF q \in Buried(Rows, at) THEN DeadLetter(outbox[q]) ELSE outbox[q]]
        /\ lease' = [q \in Rows |-> IF Expired(q, at) THEN None ELSE lease[q]]
        /\ retry' = [q \in Rows |->
              IF q \in Buried(Rows, at) \cup Lapsed(Rows, at) THEN None ELSE retry[q]]
        /\ deadLetters' = [q \in Rows |->
              IF q \in Buried(Rows, at)
              THEN [deadLetters[q] EXCEPT !.active = @ + 1]
              ELSE deadLetters[q]]
        /\ phase' = [phase EXCEPT ![w] = "idle"]
        /\ reading' = [reading EXCEPT ![w] = 0]
        /\ UNCHANGED <<job, answer, retry_at, world>>

(* adapter.send is under way and the provider accepts the request. *)
ProviderAccepts(w) ==
    /\ phase[w] = "sending"
    /\ answer[w] = "none"
    /\ answer' = [answer EXCEPT ![w] = "accepted"]
    /\ received' = [received EXCEPT ![job[w].row] = @ + 1]
    /\ UNCHANGED <<tables, phase, reading, job, retry_at, adrift>>

(* A request whose sender timed out or died reaches the provider late. *)
ProviderAcceptsLate(r) ==
    /\ adrift[r] > 0
    /\ adrift' = [adrift EXCEPT ![r] = @ - 1]
    /\ received' = [received EXCEPT ![r] = @ + 1]
    /\ UNCHANGED <<tables, locals>>

(* An unaccepted request of w is lost, or stays on the network. *)
LeaveRequest(w) ==
    \/ UNCHANGED adrift
    \/ /\ phase[w] = "sending" /\ answer[w] = "none"
       /\ adrift' = [adrift EXCEPT ![job[w].row] = @ + 1]

(* send is over with outcome a and requested schedule s; completed_at is   *)
(* read next.                                                              *)
Answered(w, a, s) ==
    /\ phase[w] = "sending"
    /\ answer' = [answer EXCEPT ![w] = a]
    /\ retry_at' = [retry_at EXCEPT ![w] = s]
    /\ phase' = [phase EXCEPT ![w] = "completing"]
    /\ reading' = [reading EXCEPT ![w] = 0]
    /\ UNCHANGED <<tables, job, received>>

(* A 2xx response: the provider has accepted. *)
ReturnDelivered(w) ==
    /\ answer[w] = "accepted"
    /\ Answered(w, "delivered", None)
    /\ UNCHANGED adrift

(* A transport failure, whatever the provider did with the request. *)
ReturnTransportFailure(w) ==
    /\ Answered(w, "retryable", None)
    /\ LeaveRequest(w)

(* _bounded_retry_at: the cap is taken after now + delay is computed. *)
Overflows(hint) == MaxRetryAfter # 0 /\ hint > DatetimeRange
UncappedRetryAt(hint) == IF MaxRetryAfter = 0 THEN None ELSE hint         \* mutant
BoundedRetryAt(hint) ==
    IF MaxRetryAfter = 0 THEN None ELSE AtMost(hint, MaxRetryAfter)

(* 408, 425, 429 or 5xx with a Retry-After. *)
ReturnRetryAfter(w, hint) ==
    /\ ~Overflows(hint)
    /\ Answered(w, "retryable", BoundedRetryAt(hint))
    /\ UNCHANGED adrift

(* Any other 3xx or 4xx. *)
ReturnPermanent(w) ==
    /\ Answered(w, "permanent", None)
    /\ UNCHANGED adrift

Leave(w, to) ==
    /\ phase' = [phase EXCEPT ![w] = to]
    /\ reading' = [reading EXCEPT ![w] = 0]
    /\ job' = [job EXCEPT ![w] = None]
    /\ answer' = [answer EXCEPT ![w] = "none"]
    /\ retry_at' = [retry_at EXCEPT ![w] = None]

(* now + timedelta(...) raises OverflowError outside flush's handlers: the *)
(* process ends with its row in flight.                                    *)
ReturnRaises(w, hint) ==
    /\ phase[w] = "sending"
    /\ Overflows(hint)
    /\ Leave(w, "raised")
    /\ UNCHANGED <<tables, world>>

--------------------------------------------------------------------------------
(* complete_alert_delivery: the lease row must carry the worker's id and   *)
(* must not have expired at the completed_at the worker read.              *)
OwnsAnyLease(w) ==                                                        \* mutant
    /\ lease[job[w].row] # None
    /\ lease[job[w].row].expires_at > reading[w]
OwnsLease(w) ==
    /\ lease[job[w].row] # None
    /\ lease[job[w].row].worker_id = WorkerId[w]
    /\ lease[job[w].row].expires_at > reading[w]

Settles(w) ==
    /\ phase[w] = "completing"
    /\ OwnsLease(w)
    /\ lease' = [lease EXCEPT ![job[w].row] = None]
    /\ Leave(w, "idle")
    /\ UNCHANGED world

CompleteLeaseLost(w) ==
    /\ phase[w] = "completing"
    /\ ~OwnsLease(w)
    /\ Leave(w, "idle")
    /\ UNCHANGED <<tables, world>>

CompleteDelivered(w) ==
    /\ Settles(w)
    /\ answer[w] = "delivered"
    /\ outbox' = [outbox EXCEPT ![job[w].row].status = "delivered"]
    /\ retry' = [retry EXCEPT ![job[w].row] = None]
    /\ UNCHANGED deadLetters

(* permanent_failure or row.attempts >= max_attempts, of the stored row. *)
Hopeless(w) ==
    \/ answer[w] = "permanent"
    \/ outbox[job[w].row].attempts >= MaxAttempts

CompleteFailedRefunded(w) ==                                              \* mutant
    /\ Settles(w)
    /\ answer[w] # "delivered" /\ ~Hopeless(w)
    /\ outbox' = [outbox EXCEPT ![job[w].row] =
          [@ EXCEPT !.status = "failed", !.attempts = @ - 1]]
    /\ retry' = [retry EXCEPT ![job[w].row] = retry_at[w]]
    /\ UNCHANGED deadLetters
CompleteFailed(w) ==
    /\ Settles(w)
    /\ answer[w] # "delivered" /\ ~Hopeless(w)
    /\ outbox' = [outbox EXCEPT ![job[w].row].status = "failed"]
    /\ retry' = [retry EXCEPT ![job[w].row] = retry_at[w]]
    /\ UNCHANGED deadLetters

CompleteDeadLetter(w) ==
    /\ Settles(w)
    /\ answer[w] # "delivered" /\ Hopeless(w)
    /\ outbox' = [outbox EXCEPT ![job[w].row] = DeadLetter(@)]
    /\ retry' = [retry EXCEPT ![job[w].row] = None]
    /\ deadLetters' = [deadLetters EXCEPT ![job[w].row].active = @ + 1]

Complete(w) ==
    \/ CompleteLeaseLost(w)
    \/ CompleteDelivered(w)
    \/ CompleteFailed(w)
    \/ CompleteDeadLetter(w)

--------------------------------------------------------------------------------
(* requeue_alert_dead_letter: the operator re-arms a dead letter. *)
Requeue(r) ==
    /\ outbox[r].status = "dead_letter"
    /\ deadLetters[r].requeued < MaxRequeues
    /\ outbox' = [outbox EXCEPT ![r] = NewRow]
    /\ lease' = [lease EXCEPT ![r] = None]
    /\ retry' = [retry EXCEPT ![r] = None]
    /\ deadLetters' = [deadLetters EXCEPT ![r] =
          IF @.active > 0
          THEN [active |-> @.active - 1, requeued |-> @.requeued + 1]
          ELSE @]
    /\ UNCHANGED <<locals, world>>

(* A worker process is killed; it forgets everything it had in memory. *)
Crash(w) ==
    /\ phase[w] \notin {"idle", "raised"}
    /\ LeaveRequest(w)
    /\ Leave(w, "idle")
    /\ UNCHANGED <<tables, received>>

(* The next scheduled run of a worker whose process ended with a traceback. *)
Restart(w) ==
    /\ phase[w] = "raised"
    /\ Leave(w, "idle")
    /\ UNCHANGED <<tables, world>>

--------------------------------------------------------------------------------
(* One second passes.  No reading grows older than MaxLag, so an expiry or *)
(* a schedule at -MaxLag is over for every reading there is, and a last    *)
(* attempt at -(MaxLag + MaxBackoff) is due for every one.                 *)
Age(instant, floor) ==
    IF instant = None \/ instant <= floor THEN instant ELSE instant - 1

Pending(w) == phase[w] \in {"claiming", "completing"}

Tick ==
    /\ \A w \in Workers : Pending(w) => reading[w] > -MaxLag
    /\ outbox' = [r \in Rows |->
          [outbox[r] EXCEPT !.last_attempt_at = Age(@, -(MaxLag + MaxBackoff))]]
    /\ lease' = [r \in Rows |->
          IF lease[r] = None THEN None
          ELSE [lease[r] EXCEPT !.expires_at = Age(@, -MaxLag)]]
    /\ retry' = [r \in Rows |-> Age(retry[r], -MaxLag)]
    /\ reading' = [w \in Workers |->
          IF Pending(w) THEN reading[w] - 1 ELSE reading[w]]
    /\ job' = [w \in Workers |->
          IF job[w] = None THEN None
          ELSE [job[w] EXCEPT !.attempted_at = Age(@, -(MaxLag + LeaseSeconds))]]
    /\ retry_at' = [w \in Workers |-> Age(retry_at[w], -MaxLag)]
    /\ UNCHANGED <<deadLetters, phase, answer, world>>

--------------------------------------------------------------------------------
Claim(w) == ClaimNothing(w) \/ \E r \in Rows : ClaimRow(w, r)

Return(w) ==
    \/ ReturnDelivered(w)
    \/ ReturnTransportFailure(w)
    \/ \E hint \in Hints : ReturnRetryAfter(w, hint) \/ ReturnRaises(w, hint)
    \/ ReturnPermanent(w)

Worker(w) ==
    ReadClock(w) \/ Claim(w) \/ ProviderAccepts(w) \/ Return(w) \/ Complete(w)

Next ==
    \/ \E r \in Rows : Enqueue(r) \/ Requeue(r) \/ ProviderAcceptsLate(r)
    \/ \E w \in Workers : Worker(w) \/ Crash(w) \/ Restart(w)
    \/ Tick

Spec == Init /\ [][Next]_vars

(* The scheduler keeps starting workers (ReadClock, Restart), the adapter's *)
(* timeout bounds send (Return) and SQLite grants the write lock in the end *)
(* (Claim, Complete).  A crash can interrupt every claim between the clock  *)
(* and the transaction, so Claim needs strong fairness: not every process   *)
(* dies before its first transaction.                                       *)
Fairness ==
    /\ WF_vars(Tick)
    /\ \A w \in Workers :
          /\ WF_vars(ReadClock(w)) /\ WF_vars(Restart(w))
          /\ SF_vars(Claim(w))
          /\ WF_vars(Return(w)) /\ WF_vars(Complete(w))

FairSpec == Spec /\ Fairness

--------------------------------------------------------------------------------
(* Properties. *)

OutboxRow ==
    [status : Statuses, attempts : 0..MaxAttempts,
     last_attempt_at : (-(MaxLag + MaxBackoff)..0) \cup {None}]
LeaseRow  == [worker_id : WorkerIds, expires_at : -MaxLag..LeaseSeconds]
Schedule  == (-MaxLag..MaxRetryAfter) \cup {None}
WorkerJob == [row : Rows, attempts : 1..MaxAttempts,
              attempted_at : -(MaxLag + LeaseSeconds)..0]

(* Every value has its type and its range: no attempt beyond the budget,   *)
(* no lease longer than lease_seconds, no schedule farther than            *)
(* max_retry_after_seconds (_bounded_retry_at).                            *)
TypeOK ==
    /\ outbox \in [Rows -> OutboxRow]
    /\ lease \in [Rows -> LeaseRow \cup {None}]
    /\ retry \in [Rows -> Schedule]
    /\ deadLetters \in [Rows -> [active : Nat, requeued : Nat]]
    /\ phase \in [Workers -> {"idle", "claiming", "sending", "completing", "raised"}]
    /\ reading \in [Workers -> -MaxLag..0]
    /\ job \in [Workers -> WorkerJob \cup {None}]
    /\ answer \in [Workers -> Answers]
    /\ retry_at \in [Workers -> Schedule]
    /\ adrift \in [Rows -> Nat]
    /\ received \in [Rows -> Nat]

RowAgrees(r) ==
    /\ lease[r] # None => outbox[r].status = "in_flight"
    /\ retry[r] # None => outbox[r].status = "failed"
    /\ outbox[r].status = "failed" => outbox[r].attempts < MaxAttempts
    /\ outbox[r].status \in {"in_flight", "failed"} =>
          outbox[r].attempts > 0 /\ outbox[r].last_attempt_at # None
    /\ outbox[r].status = "absent" =>
          outbox[r].attempts = 0 /\ deadLetters[r].requeued = 0
    /\ deadLetters[r].active = IF outbox[r].status = "dead_letter" THEN 1 ELSE 0

(* The four tables agree after every transaction: a lease only on a row    *)
(* in flight, a provider schedule only on a failed row that has attempts   *)
(* left, a counted and dated attempt behind both, one active dead letter   *)
(* exactly for each dead-lettered row.                                     *)
TablesAgree == \A r \in Rows : RowAgrees(r)

(* The instant at which the lease of w's claim ends. *)
WindowEnd(w) == job[w].attempted_at + LeaseSeconds
InWindow(w)  == job[w] # None /\ WindowEnd(w) > 0

HoldsItsLease(w) ==
    LET l == lease[job[w].row]
    IN  l # None /\ l.worker_id = WorkerId[w] /\ l.expires_at = WindowEnd(w)

(* Until lease_seconds have passed since its claim a worker finds in the   *)
(* table the lease it wrote: nobody swept, stole or settled it             *)
(* (claim_alert_outbox and complete_alert_delivery of the other workers).  *)
ExclusiveWindow == \A w \in Workers : InWindow(w) => HoldsItsLease(w)

(* Two workers are never both inside the lease window of one row           *)
(* (docs/alert-state.md: "A second local worker sharing the same metadata  *)
(* database cannot claim the same row while its lease is live").           *)
MutualExclusion ==
    \A v, w \in Workers :
       v # w /\ InWindow(v) /\ InWindow(w) => job[v].row # job[w].row

(* A worker has a job exactly while it sends or completes, and an answer   *)
(* that fits the step it is at.                                            *)
WorkersAgree ==
    \A w \in Workers :
       /\ job[w] # None <=> phase[w] \in {"sending", "completing"}
       /\ answer[w] \in CASE phase[w] = "sending" -> {"none", "accepted"}
                        [] phase[w] = "completing" ->
                              {"delivered", "retryable", "permanent"}
                        [] OTHER -> {"none"}

LeaseIsOfItsAttempt(w) ==
    LET r == job[w].row
    IN  lease[r] # None /\ lease[r].worker_id = WorkerId[w] =>
           outbox[r].attempts = job[w].attempts

(* A lease that carries the id of a worker at work on its row is the lease *)
(* of that work, not of an earlier or a later attempt.                     *)
LeaseOfLatestAttempt ==
    \A w \in Workers : job[w] # None => LeaseIsOfItsAttempt(w)

(* The processes do not share a worker_id. *)
UniqueIds == \A v, w \in Workers : WorkerId[v] = WorkerId[w] => v = w

(* The inductive invariant behind the theorems of AlertOutboxProofs.       *)
IInv == TypeOK /\ WorkersAgree /\ TablesAgree

(* With ids of their own the workers also keep out of each other's way     *)
(* (AlertDeliveryLeaseRow.worker_id, compared in complete_alert_delivery). *)
FencedInv == IInv /\ ExclusiveWindow /\ LeaseOfLatestAttempt

(* The requests for r that are still on their way from a live sender. *)
Senders(r) ==
    {w \in Workers : phase[w] = "sending" /\ answer[w] = "none" /\ job[w].row = r}

PaidFor(r) ==
    received[r] + adrift[r] + Cardinality(Senders(r))
       <= MaxAttempts * deadLetters[r].requeued + outbox[r].attempts

(* Every request the provider has accepted or may still accept was paid    *)
(* for at claim time (docs/alert-state.md: "crash loops still consume the  *)
(* configured attempt budget").                                            *)
SendsPaidFor == \A r \in Rows : PaidFor(r)

(* A worker that takes its request for accepted is right.                  *)
AcceptedIsReceived ==
    \A w \in Workers : answer[w] \in {"accepted", "delivered"} => received[job[w].row] > 0

(* The inductive invariant behind the refinement of the ledger.            *)
DeliveryInv == IInv /\ SendsPaidFor /\ AcceptedIsReceived

DelaysKept(r) ==
    /\ retry[r] # None /\ retry'[r] = None => retry[r] <= 0
    /\ outbox[r].status = "failed" /\ outbox'[r].status # "failed" =>
          /\ outbox'[r].status = "in_flight"
          /\ retry[r] = None \/ retry[r] <= 0
          /\ outbox[r].last_attempt_at + Delay(outbox[r].attempts) <= 0

(* A retry waits for both minimum delays: a schedule the provider asked    *)
(* for is dropped only once it is over, and a failed row is taken up again *)
(* only when it has no schedule left that is not over and its backoff has  *)
(* elapsed (docs/webhook-delivery.md: "the later effective retry time      *)
(* wins").                                                                 *)
BothDelaysKept == [][\A r \in Rows : DelaysKept(r)]_vars

LatestAttemptSettles ==
    \A w \in Workers :
       phase[w] = "completing" /\ phase'[w] = "idle"
          /\ outbox'[job[w].row].status # outbox[job[w].row].status =>
        /\ outbox[job[w].row].status = "in_flight"
        /\ outbox[job[w].row].attempts = job[w].attempts

(* A row in flight is settled only by the worker of its latest attempt,    *)
(* never by one that comes back late (AlertLeaseLostError: "Raised when a  *)
(* worker tries to acknowledge an expired or stolen delivery lease").      *)
OnlyTheLatestAttemptSettles == [][LatestAttemptSettles]_vars

(* The longest an open row can have to wait for its lease, the provider's  *)
(* schedule and its backoff, which run at the same time.                   *)
AtLeast(a, b) == IF a >= b THEN a ELSE b
LongestWait   == AtLeast(LeaseSeconds, AtLeast(MaxRetryAfter, MaxBackoff))

Takes(r, at) == Claimable(r, at) \/ Exhausted(r, at)

(* Whatever a dead worker left behind in the tables, no open row is out of *)
(* reach for longer than that: left alone, it is claimed or dead-lettered  *)
(* by whichever worker looks then (docs/alert-state.md: "If a worker dies  *)
(* before provider acceptance, an expired lease allows another worker to   *)
(* retry").                                                                *)
NeverLockedOut == \A r \in Rows : outbox[r].status \in Open => Takes(r, LongestWait)

(* No answer of a provider ends the worker process                         *)
(* (docs/webhook-delivery.md: "Provider retry hints are capped to one day  *)
(* by default").                                                           *)
RetryHintNeverRaises == \A w \in Workers : phase[w] # "raised"

--------------------------------------------------------------------------------
(* The outbox implements the ledger of notifications. *)

LedgerState(r) ==
    CASE outbox[r].status = "absent" -> "absent"
      [] outbox[r].status = "delivered" -> "delivered"
      [] outbox[r].status = "dead_letter" -> "abandoned"
      [] OTHER -> "open"

Ledger == INSTANCE NotificationLedger WITH
    Budget <- MaxAttempts,
    state <- [r \in Rows |-> LedgerState(r)],
    rearmed <- [r \in Rows |-> deadLetters[r].requeued]

(* Whatever crashes, expiries and late answers do, the tables show a       *)
(* notification that is posted once, acknowledged only when the provider   *)
(* has it, never un-delivered, and accepted at most max_attempts times per *)
(* arming.                                                                 *)
ImplementsLedger == Ledger!Spec

(* Every enqueued alert ends delivered or dead-lettered, however often     *)
(* workers crash in between.                                               *)
EveryAlertSettles == Ledger!EveryAlertSettles
================================================================================
