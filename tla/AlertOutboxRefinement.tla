------------------------- MODULE AlertOutboxRefinement -------------------------
(***************************************************************************)
(* Proof that AlertOutbox implements NotificationLedger, for every set of  *)
(* rows, every finite set of workers and every delivery policy, and of the *)
(* attempt budget the refinement rests on.                                 *)
(***************************************************************************)
EXTENDS AlertOutboxProofs, FiniteSetTheorems

(* A set that gains at most one element, or loses one. *)
LEMMA GainsOne ==
    ASSUME NEW S, NEW T, NEW x, IsFiniteSet(S), T \subseteq S \cup {x}
    PROVE  Cardinality(T) <= Cardinality(S) + 1
  <1>1. IsFiniteSet(S \cup {x}) /\ Cardinality(S) \in Nat
    BY FS_AddElement, FS_CardinalityType
  <1>2. Cardinality(S \cup {x}) <= Cardinality(S) + 1
    BY <1>1, FS_AddElement
  <1>3. Cardinality(T) <= Cardinality(S \cup {x}) /\ IsFiniteSet(T)
    BY <1>1, FS_Subset
  <1>4. Cardinality(T) \in Nat /\ Cardinality(S \cup {x}) \in Nat
    BY <1>1, <1>3, FS_CardinalityType
  <1> QED
    BY <1>1, <1>2, <1>3, <1>4

LEMMA LosesOne ==
    ASSUME NEW S, NEW T, NEW x \in S, IsFiniteSet(S), T \subseteq S \ {x}
    PROVE  Cardinality(T) <= Cardinality(S) - 1
  <1>1. IsFiniteSet(S \ {x}) /\ Cardinality(S \ {x}) = Cardinality(S) - 1
    BY FS_RemoveElement
  <1>2. Cardinality(T) <= Cardinality(S \ {x})
    BY <1>1, FS_Subset
  <1> QED
    BY <1>1, <1>2

LEMMA SendersCount ==
    ASSUME NEW r \in Rows
    PROVE  IsFiniteSet(Senders(r)) /\ Cardinality(Senders(r)) \in Nat
  <1>1. Senders(r) \subseteq Workers
    BY DEF Senders
  <1> QED
    BY <1>1, WorkersAssumption, FS_Subset, FS_CardinalityType

LEMMA SendersCountNext ==
    ASSUME NEW r \in Rows
    PROVE  IsFiniteSet(Senders(r)') /\ Cardinality(Senders(r)') \in Nat
  <1>1. Senders(r)' \subseteq Workers
    BY DEF Senders
  <1> QED
    BY <1>1, WorkersAssumption, FS_Subset, FS_CardinalityType

(* A step that adds no more requests of a row than attempts keeps them     *)
(* paid for.                                                               *)
LEMMA PaidStep ==
    ASSUME NEW r \in Rows, TypeOK, TypeOK', PaidFor(r),
           deadLetters'[r].requeued = deadLetters[r].requeued,
           received'[r] + adrift'[r] + Cardinality(Senders(r)') - outbox'[r].attempts
              <= received[r] + adrift[r] + Cardinality(Senders(r)) - outbox[r].attempts
    PROVE  PaidFor(r)'
  <1>1. /\ Cardinality(Senders(r)) \in Nat /\ Cardinality(Senders(r)') \in Nat
        /\ received[r] \in Nat /\ adrift[r] \in Nat /\ outbox[r].attempts \in Nat
        /\ received'[r] \in Nat /\ adrift'[r] \in Nat /\ outbox'[r].attempts \in Nat
    BY SendersCount, SendersCountNext, PolicyAssumption DEF TypeOK, OutboxRow
  <1> DEFINE paid == MaxAttempts * deadLetters[r].requeued
  <1>2. paid \in Int /\ paid = MaxAttempts * deadLetters'[r].requeued
    BY PolicyAssumption DEF TypeOK
  <1> HIDE DEF paid
  <1>3. received[r] + adrift[r] + Cardinality(Senders(r)) <= paid + outbox[r].attempts
    BY DEF PaidFor, paid
  <1>4. received'[r] + adrift'[r] + Cardinality(Senders(r)') <= paid + outbox'[r].attempts
    BY <1>1, <1>2, <1>3
  <1> QED
    BY <1>2, <1>4 DEF PaidFor

(* No new sender, and no new request on the network or at the provider. *)
LEMMA PaidFrame ==
    ASSUME NEW r \in Rows, TypeOK, TypeOK', PaidFor(r),
           Senders(r)' \subseteq Senders(r),
           received'[r] + adrift'[r] = received[r] + adrift[r],
           deadLetters'[r].requeued = deadLetters[r].requeued,
           outbox'[r].attempts = outbox[r].attempts
    PROVE  PaidFor(r)'
  <1>1. Cardinality(Senders(r)') <= Cardinality(Senders(r))
    BY SendersCount, FS_Subset
  <1>2. /\ Cardinality(Senders(r)) \in Nat /\ Cardinality(Senders(r)') \in Nat
        /\ received[r] + adrift[r] \in Nat /\ outbox[r].attempts \in Nat
    BY SendersCount, SendersCountNext, PolicyAssumption DEF TypeOK, OutboxRow
  <1> QED
    BY <1>1, <1>2, PaidStep

(* A sender whose request is accepted, or left on the network, stops being *)
(* one: what was paid for it is now counted there.                         *)
LEMMA PaidHandOver ==
    ASSUME NEW r \in Rows, NEW w \in Senders(r), TypeOK, TypeOK', PaidFor(r),
           Senders(r)' \subseteq Senders(r) \ {w},
           received'[r] + adrift'[r] = received[r] + adrift[r] + 1,
           deadLetters'[r].requeued = deadLetters[r].requeued,
           outbox'[r].attempts = outbox[r].attempts
    PROVE  PaidFor(r)'
  <1>1. Cardinality(Senders(r)') <= Cardinality(Senders(r)) - 1
    BY SendersCount, LosesOne
  <1>2. /\ Cardinality(Senders(r)) \in Nat /\ Cardinality(Senders(r)') \in Nat
        /\ received[r] + adrift[r] \in Nat /\ outbox[r].attempts \in Nat
    BY SendersCount, SendersCountNext, PolicyAssumption DEF TypeOK, OutboxRow
  <1> QED
    BY <1>1, <1>2, PaidStep

(* A claim pays for the one sender it adds. *)
LEMMA PaidClaim ==
    ASSUME NEW r \in Rows, NEW w \in Workers, TypeOK, TypeOK', PaidFor(r),
           Senders(r)' \subseteq Senders(r) \cup {w},
           received'[r] + adrift'[r] = received[r] + adrift[r],
           deadLetters'[r].requeued = deadLetters[r].requeued,
           outbox'[r].attempts = outbox[r].attempts + 1
    PROVE  PaidFor(r)'
  <1>1. Cardinality(Senders(r)') <= Cardinality(Senders(r)) + 1
    BY SendersCount, GainsOne
  <1>2. /\ Cardinality(Senders(r)) \in Nat /\ Cardinality(Senders(r)') \in Nat
        /\ received[r] + adrift[r] \in Nat /\ outbox[r].attempts \in Nat
    BY SendersCount, SendersCountNext, PolicyAssumption DEF TypeOK, OutboxRow
  <1> QED
    BY <1>1, <1>2, PaidStep

--------------------------------------------------------------------------------
(* The worker's part of the state, as seen by all the others. *)
OthersStay(w) ==
    \A v \in Workers \ {w} :
       phase'[v] = phase[v] /\ job'[v] = job[v] /\ answer'[v] = answer[v]

LEMMA OneMoves ==
    ASSUME NEW w \in Workers, TypeOK,
           Worker(w) \/ Crash(w) \/ Restart(w)
    PROVE  OthersStay(w)
  BY DEF OthersStay, TypeOK, Worker, ReadClock, Claim, ClaimNothing, ClaimRow, ProviderAccepts,
         Return, ReturnDelivered, ReturnTransportFailure, ReturnRetryAfter, ReturnRaises,
         ReturnPermanent, Answered, Leave, Complete, CompleteLeaseLost, CompleteDelivered,
         CompleteFailed, CompleteDeadLetter, Settles, Crash, Restart

(* A worker that is not, or no longer, waiting for an acceptance. *)
LEMMA StopsSending ==
    ASSUME NEW r \in Rows, NEW w \in Workers, OthersStay(w),
           phase'[w] = "sending" => answer'[w] # "none"
    PROVE  Senders(r)' \subseteq Senders(r) \ {w}
  BY DEF Senders, OthersStay

(* What a step of a worker does to the attempts, beyond its claims. *)
LEMMA AttemptsStay ==
    ASSUME NEW r \in Rows, NEW w \in Workers, IInv,
           ClaimNothing(w) \/ Complete(w)
    PROVE  /\ outbox'[r].attempts = outbox[r].attempts
           /\ deadLetters'[r].requeued = deadLetters[r].requeued
  <1>1. TypeOK /\ WorkersAgree
    BY DEF IInv
  <1>2. outbox[r] \in OutboxRow /\ deadLetters[r] \in [active : Nat, requeued : Nat]
    BY <1>1 DEF TypeOK
  <1>3. CASE ClaimNothing(w)
    <2>1. outbox'[r] = outbox[r] \/ outbox'[r] = DeadLetter(outbox[r])
      BY <1>3 DEF ClaimNothing
    <2>2. \/ deadLetters'[r] = deadLetters[r]
          \/ deadLetters'[r] = [deadLetters[r] EXCEPT !.active = @ + 1]
      BY <1>3 DEF ClaimNothing
    <2> QED
      BY <1>2, <2>1, <2>2 DEF DeadLetter, OutboxRow
  <1>4. CASE CompleteLeaseLost(w)
    BY <1>4 DEF CompleteLeaseLost, tables
  <1>5. CASE CompleteDelivered(w)
    BY <1>1, <1>2, <1>5 DEF CompleteDelivered, TypeOK, OutboxRow
  <1>6. CASE CompleteFailed(w)
    BY <1>1, <1>2, <1>6 DEF CompleteFailed, TypeOK, OutboxRow
  <1>7. CASE CompleteDeadLetter(w)
    BY <1>1, <1>2, <1>7 DEF CompleteDeadLetter, DeadLetter, TypeOK, OutboxRow
  <1> QED
    BY <1>3, <1>4, <1>5, <1>6, <1>7 DEF Complete

(* Every request stays paid for. *)
LEMMA SendsPaidForStep == IInv /\ IInv' /\ SendsPaidFor /\ [Next]_vars => SendsPaidFor'
  <1> SUFFICES ASSUME IInv, IInv', SendsPaidFor, [Next]_vars, NEW r \in Rows
               PROVE  PaidFor(r)'
    BY DEF SendsPaidFor
  <1>1. TypeOK /\ TypeOK' /\ WorkersAgree /\ RowAgrees(r) /\ PaidFor(r)
    BY DEF IInv, TablesAgree, SendsPaidFor
  <1>2. received[r] \in Nat /\ adrift[r] \in Nat
    BY <1>1 DEF TypeOK
  <1>3. CASE UNCHANGED vars \/ Tick
    <2>1. Senders(r)' = Senders(r)
      <3>1. UNCHANGED <<phase, answer>> /\ \A w \in Workers : phase[w] = "sending" => job'[w].row = job[w].row
        <4>1. CASE Tick
          <5>1. UNCHANGED <<phase, answer>>
            BY <4>1 DEF Tick
          <5>2. ASSUME NEW w \in Workers, phase[w] = "sending" PROVE job'[w].row = job[w].row
            <6>1. job[w] \in WorkerJob /\ job[w] # None
              BY <1>1, <5>2 DEF TypeOK, WorkersAgree
            <6>2. job'[w] = [job[w] EXCEPT !.attempted_at = Age(@, -(MaxLag + LeaseSeconds))]
              BY <4>1, <6>1 DEF Tick
            <6> QED
              BY <6>1, <6>2 DEF WorkerJob
          <5> QED
            BY <5>1, <5>2
        <4> QED
          BY <1>3, <4>1 DEF vars, locals
      <3> QED
        BY <3>1 DEF Senders
    <2>2. UNCHANGED <<received, adrift, deadLetters>>
      BY <1>3 DEF Tick, vars, tables, world
    <2>3. outbox'[r].attempts = outbox[r].attempts
      BY <1>1, <1>3 DEF Tick, vars, tables, TypeOK, OutboxRow
    <2> QED
      BY <1>1, <2>1, <2>2, <2>3, PaidFrame
  <1>4. ASSUME NEW q \in Rows, Enqueue(q) PROVE PaidFor(r)'
    <2>1. outbox'[r].attempts = outbox[r].attempts
      BY <1>1, <1>4 DEF Enqueue, NewRow, TypeOK, RowAgrees
    <2>2. Senders(r)' = Senders(r) /\ UNCHANGED <<received, adrift, deadLetters>>
      BY <1>4 DEF Enqueue, Senders, locals, world
    <2> QED
      BY <1>1, <2>1, <2>2, PaidFrame
  <1>5. ASSUME NEW q \in Rows, Requeue(q) PROVE PaidFor(r)'
    <2>1. Senders(r)' = Senders(r) /\ UNCHANGED <<received, adrift>>
      BY <1>5 DEF Requeue, Senders, locals, world
    <2>2. CASE q # r
      <3>1. outbox'[r] = outbox[r] /\ deadLetters'[r] = deadLetters[r]
        BY <1>1, <1>5, <2>2 DEF Requeue, TypeOK
      <3> QED
        BY <1>1, <2>1, <3>1, PaidFrame
    <2>3. CASE q = r
      <3>1. /\ outbox'[r].attempts = 0
            /\ deadLetters'[r].requeued = deadLetters[r].requeued + 1
        BY <1>1, <1>5, <2>3 DEF Requeue, NewRow, TypeOK, RowAgrees
      <3>2. outbox[r].attempts \in 0..MaxAttempts /\ deadLetters[r].requeued \in Nat
        BY <1>1 DEF TypeOK, OutboxRow
      <3>3. MaxAttempts * deadLetters'[r].requeued
               = MaxAttempts * deadLetters[r].requeued + MaxAttempts
        BY <3>1, <3>2, PolicyAssumption
      <3> DEFINE paid == MaxAttempts * deadLetters[r].requeued
      <3>4. paid \in Int
        BY <3>2, PolicyAssumption
      <3>5. received[r] + adrift[r] + Cardinality(Senders(r)) <= paid + outbox[r].attempts
        BY <1>1 DEF PaidFor
      <3> HIDE DEF paid
      <3>6. received[r] + adrift[r] + Cardinality(Senders(r)) <= (paid + MaxAttempts) + 0
        BY <1>2, <3>2, <3>4, <3>5, SendersCount, PolicyAssumption
      <3> QED
        BY <2>1, <3>1, <3>3, <3>6 DEF PaidFor, paid
    <2> QED
      BY <2>2, <2>3
  <1>6. ASSUME NEW q \in Rows, ProviderAcceptsLate(q) PROVE PaidFor(r)'
    <2>1. received'[r] + adrift'[r] = received[r] + adrift[r]
      BY <1>1, <1>2, <1>6 DEF ProviderAcceptsLate, TypeOK
    <2>2. Senders(r)' = Senders(r) /\ UNCHANGED <<outbox, deadLetters>>
      BY <1>6 DEF ProviderAcceptsLate, Senders, locals, tables
    <2> QED
      BY <1>1, <2>1, <2>2, PaidFrame
  <1>7. ASSUME NEW w \in Workers, UNCHANGED <<received, adrift>>, OthersStay(w),
               phase'[w] = "sending" => answer'[w] # "none",
               outbox'[r].attempts = outbox[r].attempts,
               deadLetters'[r].requeued = deadLetters[r].requeued
        PROVE  PaidFor(r)'
    BY <1>1, <1>7, StopsSending, PaidFrame
  <1>8. ASSUME NEW w \in Workers, LeaveRequest(w), UNCHANGED <<tables, received>>,
               OthersStay(w), phase'[w] # "sending"
        PROVE  PaidFor(r)'
    <2>1. CASE UNCHANGED adrift
      BY <1>7, <1>8, <2>1 DEF tables
    <2>2. CASE /\ phase[w] = "sending" /\ answer[w] = "none"
               /\ adrift' = [adrift EXCEPT ![job[w].row] = @ + 1]
      <3>1. Senders(r)' \subseteq Senders(r) \ {w}
        BY <1>8, StopsSending
      <3>2. CASE job[w].row = r
        <4>1. w \in Senders(r)
          BY <2>2, <3>2 DEF Senders
        <4>2. received'[r] + adrift'[r] = received[r] + adrift[r] + 1
          BY <1>1, <1>2, <1>8, <2>2, <3>2 DEF TypeOK
        <4> QED
          BY <1>1, <1>8, <3>1, <4>1, <4>2, PaidHandOver DEF tables
      <3>3. CASE job[w].row # r
        <4>1. adrift'[r] = adrift[r]
          BY <1>1, <2>2, <3>3 DEF TypeOK
        <4> QED
          BY <1>1, <1>8, <3>1, <4>1, PaidFrame DEF tables
      <3> QED
        BY <3>2, <3>3
    <2> QED
      BY <1>8, <2>1, <2>2 DEF LeaveRequest
  <1>9. ASSUME NEW w \in Workers, ReadClock(w) \/ ClaimNothing(w) PROVE PaidFor(r)'
    <2>1. phase'[w] # "sending"
      BY <1>1, <1>9 DEF ReadClock, ClaimNothing, TypeOK
    <2>2. OthersStay(w) /\ UNCHANGED <<received, adrift>>
      BY <1>1, <1>9, OneMoves DEF Worker, Claim, ReadClock, ClaimNothing, world
    <2>3. /\ outbox'[r].attempts = outbox[r].attempts
          /\ deadLetters'[r].requeued = deadLetters[r].requeued
      BY <1>9, AttemptsStay DEF ReadClock, tables
    <2> QED
      BY <1>7, <2>1, <2>2, <2>3
  <1>10. ASSUME NEW w \in Workers, NEW q \in Rows, ClaimRow(w, q) PROVE PaidFor(r)'
    <2>1. OthersStay(w) /\ UNCHANGED <<received, adrift>> /\ job'[w].row = q
      BY <1>1, <1>10, OneMoves DEF Worker, Claim, ClaimRow, world, TypeOK
    <2>2. deadLetters'[r].requeued = deadLetters[r].requeued
      <3>1. \/ deadLetters'[r] = deadLetters[r]
            \/ deadLetters'[r] = [deadLetters[r] EXCEPT !.active = @ + 1]
        BY <1>10 DEF ClaimRow
      <3>2. deadLetters[r] \in [active : Nat, requeued : Nat]
        BY <1>1 DEF TypeOK
      <3> QED
        BY <3>1, <3>2
    <2>3. CASE q = r
      <3>1. Senders(r)' \subseteq Senders(r) \cup {w}
        BY <2>1 DEF Senders, OthersStay
      <3>2. outbox'[r].attempts = outbox[r].attempts + 1
        BY <1>10, <2>3 DEF ClaimRow
      <3> QED
        BY <1>1, <2>1, <2>2, <3>1, <3>2, PaidClaim
    <2>4. CASE q # r
      <3>1. Senders(r)' \subseteq Senders(r)
        BY <2>1, <2>4 DEF Senders, OthersStay
      <3>2. outbox'[r] = outbox[r] \/ outbox'[r] = DeadLetter(outbox[r])
        BY <1>10, <2>4 DEF ClaimRow
      <3>3. outbox'[r].attempts = outbox[r].attempts
        BY <1>1, <3>2 DEF DeadLetter, TypeOK, OutboxRow
      <3> QED
        BY <1>1, <2>1, <2>2, <3>1, <3>3, PaidFrame
    <2> QED
      BY <2>3, <2>4
  <1>11. ASSUME NEW w \in Workers, ProviderAccepts(w) PROVE PaidFor(r)'
    <2>1. OthersStay(w) /\ UNCHANGED <<outbox, deadLetters, adrift>>
      BY <1>1, <1>11, OneMoves DEF Worker, ProviderAccepts, tables
    <2>2. Senders(r)' \subseteq Senders(r) \ {w}
      BY <1>1, <1>11, <2>1, StopsSending DEF ProviderAccepts, TypeOK
    <2>3. CASE job[w].row = r
      <3>1. w \in Senders(r) /\ received'[r] + adrift'[r] = received[r] + adrift[r] + 1
        BY <1>1, <1>2, <1>11, <2>1, <2>3 DEF ProviderAccepts, Senders, TypeOK
      <3> QED
        BY <1>1, <2>1, <2>2, <3>1, PaidHandOver
    <2>4. CASE job[w].row # r
      <3>1. received'[r] = received[r]
        BY <1>1, <1>11, <2>4 DEF ProviderAccepts, TypeOK
      <3> QED
        BY <1>1, <2>1, <2>2, <3>1, PaidFrame
    <2> QED
      BY <2>3, <2>4
  <1>12. ASSUME NEW w \in Workers, Return(w) PROVE PaidFor(r)'
    <2>1. OthersStay(w) /\ phase'[w] # "sending" /\ UNCHANGED <<tables, received>>
      BY <1>1, <1>12, OneMoves
      DEF Worker, Return, ReturnDelivered, ReturnTransportFailure, ReturnRetryAfter,
          ReturnRaises, ReturnPermanent, Answered, Leave, world, TypeOK
    <2>2. LeaveRequest(w)
      BY <1>12
      DEF Return, ReturnDelivered, ReturnTransportFailure, ReturnRetryAfter,
          ReturnRaises, ReturnPermanent, LeaveRequest, world
    <2> QED
      BY <1>8, <2>1, <2>2
  <1>13. ASSUME NEW w \in Workers, Complete(w) PROVE PaidFor(r)'
    <2>1. OthersStay(w) /\ phase'[w] # "sending" /\ UNCHANGED <<received, adrift>>
      BY <1>1, <1>13, OneMoves
      DEF Worker, Complete, CompleteLeaseLost, CompleteDelivered, CompleteFailed,
          CompleteDeadLetter, Settles, Leave, world, TypeOK
    <2> QED
      BY <1>7, <1>13, <2>1, AttemptsStay
  <1>14. ASSUME NEW w \in Workers, Crash(w) \/ Restart(w) PROVE PaidFor(r)'
    <2>1. OthersStay(w) /\ phase'[w] # "sending" /\ LeaveRequest(w) /\ UNCHANGED <<tables, received>>
      BY <1>1, <1>14, OneMoves DEF Crash, Restart, Leave, LeaveRequest, world, TypeOK
    <2> QED
      BY <1>8, <2>1
  <1> QED
    BY <1>3, <1>4, <1>5, <1>6, <1>9, <1>10, <1>11, <1>12, <1>13, <1>14
    DEF Next, Worker, Claim

--------------------------------------------------------------------------------
(* The acceptances counted for a row never go away. *)
LEMMA ReceivedGrows ==
    ASSUME NEW r \in Rows, TypeOK, TypeOK', [Next]_vars
    PROVE  received'[r] >= received[r]
  <1>1. received[r] \in Nat
    BY DEF TypeOK
  <1>2. CASE UNCHANGED received
    BY <1>1, <1>2
  <1>3. ASSUME NEW w \in Workers, ProviderAccepts(w) PROVE received'[r] >= received[r]
    BY <1>1, <1>3 DEF ProviderAccepts, TypeOK
  <1>4. ASSUME NEW q \in Rows, ProviderAcceptsLate(q) PROVE received'[r] >= received[r]
    BY <1>1, <1>4 DEF ProviderAcceptsLate, TypeOK
  <1>5. ASSUME NEW w \in Workers, ReadClock(w) \/ Claim(w) \/ Crash(w) \/ Restart(w)
        PROVE  UNCHANGED received
    BY <1>5 DEF ReadClock, Claim, ClaimNothing, ClaimRow, Crash, Restart, world
  <1>6. ASSUME NEW w \in Workers, Return(w) PROVE UNCHANGED received
    BY <1>6
    DEF Return, ReturnDelivered, ReturnTransportFailure, ReturnRetryAfter, ReturnRaises,
        ReturnPermanent, Answered, world
  <1>7. ASSUME NEW w \in Workers, Complete(w) PROVE UNCHANGED received
    BY <1>7
    DEF Complete, CompleteLeaseLost, CompleteDelivered, CompleteFailed, CompleteDeadLetter,
        Settles, world
  <1>8. ASSUME NEW q \in Rows, Enqueue(q) \/ Requeue(q) PROVE UNCHANGED received
    BY <1>8 DEF Enqueue, Requeue, world
  <1>9. ASSUME Tick \/ UNCHANGED vars PROVE UNCHANGED received
    BY <1>9 DEF Tick, vars, world
  <1> QED
    BY <1>2, <1>3, <1>4, <1>5, <1>6, <1>7, <1>8, <1>9 DEF Next, Worker

(* What a worker takes for accepted has been received. *)
LEMMA AcceptedStep == IInv /\ IInv' /\ AcceptedIsReceived /\ [Next]_vars => AcceptedIsReceived'
  <1> SUFFICES ASSUME IInv, IInv', AcceptedIsReceived, [Next]_vars, NEW w \in Workers,
                      answer'[w] \in {"accepted", "delivered"}
               PROVE  received'[job'[w].row] > 0
    BY DEF AcceptedIsReceived
  <1>1. TypeOK /\ TypeOK' /\ WorkersAgree /\ WorkersAgree'
    BY DEF IInv
  <1>2. CASE /\ answer[w] \in {"accepted", "delivered"} /\ job'[w].row = job[w].row
    <2>1. job[w].row \in Rows
      BY <1>1, <1>2 DEF WorkersAgree, TypeOK, WorkerJob
    <2>2. received'[job[w].row] >= received[job[w].row] /\ received[job[w].row] > 0
      BY <1>1, <1>2, <2>1, ReceivedGrows DEF AcceptedIsReceived
    <2> QED
      BY <1>1, <1>2, <2>1, <2>2 DEF TypeOK
  <1>3. CASE ProviderAccepts(w)
    <2>1. job[w].row \in Rows /\ job' = job
      BY <1>1, <1>3 DEF ProviderAccepts, WorkersAgree, TypeOK, WorkerJob
    <2> QED
      BY <1>1, <1>3, <2>1 DEF ProviderAccepts, TypeOK
  <1>4. CASE UNCHANGED <<answer, job>>
    BY <1>2, <1>4
  <1>5. ASSUME NEW v \in Workers, v # w, Worker(v) \/ Crash(v) \/ Restart(v)
        PROVE  received'[job'[w].row] > 0
    BY <1>1, <1>2, <1>5, OneMoves DEF OthersStay
  <1>6. CASE Tick
    <2>1. answer'[w] = answer[w]
      BY <1>6 DEF Tick
    <2>2. job[w] \in WorkerJob /\ job[w] # None
      BY <1>1, <2>1 DEF WorkersAgree, TypeOK
    <2>3. job'[w].row = job[w].row
      BY <1>6, <2>2 DEF Tick, WorkerJob
    <2> QED
      BY <1>2, <2>1, <2>3
  <1>7. CASE ClaimNothing(w) \/ ReadClock(w)
    BY <1>1, <1>4, <1>7 DEF ReadClock, ClaimNothing
  <1>8. ASSUME NEW r \in Rows, ClaimRow(w, r) PROVE FALSE
    BY <1>1, <1>8 DEF ClaimRow, WorkersAgree
  <1>9. CASE Return(w)
    <2>1. ReturnDelivered(w)
      BY <1>1, <1>9
      DEF Return, ReturnTransportFailure, ReturnRetryAfter, ReturnRaises,
          ReturnPermanent, Answered, Leave, TypeOK
    <2> QED
      BY <1>2, <2>1 DEF ReturnDelivered, Answered
  <1>10. CASE Complete(w) \/ Crash(w) \/ Restart(w)
    BY <1>1, <1>10
    DEF Complete, CompleteLeaseLost, CompleteDelivered, CompleteFailed, CompleteDeadLetter,
        Settles, Crash, Restart, Leave, TypeOK
  <1> QED
    BY <1>3, <1>4, <1>5, <1>6, <1>7, <1>8, <1>9, <1>10
    DEF Next, Worker, Claim, Enqueue, Requeue, ProviderAcceptsLate, locals, vars

LEMMA DeliveryInit == Init => DeliveryInv
  <1> SUFFICES ASSUME Init PROVE DeliveryInv
    OBVIOUS
  <1>1. IInv
    BY InitInvariant
  <1>2. ASSUME NEW r \in Rows PROVE PaidFor(r)
    <2>1. Senders(r) = {}
      BY DEF Init, Senders
    <2>2. Cardinality({}) = 0
      BY FS_EmptySet
    <2> QED
      BY <2>1, <2>2, PolicyAssumption DEF Init, PaidFor, NewRow
  <1>3. AcceptedIsReceived
    BY DEF Init, AcceptedIsReceived
  <1> QED
    BY <1>1, <1>2, <1>3 DEF DeliveryInv, SendsPaidFor

LEMMA DeliveryStep == DeliveryInv /\ [Next]_vars => DeliveryInv'
  BY IInvStep, SendsPaidForStep, AcceptedStep DEF DeliveryInv

THEOREM DeliveryInvariant == Spec => []DeliveryInv
  BY DeliveryInit, DeliveryStep, PTL DEF Spec

(* Every request the provider has accepted or may still accept was counted *)
(* against the attempt budget by the claim that preceded it.               *)
THEOREM AttemptsArePaidFor == Spec => []SendsPaidFor
  <1>1. DeliveryInv => SendsPaidFor
    BY DEF DeliveryInv
  <1> QED
    BY <1>1, DeliveryInvariant, PTL

--------------------------------------------------------------------------------
(* The ledger's view of a row depends on its status alone. *)
LEMMA LedgerStateOf ==
    ASSUME NEW r \in Rows
    PROVE  /\ outbox[r].status = "absent" => LedgerState(r) = "absent"
           /\ outbox[r].status \in Open => LedgerState(r) = "open"
           /\ outbox[r].status = "delivered" => LedgerState(r) = "delivered"
           /\ outbox[r].status = "dead_letter" => LedgerState(r) = "abandoned"
  BY DEF LedgerState, Open

LEMMA LedgerStateNext ==
    ASSUME NEW r \in Rows
    PROVE  /\ outbox'[r].status = "absent" => LedgerState(r)' = "absent"
           /\ outbox'[r].status \in Open => LedgerState(r)' = "open"
           /\ outbox'[r].status = "delivered" => LedgerState(r)' = "delivered"
           /\ outbox'[r].status = "dead_letter" => LedgerState(r)' = "abandoned"
           /\ outbox'[r].status = outbox[r].status => LedgerState(r)' = LedgerState(r)
  BY DEF LedgerState, Open

LEMMA LedgerInit == Init => Ledger!Init
  BY DEF Init, Ledger!Init, LedgerState, NewRow

(* A step that changes no status, acceptance or re-arming is a stutter. *)
LEMMA LedgerStutter ==
    ASSUME \A r \in Rows : /\ outbox'[r].status = outbox[r].status
                           /\ deadLetters'[r].requeued = deadLetters[r].requeued,
           UNCHANGED received
    PROVE  UNCHANGED Ledger!vars
  <1>1. [r \in Rows |-> LedgerState(r)]' = [r \in Rows |-> LedgerState(r)]
    BY LedgerStateNext
  <1>2. [r \in Rows |-> deadLetters[r].requeued]' = [r \in Rows |-> deadLetters[r].requeued]
    OBVIOUS
  <1> QED
    BY <1>1, <1>2 DEF Ledger!vars

(* Burying any number of open rows is one step of the ledger. *)
LEMMA LedgerAbandon ==
    ASSUME NEW S \in SUBSET Rows,
           \A r \in S : outbox[r].status \in Open /\ outbox'[r].status = "dead_letter",
           \A r \in Rows \ S :
              outbox'[r].status = outbox[r].status
                 \/ (outbox[r].status \in Open /\ outbox'[r].status \in Open),
           \A r \in Rows : deadLetters'[r].requeued = deadLetters[r].requeued,
           UNCHANGED received
    PROVE  Ledger!Next
  <1>1. \A r \in S : LedgerState(r) = "open" /\ LedgerState(r)' = "abandoned"
    BY LedgerStateOf, LedgerStateNext
  <1>2. \A r \in Rows \ S : LedgerState(r)' = LedgerState(r)
    BY LedgerStateOf, LedgerStateNext
  <1>3. Ledger!Abandon(S)
    BY <1>1, <1>2 DEF Ledger!Abandon
  <1> QED
    BY <1>3 DEF Ledger!Next

(* A request still on its way leaves room in the ledger's budget. *)
LEMMA RoomToAccept ==
    ASSUME NEW r \in Rows, DeliveryInv,
           adrift[r] > 0 \/ (\E w \in Workers : w \in Senders(r))
    PROVE  LedgerState(r) # "absent" /\ received[r] < MaxAttempts * (deadLetters[r].requeued + 1)
  <1>1. TypeOK /\ RowAgrees(r) /\ PaidFor(r)
    BY DEF DeliveryInv, IInv, TablesAgree, SendsPaidFor
  <1>2. /\ received[r] \in Nat /\ adrift[r] \in Nat /\ deadLetters[r].requeued \in Nat
        /\ outbox[r].attempts \in 0..MaxAttempts /\ Cardinality(Senders(r)) \in Nat
    BY <1>1, SendersCount DEF TypeOK, OutboxRow
  <1>3. adrift[r] + Cardinality(Senders(r)) > 0
    <2>1. ASSUME NEW w \in Senders(r) PROVE Cardinality(Senders(r)) > 0
      BY <1>2, SendersCount, FS_EmptySet
    <2> QED
      BY <1>2, <2>1
  <1> DEFINE paid == MaxAttempts * deadLetters[r].requeued
  <1>4. /\ paid \in Int /\ MaxAttempts * (deadLetters[r].requeued + 1) = paid + MaxAttempts
        /\ deadLetters[r].requeued = 0 => paid = 0
    BY <1>2, PolicyAssumption
  <1>5. received[r] + adrift[r] + Cardinality(Senders(r)) <= paid + outbox[r].attempts
    BY <1>1 DEF PaidFor
  <1> HIDE DEF paid
  <1>6. received[r] < paid + MaxAttempts
    BY <1>2, <1>3, <1>4, <1>5, PolicyAssumption
  <1>7. outbox[r].status # "absent"
    BY <1>1, <1>2, <1>3, <1>4, <1>5 DEF RowAgrees
  <1>8. outbox[r].status \in Open \cup {"delivered", "dead_letter"}
    BY <1>1, <1>7 DEF TypeOK, OutboxRow, Statuses, Open
  <1> QED
    BY <1>4, <1>6, <1>8, LedgerStateOf

(* Every step of the outbox is a step of the ledger or a stutter. *)
LEMMA LedgerStep == DeliveryInv /\ DeliveryInv' /\ [Next]_vars => [Ledger!Next]_(Ledger!vars)
  <1> SUFFICES ASSUME DeliveryInv, DeliveryInv', [Next]_vars
               PROVE  Ledger!Next \/ UNCHANGED Ledger!vars
    OBVIOUS
  <1>1. TypeOK /\ TypeOK' /\ WorkersAgree /\ TablesAgree
    BY DEF DeliveryInv, IInv
  <1>2. CASE UNCHANGED <<outbox, deadLetters, received>>
    BY <1>2, LedgerStutter
  <1>3. ASSUME NEW r \in Rows, Enqueue(r) PROVE Ledger!Next
    <2>1. outbox[r].status = "absent" /\ outbox'[r].status = "pending"
      BY <1>1, <1>3 DEF Enqueue, NewRow, TypeOK
    <2>2. \A q \in Rows : q # r => LedgerState(q)' = LedgerState(q)
      BY <1>1, <1>3, LedgerStateNext DEF Enqueue, TypeOK
    <2>3. UNCHANGED <<deadLetters, received>>
      BY <1>3 DEF Enqueue, world
    <2>4. LedgerState(r) = "absent" /\ LedgerState(r)' = "open"
      BY <2>1, LedgerStateOf, LedgerStateNext DEF Open
    <2>5. Ledger!Post(r)
      BY <2>2, <2>3, <2>4 DEF Ledger!Post
    <2> QED
      BY <2>5 DEF Ledger!Next
  <1>4. ASSUME NEW r \in Rows, Requeue(r) PROVE Ledger!Next
    <2>1. outbox[r].status = "dead_letter" /\ outbox'[r].status = "pending"
      BY <1>1, <1>4 DEF Requeue, NewRow, TypeOK
    <2>2. \A q \in Rows : q # r => /\ LedgerState(q)' = LedgerState(q)
                                   /\ deadLetters'[q].requeued = deadLetters[q].requeued
      BY <1>1, <1>4, LedgerStateNext DEF Requeue, TypeOK
    <2>3. deadLetters'[r].requeued = deadLetters[r].requeued + 1 /\ UNCHANGED received
      BY <1>1, <1>4, <2>1 DEF Requeue, TablesAgree, RowAgrees, TypeOK, world
    <2>4. LedgerState(r) = "abandoned" /\ LedgerState(r)' = "open"
      BY <2>1, LedgerStateOf, LedgerStateNext DEF Open
    <2>5. Ledger!Rearm(r)
      BY <2>2, <2>3, <2>4 DEF Ledger!Rearm
    <2> QED
      BY <2>5 DEF Ledger!Next
  <1>5. ASSUME NEW r \in Rows, received' = [received EXCEPT ![r] = @ + 1],
               UNCHANGED <<outbox, deadLetters>>,
               adrift[r] > 0 \/ (\E w \in Workers : w \in Senders(r))
        PROVE  Ledger!Next
    <2>1. LedgerState(r) # "absent" /\ received[r] < MaxAttempts * (deadLetters[r].requeued + 1)
      BY <1>5, RoomToAccept
    <2>2. \A q \in Rows : LedgerState(q)' = LedgerState(q)
      BY <1>5, LedgerStateNext
    <2>3. Ledger!Accept(r)
      BY <1>5, <2>1, <2>2 DEF Ledger!Accept
    <2> QED
      BY <2>3 DEF Ledger!Next
  <1>6. ASSUME NEW r \in Rows, ProviderAcceptsLate(r) PROVE Ledger!Next
    BY <1>5, <1>6 DEF ProviderAcceptsLate, tables
  <1>7. ASSUME NEW w \in Workers, ProviderAccepts(w) PROVE Ledger!Next
    <2>1. job[w].row \in Rows /\ w \in Senders(job[w].row)
      BY <1>1, <1>7 DEF ProviderAccepts, WorkersAgree, TypeOK, WorkerJob, Senders
    <2> QED
      BY <1>5, <1>7, <2>1 DEF ProviderAccepts, tables
  <1>8. ASSUME NEW w \in Workers, ClaimNothing(w) PROVE Ledger!Next
    <2> DEFINE S == Buried(Rows, reading[w])
    <2>1. S \in SUBSET Rows /\ UNCHANGED received
      BY <1>8 DEF ClaimNothing, Buried, world
    <2>2. \A r \in S : outbox[r].status \in Open /\ outbox'[r].status = "dead_letter"
      BY <1>1, <1>8 DEF ClaimNothing, Buried, Exhausted, Candidate, DeadLetter, TypeOK, OutboxRow
    <2>3. \A r \in Rows \ S : outbox'[r].status = outbox[r].status
      BY <1>8 DEF ClaimNothing
    <2>4. \A r \in Rows : deadLetters'[r].requeued = deadLetters[r].requeued
      BY <1>8, AttemptsStay DEF DeliveryInv
    <2> HIDE DEF S
    <2> QED
      BY <2>1, <2>2, <2>3, <2>4, LedgerAbandon
  <1>9. ASSUME NEW w \in Workers, NEW r \in Rows, ClaimRow(w, r) PROVE Ledger!Next
    <2> DEFINE S == Buried({q \in Rows : q <= r}, reading[w])
    <2>1. S \in SUBSET Rows /\ r \notin S /\ UNCHANGED received
      BY <1>9 DEF ClaimRow, Claimable, Buried, world
    <2>2. \A q \in S : outbox[q].status \in Open /\ outbox'[q].status = "dead_letter"
      BY <1>1, <1>9, <2>1 DEF ClaimRow, Buried, Exhausted, Candidate, DeadLetter, TypeOK, OutboxRow
    <2>3. \A q \in Rows \ S : q # r => outbox'[q].status = outbox[q].status
      BY <1>9 DEF ClaimRow
    <2>4. outbox[r].status \in Open /\ outbox'[r].status = "in_flight"
      BY <1>9 DEF ClaimRow, Claimable, Candidate
    <2>5. ASSUME NEW q \in Rows PROVE deadLetters'[q].requeued = deadLetters[q].requeued
      <3>1. \/ deadLetters'[q] = deadLetters[q]
            \/ deadLetters'[q] = [deadLetters[q] EXCEPT !.active = @ + 1]
        BY <1>9 DEF ClaimRow
      <3>2. deadLetters[q] \in [active : Nat, requeued : Nat]
        BY <1>1 DEF TypeOK
      <3> QED
        BY <3>1, <3>2
    <2>6. \A q \in Rows \ S : outbox'[q].status = outbox[q].status
             \/ (outbox[q].status \in Open /\ outbox'[q].status \in Open)
      BY <2>3, <2>4 DEF Open
    <2> HIDE DEF S
    <2> QED
      BY <2>1, <2>2, <2>5, <2>6, LedgerAbandon
  <1>10. ASSUME NEW w \in Workers, Settles(w)
         PROVE  /\ job[w].row \in Rows /\ outbox[job[w].row].status = "in_flight"
                /\ UNCHANGED received
    BY <1>1, <1>10
    DEF Settles, OwnsLease, WorkersAgree, TablesAgree, RowAgrees, TypeOK, WorkerJob, world
  <1>11. ASSUME NEW w \in Workers, CompleteDelivered(w) PROVE Ledger!Next
    <2>0. PICK r \in Rows : r = job[w].row
      BY <1>10, <1>11 DEF CompleteDelivered
    <2>1. outbox[r].status = "in_flight" /\ outbox'[r].status = "delivered"
      BY <1>1, <1>10, <1>11, <2>0 DEF CompleteDelivered, TypeOK, OutboxRow
    <2>2. \A q \in Rows : q # r => LedgerState(q)' = LedgerState(q)
      BY <1>1, <1>11, <2>0, LedgerStateNext DEF CompleteDelivered, TypeOK
    <2>3. UNCHANGED <<deadLetters, received>> /\ received[r] > 0
      BY <1>10, <1>11, <2>0 DEF CompleteDelivered, DeliveryInv, AcceptedIsReceived
    <2>4. LedgerState(r) = "open" /\ LedgerState(r)' = "delivered"
      BY <2>1, LedgerStateOf, LedgerStateNext DEF Open
    <2>5. Ledger!Acknowledge(r)
      BY <2>2, <2>3, <2>4 DEF Ledger!Acknowledge
    <2> QED
      BY <2>5 DEF Ledger!Next
  <1>12. ASSUME NEW w \in Workers, CompleteFailed(w) PROVE Ledger!Next
    <2>0. PICK r \in Rows : r = job[w].row
      BY <1>10, <1>12 DEF CompleteFailed
    <2>1. outbox[r].status = "in_flight" /\ outbox'[r].status = "failed"
      BY <1>1, <1>10, <1>12, <2>0 DEF CompleteFailed, TypeOK, OutboxRow
    <2>2. \A q \in Rows : q # r => outbox'[q].status = outbox[q].status
      BY <1>1, <1>12, <2>0 DEF CompleteFailed, TypeOK
    <2>3. \A q \in Rows : deadLetters'[q].requeued = deadLetters[q].requeued
      BY <1>12 DEF CompleteFailed
    <2> QED
      BY <1>10, <1>12, <2>1, <2>2, <2>3, LedgerAbandon, {} \in SUBSET Rows
      DEF CompleteFailed, Open
  <1>13. ASSUME NEW w \in Workers, CompleteDeadLetter(w) PROVE Ledger!Next
    <2>0. PICK r \in Rows : r = job[w].row
      BY <1>10, <1>13 DEF CompleteDeadLetter
    <2>1. outbox[r].status = "in_flight" /\ outbox'[r].status = "dead_letter"
      BY <1>1, <1>10, <1>13, <2>0 DEF CompleteDeadLetter, DeadLetter, TypeOK, OutboxRow
    <2>2. \A q \in Rows : q # r => outbox'[q].status = outbox[q].status
      BY <1>1, <1>13, <2>0 DEF CompleteDeadLetter, TypeOK
    <2>3. \A q \in Rows : deadLetters'[q].requeued = deadLetters[q].requeued
      BY <1>13, AttemptsStay DEF Complete, DeliveryInv
    <2>4. {r} \in SUBSET Rows /\ UNCHANGED received
      BY <1>10, <1>13 DEF CompleteDeadLetter
    <2> QED
      BY <2>1, <2>2, <2>3, <2>4, LedgerAbandon DEF Open
  <1>14. CASE Tick
    <2>1. \A r \in Rows : outbox'[r].status = outbox[r].status
      BY <1>1, <1>14 DEF Tick, TypeOK, OutboxRow
    <2> QED
      BY <1>14, <2>1, LedgerStutter DEF Tick, world
  <1> QED
    BY <1>2, <1>3, <1>4, <1>6, <1>7, <1>8, <1>9, <1>11, <1>12, <1>13, <1>14
    DEF Next, Worker, Claim, Complete, CompleteLeaseLost, Return, ReturnDelivered,
        ReturnTransportFailure, ReturnRetryAfter, ReturnRaises, ReturnPermanent, Answered,
        ReadClock, Crash, Restart, tables, world, vars

(* The outbox implements the ledger of notifications: whatever crashes,    *)
(* expiries and late answers do, an alert is posted once, acknowledged     *)
(* only when the provider has it, never un-delivered, and accepted at most *)
(* max_attempts times per arming.                                          *)
THEOREM OutboxImplementsLedger == Spec => ImplementsLedger
  BY LedgerInit, LedgerStep, DeliveryInvariant, PTL DEF Spec, ImplementsLedger, Ledger!Spec
================================================================================
