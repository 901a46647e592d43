--------------------------- MODULE NotificationLedger ---------------------------
(***************************************************************************)
(* What the outbox promises about one notification, without leases,        *)
(* workers, clocks or retries: it is posted once, the provider may accept  *)
(* it several times but never more often than the attempt budget of each   *)
(* arming allows, it is acknowledged only after an acceptance and then     *)
(* for good, or it is abandoned, and an operator may re-arm what was       *)
(* abandoned (docs/alert-state.md, "Transactional outbox" and "Delivery    *)
(* guarantee").  AlertOutbox implements this specification.                *)
(***************************************************************************)
EXTENDS Integers

CONSTANTS
    Rows,       \* notifications
    Budget      \* max_attempts, a positive number

VARIABLES
    state,      \* absent, open, delivered or abandoned
    received,   \* acceptances by the provider
    rearmed     \* times an operator re-armed the notification

vars == <<state, received, rearmed>>

Init ==
    /\ state = [r \in Rows |-> "absent"]
    /\ received = [r \in Rows |-> 0]
    /\ rearmed = [r \in Rows |-> 0]

Post(r) ==
    /\ state[r] = "absent"
    /\ state' = [state EXCEPT ![r] = "open"]
    /\ UNCHANGED <<received, rearmed>>

(* A request may be accepted late: when the row is already closed, too. *)
Accept(r) ==
    /\ state[r] # "absent"
    /\ received[r] < Budget * (rearmed[r] + 1)
    /\ received' = [received EXCEPT ![r] = @ + 1]
    /\ UNCHANGED <<state, rearmed>>

Acknowledge(r) ==
    /\ state[r] = "open"
    /\ received[r] > 0
    /\ state' = [state EXCEPT ![r] = "delivered"]
    /\ UNCHANGED <<received, rearmed>>

(* One claim can meet several rows whose budget is spent. *)
Abandon(S) ==
    /\ \A r \in S : state[r] = "open"
    /\ state' = [r \in Rows |-> IF r \in S THEN "abandoned" ELSE state[r]]
    /\ UNCHANGED <<received, rearmed>>

Rearm(r) ==
    /\ state[r] = "abandoned"
    /\ state' = [state EXCEPT ![r] = "open"]
    /\ rearmed' = [rearmed EXCEPT ![r] = @ + 1]
    /\ UNCHANGED received

Next ==
    \/ \E r \in Rows : Post(r) \/ Accept(r) \/ Acknowledge(r) \/ Rearm(r)
    \/ \E S \in SUBSET Rows : Abandon(S)

Spec == Init /\ [][Next]_vars

(* No notification stays open for ever: each is delivered or shown to the  *)
(* operator as a dead letter (docs/alert-state.md, "If a worker dies       *)
(* before provider acceptance, an expired lease allows another worker to   *)
(* retry").                                                                *)
EveryAlertSettles ==
    \A r \in Rows : state[r] = "open" ~> state[r] \in {"delivered", "abandoned"}
================================================================================
