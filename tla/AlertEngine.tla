------------------------------- MODULE AlertEngine -------------------------------
(***************************************************************************)
(* Stateful alert evaluation: evaluate_policies_with_state                 *)
(* (alerts/engine.py) with the AlertStateRow and AlertOutboxRow tables it  *)
(* reads and writes (get_alert_state and save_alert_transition in          *)
(* storage/metadata.py).  It runs in the threads of the HTTP API and in    *)
(* the alerts-evaluate command, over one database.                         *)
(*                                                                         *)
(* An evaluation looks at one dataset and then handles its policies one    *)
(* by one, each in three database steps: it reads the stored state in a    *)
(* session of its own, it reads the row again when it merges the new       *)
(* state, and it writes in the commit.  Only the last is a transaction:    *)
(* pysqlite opens one at the first INSERT or UPDATE, so the two SELECTs    *)
(* hold nothing.  The commit writes the columns in which the new state     *)
(* differs from the row the merge read, and the outbox row with them.      *)
(*                                                                         *)
(* Time is the number of datasets published so far: it is what             *)
(* evaluated_at and as_of are worth to the properties.                     *)
(*                                                                         *)
(* A definition marked "mutant" is a wrong version of the one that follows *)
(* it and is used by nothing: replacing that one by it breaks a property.  *)
(***************************************************************************)
EXTENDS Integers, Sequences

CONSTANTS
    NumPolicies,    \* length of AlertPolicySet.policies
    Evaluators,     \* API threads and alerts-evaluate processes
    MaxDatasets,    \* bound: datasets published
    MaxCrashes,     \* bound: evaluations cut short by a crash
    None            \* SQL NULL, or no row

ASSUME PoliciesAssumption == NumPolicies \in Nat \ {0}
ASSUME BoundsAssumption == MaxDatasets \in Nat /\ MaxCrashes \in Nat

Policies == 1..NumPolicies

(* evaluated_at and as_of, an AlertEvaluationResult, and the columns of *)
(* AlertStateRow.                                                        *)
Instants == 1..MaxDatasets
EvaluationResult == [matched : [Policies -> BOOLEAN], evaluated_at : Instants]
StateRow ==
    [active : BOOLEAN, last_changed_at : Instants,
     last_triggered_at : Instants \cup {None}, last_as_of : Instants]

ASSUME NoneAssumption == None \notin Instants \cup StateRow \cup EvaluationResult

VARIABLES
    dataset,        \* number of the newest dataset
    matches,        \* does policy p match the newest dataset?
    rises,          \* how often p has begun to match (history)
    alertState,     \* AlertStateRow of each policy, or None
    posted,         \* created_at of each policy's AlertOutboxRows, in commit order
    phase,          \* the step each evaluator is at
    evaluation,     \* its PolicyEvaluations and their date, or None
    at,             \* the policy it handles
    existing,       \* the state it read first, or None
    base,           \* the row its merge loaded, or None
    crashes,        \* evaluations cut short so far
    overlapped      \* has one begun while another was under way? (history)

market   == <<dataset, matches, rises>>
database == <<alertState, posted>>
locals   == <<phase, evaluation, at, existing, base>>
vars     == <<market, database, locals, crashes, overlapped>>

Active(p) == alertState[p] # None /\ alertState[p].active

--------------------------------------------------------------------------------
Init ==
    /\ dataset = 0
    /\ matches = [p \in Policies |-> FALSE]
    /\ rises = [p \in Policies |-> 0]
    /\ alertState = [p \in Policies |-> None]
    /\ posted = [p \in Policies |-> <<>>]
    /\ phase = [e \in Evaluators |-> "idle"]
    /\ evaluation = [e \in Evaluators |-> None]
    /\ at = [e \in Evaluators |-> 1]
    /\ existing = [e \in Evaluators |-> None]
    /\ base = [e \in Evaluators |-> None]
    /\ crashes = 0
    /\ overlapped = FALSE

(* Ingestion publishes a dataset that the policies judge anew. *)
Publish ==
    /\ dataset < MaxDatasets
    /\ dataset' = dataset + 1
    /\ matches' \in [Policies -> BOOLEAN]
    /\ rises' = [p \in Policies |->
          IF matches'[p] /\ ~matches[p] THEN rises[p] + 1 ELSE rises[p]]
    /\ UNCHANGED <<database, locals, crashes, overlapped>>

(* evaluate_policies: a pure look at the dataset that is newest now. *)
Evaluate(e) ==
    /\ phase[e] = "idle"
    /\ dataset > 0
    /\ phase' = [phase EXCEPT ![e] = "reading"]
    /\ evaluation' = [evaluation EXCEPT ![e] =
          [matched |-> matches, evaluated_at |-> dataset]]
    /\ at' = [at EXCEPT ![e] = 1]
    /\ overlapped' = (overlapped \/ \E other \in Evaluators : phase[other] # "idle")
    /\ UNCHANGED <<market, database, existing, base, crashes>>

(* get_alert_state. *)
ReadState(e) ==
    /\ phase[e] = "reading"
    /\ existing' = [existing EXCEPT ![e] = alertState[at[e]]]
    /\ phase' = [phase EXCEPT ![e] = "merging"]
    /\ UNCHANGED <<market, database, evaluation, at, base, crashes, overlapped>>

(* session.merge in save_alert_transition loads the row by its key. *)
MergeState(e) ==
    /\ phase[e] = "merging"
    /\ base' = [base EXCEPT ![e] = alertState[at[e]]]
    /\ phase' = [phase EXCEPT ![e] = "committing"]
    /\ UNCHANGED <<market, database, evaluation, at, existing, crashes, overlapped>>

--------------------------------------------------------------------------------
(* The transition the evaluation decides from the state it read first. *)

Matched(e)        == evaluation[e].matched[at[e]]
PreviousActive(e) == existing[e] # None /\ existing[e].active
NotifyAlways(e)   == Matched(e)                                           \* mutant
Notify(e)         == Matched(e) /\ ~PreviousActive(e)

Changes(e) == existing[e] = None \/ PreviousActive(e) # Matched(e)
ChangedAt(e) ==
    IF Changes(e) THEN evaluation[e].evaluated_at ELSE existing[e].last_changed_at

LastTriggeredAtReset(e) ==                                                \* mutant
    IF Notify(e) THEN evaluation[e].evaluated_at ELSE None
LastTriggeredAt(e) ==
    IF Notify(e) THEN evaluation[e].evaluated_at
    ELSE IF existing[e] # None THEN existing[e].last_triggered_at ELSE None

NewStateKeptActive(e) ==                                                  \* mutant
    [active |-> Matched(e) \/ PreviousActive(e),
     last_changed_at |-> ChangedAt(e),
     last_triggered_at |-> LastTriggeredAt(e),
     last_as_of |-> evaluation[e].evaluated_at]
NewState(e) ==
    [active |-> Matched(e),
     last_changed_at |-> ChangedAt(e),
     last_triggered_at |-> LastTriggeredAt(e),
     last_as_of |-> evaluation[e].evaluated_at]

(* An UPDATE sets the columns that differ from the row the merge loaded;   *)
(* the others keep what the table holds by now.  The evaluated_at of an    *)
(* evaluation is an instant no row holds yet: a column it stamps differs.  *)
Stamps(e) ==
    {column \in {"last_changed_at", "last_triggered_at"} :
        IF column = "last_changed_at" THEN Changes(e) ELSE Notify(e)}

Column(e, column, row) ==
    IF column \in Stamps(e) \/ NewState(e)[column] # base[e][column]
    THEN NewState(e)[column] ELSE row[column]

Update(e, row) ==
    [active |-> Column(e, "active", row),
     last_changed_at |-> Column(e, "last_changed_at", row),
     last_triggered_at |-> Column(e, "last_triggered_at", row),
     last_as_of |-> Column(e, "last_as_of", row)]

Saved(e) ==
    [alertState EXCEPT ![at[e]] =
        IF base[e] = None THEN NewState(e) ELSE Update(e, @)]

(* The INSERT of a policy's first row fails when another evaluator has     *)
(* inserted it since.                                                      *)
InsertConflict(e) == base[e] = None /\ alertState[at[e]] # None

Enqueued(e) ==
    IF Notify(e)
    THEN [posted EXCEPT ![at[e]] = Append(@, evaluation[e].evaluated_at)]
    ELSE posted

Finish(e) ==
    /\ phase' = [phase EXCEPT ![e] = "idle"]
    /\ evaluation' = [evaluation EXCEPT ![e] = None]
    /\ at' = [at EXCEPT ![e] = 1]
    /\ existing' = [existing EXCEPT ![e] = None]
    /\ base' = [base EXCEPT ![e] = None]

NextPolicyPastEnd(e) ==                                                   \* mutant
    /\ at' = [at EXCEPT ![e] = @ + 1]
    /\ phase' = [phase EXCEPT ![e] = "reading"]
    /\ existing' = [existing EXCEPT ![e] = None]
    /\ base' = [base EXCEPT ![e] = None]
    /\ UNCHANGED evaluation
NextPolicy(e) ==
    IF at[e] + 1 \in Policies
    THEN /\ at' = [at EXCEPT ![e] = @ + 1]
         /\ phase' = [phase EXCEPT ![e] = "reading"]
         /\ existing' = [existing EXCEPT ![e] = None]
         /\ base' = [base EXCEPT ![e] = None]
         /\ UNCHANGED evaluation
    ELSE Finish(e)

CommitStateOnly(e) ==                                                     \* mutant
    /\ phase[e] = "committing"
    /\ ~InsertConflict(e)
    /\ alertState' = Saved(e)
    /\ NextPolicy(e)
    /\ UNCHANGED <<market, posted, crashes, overlapped>>

(* session.commit: state and outbox row in one transaction. *)
Commit(e) ==
    /\ phase[e] = "committing"
    /\ ~InsertConflict(e)
    /\ alertState' = Saved(e)
    /\ posted' = Enqueued(e)
    /\ NextPolicy(e)
    /\ UNCHANGED <<market, crashes, overlapped>>

(* IntegrityError: rolled back, and the evaluation ends with the policies  *)
(* after this one unhandled.                                               *)
CommitConflict(e) ==
    /\ phase[e] = "committing"
    /\ InsertConflict(e)
    /\ Finish(e)
    /\ UNCHANGED <<market, database, crashes, overlapped>>

(* The process dies, or a database error ends the evaluation.  What was    *)
(* committed for earlier policies stays.                                   *)
Crash(e) ==
    /\ phase[e] # "idle"
    /\ crashes < MaxCrashes
    /\ crashes' = crashes + 1
    /\ Finish(e)
    /\ UNCHANGED <<market, database, overlapped>>

Step(e) ==
    Evaluate(e) \/ ReadState(e) \/ MergeState(e) \/ Commit(e) \/ CommitConflict(e)

Next == Publish \/ \E e \in Evaluators : Step(e) \/ Crash(e)

Spec == Init /\ [][Next]_vars

(* Cron keeps starting evaluations, and a started one goes on. *)
FairSpec == Spec /\ \A e \in Evaluators : WF_vars(Step(e))

--------------------------------------------------------------------------------
(* Properties. *)

(* Every value has its type. *)
TypeOK ==
    /\ dataset \in 0..MaxDatasets
    /\ matches \in [Policies -> BOOLEAN]
    /\ rises \in [Policies -> Nat]
    /\ alertState \in [Policies -> StateRow \cup {None}]
    /\ posted \in [Policies -> Seq(Instants)]
    /\ phase \in [Evaluators -> {"idle", "reading", "merging", "committing"}]
    /\ evaluation \in [Evaluators -> EvaluationResult \cup {None}]
    /\ at \in [Evaluators -> Policies]
    /\ existing \in [Evaluators -> StateRow \cup {None}]
    /\ base \in [Evaluators -> StateRow \cup {None}]
    /\ crashes \in 0..MaxCrashes
    /\ overlapped \in BOOLEAN

Alerts(p) == {posted[p][i] : i \in DOMAIN posted[p]}

(* Whoever commits, and whichever columns an UPDATE leaves out, a policy   *)
(* with an outbox row has a state row, and the trigger time a state row    *)
(* shows is that of an outbox row: neither is ever written without the     *)
(* other (save_alert_transition: "Persist alert state and its notification *)
(* enqueue in one transaction").                                           *)
StateAndAlertTogether ==
    \A p \in Policies :
       /\ posted[p] # <<>> => alertState[p] # None
       /\ alertState[p] # None /\ alertState[p].last_triggered_at # None =>
             alertState[p].last_triggered_at \in Alerts(p)

(* While no two evaluations overlap, a policy gets no more alerts than     *)
(* there were times its condition began to hold, whoever evaluates and     *)
(* wherever an evaluation is cut short (docs/alert-state.md: "A            *)
(* continuously true condition does not become a new alert every time cron *)
(* runs").                                                                 *)
OneAlertPerRise == ~overlapped => \A p \in Policies : Len(posted[p]) <= rises[p]

(* While no two evaluations overlap, the trigger time of a state row is    *)
(* that of the latest alert of all, and an active state was alerted when   *)
(* it last changed (docs/alert-state.md: last_triggered_at is "when it     *)
(* most recently created a new notification").                             *)
LatestAlert(p) == IF posted[p] = <<>> THEN None ELSE posted[p][Len(posted[p])]

ActiveWasAlerted ==
    ~overlapped =>
       \A p \in Policies : alertState[p] # None =>
          /\ alertState[p].last_triggered_at = LatestAlert(p)
          /\ alertState[p].active =>
                alertState[p].last_triggered_at = alertState[p].last_changed_at

(* While no two evaluations overlap, a step posts an alert of a policy     *)
(* exactly when it turns the stored state from inactive to active, one     *)
(* alert, of the instant the state row then shows; recovery and what goes  *)
(* on posts none, and no crash comes between (docs/alert-state.md:         *)
(* "inactive + match -> active, enqueue once").                            *)
EdgeTriggered ==
    [][~overlapped' =>
          \A p \in Policies :
             \/ posted'[p] = posted[p] /\ (Active(p)' => Active(p))
             \/ /\ ~Active(p) /\ Active(p)'
                /\ posted'[p] = Append(posted[p], alertState'[p].last_changed_at)]_vars

(* Once no new dataset comes the stored states settle on what the newest   *)
(* one says, however many evaluations of older ones were still under way.  *)
StateConverges ==
    <>[](dataset > 0 =>
            \A p \in Policies : alertState[p] # None /\ Active(p) = matches[p])

(* An alert is enqueued only for a policy whose stored state is inactive   *)
(* (docs/alert-state.md: "active + match -> active, suppress duplicate").  *)
NoDuplicateAlert ==
    [][\A p \in Policies : posted'[p] # posted[p] => ~Active(p)]_vars

(* A stored state becomes active only together with a new alert            *)
(* (docs/alert-state.md: "On an inactive-to-active transition, OilSignal   *)
(* writes alert state and a new AlertOutboxRow in the same SQLite          *)
(* transaction").                                                          *)
NoLostAlert ==
    [][\A p \in Policies : ~Active(p) /\ Active(p)' => posted'[p] # posted[p]]_vars
================================================================================
