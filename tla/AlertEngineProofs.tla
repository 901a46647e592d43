--------------------------- MODULE AlertEngineProofs ---------------------------
(***************************************************************************)
(* Proofs about AlertEngine: for any number of policies, evaluators,       *)
(* datasets and crashes, the tables keep their types and an alert is never *)
(* recorded without its state nor a state without its alert; and while no  *)
(* two evaluations overlap a condition that begins to hold is alerted at   *)
(* most once, in the row that says so.                                     *)
(***************************************************************************)
EXTENDS AlertEngine, TLAPS

(* What an evaluation under way relies on: it has its evaluations, and the *)
(* row its merge loaded is this policy's and has not been deleted.         *)
Prepared(e) ==
    /\ phase[e] # "idle" => evaluation[e] # None
    /\ phase[e] \in {"idle", "reading"} => existing[e] = None /\ base[e] = None
    /\ base[e] # None => alertState[at[e]] # None

Inv == TypeOK /\ \A e \in Evaluators : Prepared(e)

--------------------------------------------------------------------------------
(* The transition an evaluation decides. *)

LEMMA NoneIsNoRow == \A row \in StateRow : row # None
BY NoneAssumption

LEMMA NewStateTyped ==
    ASSUME NEW e \in Evaluators, TypeOK, evaluation[e] # None
    PROVE  /\ at[e] \in Policies
           /\ Matched(e) \in BOOLEAN
           /\ Notify(e) \in BOOLEAN
           /\ LastTriggeredAt(e) \in Instants \cup {None}
           /\ NewState(e) \in StateRow
<1> DEFINE ev == evaluation[e]
<1>1. /\ at[e] \in Policies
      /\ ev \in [matched : [Policies -> BOOLEAN], evaluated_at : Instants]
      /\ existing[e] \in StateRow \cup {None}
  BY DEF TypeOK, EvaluationResult
<1>2. Matched(e) \in BOOLEAN /\ ev.evaluated_at \in Instants
  BY <1>1 DEF Matched
<1>3. Notify(e) \in BOOLEAN
  BY <1>2 DEF Notify
<1>4. LastTriggeredAt(e) \in Instants \cup {None}
  BY <1>1, <1>2 DEF LastTriggeredAt, StateRow
<1>5. ChangedAt(e) \in Instants
  BY <1>1, <1>2 DEF ChangedAt, Changes, StateRow
<1>6. NewState(e) \in StateRow
  BY <1>2, <1>4, <1>5 DEF NewState, StateRow
<1> QED BY <1>1, <1>2, <1>3, <1>4, <1>6

(* Whatever an UPDATE leaves out, the row it makes is one of the table. *)
LEMMA UpdateTyped ==
    ASSUME NEW e \in Evaluators, TypeOK, evaluation[e] # None,
           NEW row \in StateRow
    PROVE  Update(e, row) \in StateRow
<1>1. NewState(e) \in StateRow
  BY NewStateTyped
<1>2. Column(e, "active", row) \in BOOLEAN
  BY <1>1 DEF Column, StateRow
<1>3. Column(e, "last_changed_at", row) \in Instants
  BY <1>1 DEF Column, StateRow
<1>4. Column(e, "last_triggered_at", row) \in Instants \cup {None}
  BY <1>1 DEF Column, StateRow
<1>5. Column(e, "last_as_of", row) \in Instants
  BY <1>1 DEF Column, StateRow
<1> QED BY <1>2, <1>3, <1>4, <1>5 DEF Update, StateRow

(* The row a commit leaves for its policy. *)
SavedRow(e) ==
    IF base[e] = None THEN NewState(e) ELSE Update(e, alertState[at[e]])

LEMMA SavedTyped ==
    ASSUME NEW e \in Evaluators, Inv, phase[e] = "committing"
    PROVE  /\ at[e] \in Policies
           /\ SavedRow(e) \in StateRow
           /\ SavedRow(e) # None
           /\ Saved(e) = [alertState EXCEPT ![at[e]] = SavedRow(e)]
           /\ Saved(e) \in [Policies -> StateRow \cup {None}]
<1>1. TypeOK /\ evaluation[e] # None
  BY DEF Inv, Prepared
<1>2. at[e] \in Policies /\ NewState(e) \in StateRow
  BY <1>1, NewStateTyped
<1>3. alertState \in [Policies -> StateRow \cup {None}]
  BY <1>1 DEF TypeOK
<1>4. ASSUME base[e] # None PROVE Update(e, alertState[at[e]]) \in StateRow
  <2>1. alertState[at[e]] \in StateRow
    BY <1>2, <1>3, <1>4 DEF Inv, Prepared
  <2> QED BY <1>1, <2>1, UpdateTyped
<1>5. SavedRow(e) \in StateRow
  BY <1>2, <1>4 DEF SavedRow
<1>6. Saved(e) = [alertState EXCEPT ![at[e]] = SavedRow(e)]
  BY DEF Saved, SavedRow
<1> QED BY <1>2, <1>3, <1>5, <1>6, NoneIsNoRow

LEMMA EnqueuedTyped ==
    ASSUME NEW e \in Evaluators, Inv, phase[e] = "committing"
    PROVE  Enqueued(e) \in [Policies -> Seq(Instants)]
<1>1. TypeOK /\ evaluation[e] # None
  BY DEF Inv, Prepared
<1>2. /\ at[e] \in Policies
      /\ evaluation[e].evaluated_at \in Instants
      /\ posted \in [Policies -> Seq(Instants)]
  BY <1>1 DEF TypeOK, EvaluationResult
<1>3. Append(posted[at[e]], evaluation[e].evaluated_at) \in Seq(Instants)
  BY <1>2
<1> QED BY <1>2, <1>3 DEF Enqueued

--------------------------------------------------------------------------------
(* Type correctness. *)

LEMMA InvInit == Init => Inv
<1> SUFFICES ASSUME Init PROVE Inv
  OBVIOUS
<1>1. /\ matches \in [Policies -> BOOLEAN] /\ rises \in [Policies -> Nat]
      /\ posted \in [Policies -> Seq(Instants)]
  BY DEF Init
<1>2. 1 \in Policies /\ 0 \in 0..MaxDatasets /\ 0 \in 0..MaxCrashes
  BY PoliciesAssumption, BoundsAssumption DEF Policies
<1>3. TypeOK
  BY <1>1, <1>2 DEF Init, TypeOK
<1>4. \A e \in Evaluators : Prepared(e)
  BY DEF Init, Prepared
<1> QED BY <1>3, <1>4 DEF Inv

(* How a commit and its end leave the evaluator. *)
LEMMA FinishTyped ==
    ASSUME NEW e \in Evaluators, Inv, Finish(e)
    PROVE  /\ phase' \in [Evaluators -> {"idle", "reading", "merging", "committing"}]
           /\ evaluation' \in [Evaluators -> EvaluationResult \cup {None}]
           /\ at' \in [Evaluators -> Policies]
           /\ existing' \in [Evaluators -> StateRow \cup {None}]
           /\ base' \in [Evaluators -> StateRow \cup {None}]
           /\ phase'[e] = "idle" /\ existing'[e] = None /\ base'[e] = None
           /\ \A f \in Evaluators \ {e} :
                 /\ phase'[f] = phase[f] /\ evaluation'[f] = evaluation[f]
                 /\ existing'[f] = existing[f] /\ base'[f] = base[f]
                 /\ at'[f] = at[f]
<1>1. 1 \in Policies
  BY PoliciesAssumption DEF Policies
<1> QED BY <1>1 DEF Inv, TypeOK, Finish

LEMMA FinishPrepared ==
    ASSUME NEW e \in Evaluators, Inv, Finish(e), alertState' = alertState
    PROVE  \A f \in Evaluators : Prepared(f)'
<1>1. Prepared(e)'
  BY FinishTyped DEF Prepared
<1>2. ASSUME NEW f \in Evaluators \ {e} PROVE Prepared(f)'
  <2>1. Prepared(f)
    BY DEF Inv
  <2> QED BY <2>1, FinishTyped DEF Prepared
<1> QED BY <1>1, <1>2

LEMMA NextPolicyTyped ==
    ASSUME NEW e \in Evaluators, Inv, NextPolicy(e), phase[e] # "idle"
    PROVE  /\ phase' \in [Evaluators -> {"idle", "reading", "merging", "committing"}]
           /\ evaluation' \in [Evaluators -> EvaluationResult \cup {None}]
           /\ at' \in [Evaluators -> Policies]
           /\ existing' \in [Evaluators -> StateRow \cup {None}]
           /\ base' \in [Evaluators -> StateRow \cup {None}]
           /\ (phase'[e] # "idle" => evaluation'[e] # None)
           /\ existing'[e] = None /\ base'[e] = None
           /\ \A f \in Evaluators \ {e} :
                 /\ phase'[f] = phase[f] /\ evaluation'[f] = evaluation[f]
                 /\ existing'[f] = existing[f] /\ base'[f] = base[f]
                 /\ at'[f] = at[f]
<1>1. CASE at[e] + 1 \in Policies
  BY <1>1 DEF Inv, TypeOK, Prepared, NextPolicy
<1>2. CASE at[e] + 1 \notin Policies
  BY <1>2, FinishTyped DEF NextPolicy
<1> QED BY <1>1, <1>2

LEMMA InvStep == Inv /\ [Next]_vars => Inv'
<1> SUFFICES ASSUME Inv, [Next]_vars PROVE Inv'
  OBVIOUS
<1> USE DEF Inv
<1>1. CASE Publish
  <2>1. matches' \in [Policies -> BOOLEAN] /\ rises' \in [Policies -> Nat]
    BY <1>1 DEF Publish, TypeOK
  <2>2. dataset' \in 0..MaxDatasets
    BY <1>1, BoundsAssumption DEF Publish, TypeOK
  <2> QED BY <1>1, <2>1, <2>2 DEF Publish, TypeOK, Prepared, database, locals
<1>2. ASSUME NEW e \in Evaluators, Evaluate(e) PROVE Inv'
  <2>1. dataset \in Instants /\ 1 \in Policies
    BY <1>2, PoliciesAssumption, BoundsAssumption
    DEF Evaluate, TypeOK, Instants, Policies
  <2>2. [matched |-> matches, evaluated_at |-> dataset] \in EvaluationResult
    BY <2>1 DEF TypeOK, EvaluationResult
  <2>3. TypeOK'
    BY <1>2, <2>1, <2>2 DEF Evaluate, TypeOK, market, database
  <2>4. evaluation'[e] \in EvaluationResult
    BY <1>2, <2>2 DEF Evaluate, TypeOK
  <2>5. evaluation'[e] # None
    BY <2>4, NoneAssumption
  <2>6. base[e] = None
    BY <1>2 DEF Evaluate, Prepared
  <2> QED BY <1>2, <2>3, <2>5, <2>6 DEF Evaluate, TypeOK, Prepared, market, database
<1>3. ASSUME NEW e \in Evaluators, ReadState(e) PROVE Inv'
  BY <1>3 DEF ReadState, TypeOK, Prepared, market, database
<1>4. ASSUME NEW e \in Evaluators, MergeState(e) PROVE Inv'
  BY <1>4 DEF MergeState, TypeOK, Prepared, market, database
<1>5. ASSUME NEW e \in Evaluators, Commit(e) PROVE Inv'
  <2>1. phase[e] = "committing"
    BY <1>5 DEF Commit
  <2>2. TypeOK'
    BY <1>5, <2>1, SavedTyped, EnqueuedTyped, NextPolicyTyped
    DEF Commit, TypeOK, market
  <2>3. \A p \in Policies : alertState[p] # None => alertState'[p] # None
    BY <1>5, <2>1, SavedTyped DEF Commit, TypeOK
  <2>4. Prepared(e)'
    BY <1>5, <2>1, NextPolicyTyped DEF Commit, Prepared
  <2>5. ASSUME NEW f \in Evaluators \ {e} PROVE Prepared(f)'
    <3>1. at[f] \in Policies /\ Prepared(f)
      BY DEF TypeOK
    <3>2. /\ phase'[f] = phase[f] /\ evaluation'[f] = evaluation[f]
          /\ existing'[f] = existing[f] /\ base'[f] = base[f] /\ at'[f] = at[f]
      BY <1>5, <2>1, NextPolicyTyped DEF Commit
    <3> QED BY <2>3, <3>1, <3>2 DEF Prepared
  <2> QED BY <2>2, <2>4, <2>5
<1>6. ASSUME NEW e \in Evaluators, CommitConflict(e) PROVE Inv'
  <2>1. /\ Finish(e) /\ UNCHANGED <<market, database, crashes, overlapped>>
    BY <1>6 DEF CommitConflict
  <2>2. TypeOK'
    BY <2>1, FinishTyped DEF TypeOK, market, database
  <2> QED BY <2>1, <2>2, FinishPrepared DEF database
<1>7. ASSUME NEW e \in Evaluators, Crash(e) PROVE Inv'
  <2>1. crashes' \in 0..MaxCrashes
    BY <1>7, BoundsAssumption DEF Crash, TypeOK
  <2>2. Finish(e) /\ UNCHANGED <<market, database, overlapped>>
    BY <1>7 DEF Crash
  <2>3. TypeOK'
    BY <2>1, <2>2, FinishTyped DEF TypeOK, market, database
  <2> QED BY <2>2, <2>3, FinishPrepared DEF database
<1>8. CASE UNCHANGED vars
  BY <1>8 DEF vars, market, database, locals, TypeOK, Prepared
<1> QED BY <1>1, <1>2, <1>3, <1>4, <1>5, <1>6, <1>7, <1>8 DEF Next, Step

(* Every value keeps its type, however many evaluations overlap or are cut *)
(* short: a policy past the last, or a column of no row, is never reached. *)
THEOREM EngineTypeCorrect == Spec => []TypeOK
<1>1. Inv => TypeOK
  BY DEF Inv
<1>2. Spec => []Inv
  BY InvInit, InvStep, PTL DEF Spec
<1> QED BY <1>1, <1>2, PTL

--------------------------------------------------------------------------------
(* State and alert in one transaction. *)

(* The trigger time an evaluation read is that of an alert of its policy: *)
(* it may write it back long after the row has moved on.                  *)
ReadTogether(e) ==
    existing[e] # None /\ existing[e].last_triggered_at # None =>
        existing[e].last_triggered_at \in Alerts(at[e])

TogetherInv == Inv /\ StateAndAlertTogether /\ \A e \in Evaluators : ReadTogether(e)

LEMMA TogetherInit == Init => TogetherInv
BY InvInit DEF Init, TogetherInv, StateAndAlertTogether, ReadTogether

(* What one commit does to the alerts of its policy. *)
LEMMA EnqueuedAlerts ==
    ASSUME NEW e \in Evaluators, Inv, phase[e] = "committing",
           posted' = Enqueued(e)
    PROVE  /\ \A p \in Policies : Alerts(p) \subseteq Alerts(p)'
           /\ \A p \in Policies : p = at[e] /\ Notify(e) =>
                 evaluation[e].evaluated_at \in Alerts(p)'
           /\ \A p \in Policies : p # at[e] => posted'[p] = posted[p]
           /\ ~Notify(e) => posted' = posted
           /\ Notify(e) => posted'[at[e]] =
                 Append(posted[at[e]], evaluation[e].evaluated_at)
<1>1. /\ TypeOK /\ evaluation[e] # None
      /\ at[e] \in Policies /\ posted \in [Policies -> Seq(Instants)]
      /\ evaluation[e].evaluated_at \in Instants
  BY DEF Inv, Prepared, TypeOK, EvaluationResult
<1>2. CASE ~Notify(e)
  <2>1. posted' = posted
    BY <1>2 DEF Enqueued
  <2> QED BY <1>2, <2>1 DEF Alerts
<1>3. CASE Notify(e)
  <2> DEFINE old == posted[at[e]]
             new == Append(old, evaluation[e].evaluated_at)
  <2>1. posted' = [posted EXCEPT ![at[e]] = new]
    BY <1>3 DEF Enqueued
  <2>2. /\ posted'[at[e]] = new
        /\ \A p \in Policies : p # at[e] => posted'[p] = posted[p]
    BY <1>1, <2>1
  <2>3. old \in Seq(Instants)
    BY <1>1
  <2>4. /\ \A i \in DOMAIN old : i \in DOMAIN new /\ new[i] = old[i]
        /\ Len(new) \in DOMAIN new
        /\ new[Len(new)] = evaluation[e].evaluated_at
    BY <1>1, <2>3
  <2>5. ASSUME NEW p \in Policies, p = at[e]
        PROVE  /\ Alerts(p) \subseteq Alerts(p)'
               /\ evaluation[e].evaluated_at \in Alerts(p)'
    <3>1. posted'[p] = new /\ posted[p] = old
      BY <2>2, <2>5
    <3> HIDE DEF old, new
    <3> QED BY <2>4, <3>1 DEF Alerts
  <2>6. ASSUME NEW p \in Policies, p # at[e]
        PROVE  Alerts(p) \subseteq Alerts(p)'
    BY <2>2, <2>6 DEF Alerts
  <2> QED BY <1>3, <2>2, <2>5, <2>6
<1> QED BY <1>2, <1>3

(* The trigger time a commit leaves is that of an alert of its policy. *)
LEMMA SavedTriggered ==
    ASSUME NEW e \in Evaluators, TogetherInv, phase[e] = "committing",
           posted' = Enqueued(e), SavedRow(e).last_triggered_at # None
    PROVE  \A p \in Policies : p = at[e] =>
              SavedRow(e).last_triggered_at \in Alerts(p)'
<1> SUFFICES ASSUME NEW p \in Policies, p = at[e]
             PROVE  SavedRow(e).last_triggered_at \in Alerts(p)'
  OBVIOUS
<1>1. Inv /\ TypeOK /\ evaluation[e] # None /\ at[e] \in Policies
  BY DEF TogetherInv, Inv, Prepared, TypeOK
<1>2. /\ Alerts(p) \subseteq Alerts(p)'
      /\ Notify(e) => evaluation[e].evaluated_at \in Alerts(p)'
  BY <1>1, EnqueuedAlerts
<1>3. ASSUME NewState(e).last_triggered_at # None
      PROVE  NewState(e).last_triggered_at \in Alerts(p)'
  <2>1. NewState(e).last_triggered_at = LastTriggeredAt(e)
    BY DEF NewState
  <2>2. CASE Notify(e)
    BY <1>2, <2>1, <2>2 DEF LastTriggeredAt
  <2>3. CASE ~Notify(e)
    BY <1>2, <1>3, <2>1, <2>3 DEF LastTriggeredAt, TogetherInv, ReadTogether
  <2> QED BY <2>2, <2>3
<1>4. CASE base[e] = None
  BY <1>3, <1>4 DEF SavedRow
<1>5. CASE base[e] # None
  <2>1. alertState[at[e]] # None
    BY <1>1, <1>5 DEF Inv, Prepared
  <2>2. SavedRow(e).last_triggered_at =
           Column(e, "last_triggered_at", alertState[at[e]])
    BY <1>5 DEF SavedRow, Update
  <2>3. \/ SavedRow(e).last_triggered_at = NewState(e).last_triggered_at
        \/ SavedRow(e).last_triggered_at = alertState[at[e]].last_triggered_at
    BY <2>2 DEF Column
  <2> QED BY <1>1, <1>2, <1>3, <2>1, <2>3 DEF TogetherInv, StateAndAlertTogether
<1> QED BY <1>4, <1>5

LEMMA TogetherStep == TogetherInv /\ [Next]_vars => TogetherInv'
<1> SUFFICES ASSUME TogetherInv, [Next]_vars PROVE TogetherInv'
  OBVIOUS
<1>0. Inv /\ Inv' /\ TypeOK /\ TypeOK'
  BY InvStep DEF TogetherInv, Inv
<1> DEFINE Tables ==
      /\ StateAndAlertTogether'
      /\ \A p \in Policies : Alerts(p) \subseteq Alerts(p)'
<1> USE DEF TogetherInv
<1>a. ASSUME UNCHANGED database PROVE Tables
  BY <1>a DEF database, StateAndAlertTogether, Alerts
<1>b. ASSUME Tables,
             \A e \in Evaluators :
                \/ existing'[e] = None
                \/ existing'[e] = existing[e] /\ at'[e] = at[e]
      PROVE  TogetherInv'
  <2> SUFFICES ASSUME NEW e \in Evaluators PROVE ReadTogether(e)'
    BY <1>0, <1>b
  <2> at[e] \in Policies
    BY <1>0 DEF TypeOK
  <2>1. CASE existing'[e] = None
    BY <2>1 DEF ReadTogether
  <2>2. CASE existing'[e] = existing[e] /\ at'[e] = at[e]
    <3>1. ReadTogether(e)
      OBVIOUS
    <3>2. PICK p \in Policies : p = at[e] /\ p = at'[e]
      BY <2>2
    <3>3. Alerts(p) \subseteq Alerts(p)'
      BY <1>b
    <3> QED BY <2>2, <3>1, <3>2, <3>3 DEF ReadTogether, Alerts
  <2> QED BY <1>b, <2>1, <2>2
<1>1. CASE Publish
  BY <1>1, <1>a, <1>b DEF Publish, locals
<1>2. ASSUME NEW e \in Evaluators, Evaluate(e) PROVE TogetherInv'
  <2>1. existing' = existing /\ UNCHANGED database
    BY <1>2 DEF Evaluate
  <2>2. existing[e] = None
    BY <1>0, <1>2 DEF Evaluate, Inv, Prepared
  <2> QED BY <1>2, <1>a, <1>b, <2>1, <2>2 DEF Evaluate, TypeOK
<1>3. ASSUME NEW e \in Evaluators, ReadState(e) PROVE TogetherInv'
  <2>1. existing' = [existing EXCEPT ![e] = alertState[at[e]]]
        /\ at' = at /\ UNCHANGED database
    BY <1>3 DEF ReadState
  <2>2. ReadTogether(e)'
    BY <1>0, <2>1 DEF TypeOK, ReadTogether, StateAndAlertTogether, Alerts, database
  <2>3. \A f \in Evaluators \ {e} : ReadTogether(f)'
    BY <1>0, <2>1 DEF TypeOK, ReadTogether, Alerts, database
  <2> QED BY <1>0, <1>a, <2>1, <2>2, <2>3
<1>4. ASSUME NEW e \in Evaluators, MergeState(e) PROVE TogetherInv'
  BY <1>4, <1>a, <1>b DEF MergeState
<1>5. ASSUME NEW e \in Evaluators, Commit(e) PROVE TogetherInv'
  <2>1. /\ phase[e] = "committing" /\ posted' = Enqueued(e)
        /\ alertState' = Saved(e) /\ NextPolicy(e)
    BY <1>5 DEF Commit
  <2>2. /\ at[e] \in Policies
        /\ alertState'[at[e]] = SavedRow(e) /\ SavedRow(e) # None
        /\ \A p \in Policies : p # at[e] => alertState'[p] = alertState[p]
    BY <1>0, <2>1, SavedTyped DEF TypeOK
  <2>3. /\ \A p \in Policies : Alerts(p) \subseteq Alerts(p)'
        /\ \A p \in Policies : p # at[e] => posted'[p] = posted[p]
    BY <1>0, <2>1, EnqueuedAlerts
  <2>4. SavedRow(e).last_triggered_at # None =>
           \A p \in Policies : p = at[e] =>
              SavedRow(e).last_triggered_at \in Alerts(p)'
    BY <2>1, SavedTriggered
  <2>5. ASSUME NEW p \in Policies, p = at[e]
        PROVE  /\ alertState'[p] # None
               /\ alertState'[p].last_triggered_at # None =>
                     alertState'[p].last_triggered_at \in Alerts(p)'
    BY <2>2, <2>4, <2>5
  <2>7. ASSUME NEW p \in Policies, p # at[e]
        PROVE  alertState'[p] = alertState[p] /\ posted'[p] = posted[p]
    BY <2>2, <2>3, <2>7
  <2>8. StateAndAlertTogether'
    BY <2>5, <2>7 DEF StateAndAlertTogether, Alerts
  <2>6. \A f \in Evaluators :
           \/ existing'[f] = None
           \/ existing'[f] = existing[f] /\ at'[f] = at[f]
    BY <1>0, <2>1, NextPolicyTyped
  <2> QED BY <1>b, <2>3, <2>6, <2>8
<1>6. ASSUME NEW e \in Evaluators, Finish(e), UNCHANGED database PROVE TogetherInv'
  <2>1. \A f \in Evaluators :
           \/ existing'[f] = None
           \/ existing'[f] = existing[f] /\ at'[f] = at[f]
    BY <1>0, <1>6 DEF Finish, TypeOK
  <2> QED BY <1>6, <1>a, <1>b, <2>1
<1>7. ASSUME NEW e \in Evaluators, CommitConflict(e) PROVE TogetherInv'
  BY <1>6, <1>7 DEF CommitConflict
<1>8. ASSUME NEW e \in Evaluators, Crash(e) PROVE TogetherInv'
  BY <1>6, <1>8 DEF Crash
<1>9. CASE UNCHANGED vars
  BY <1>9, <1>a, <1>b DEF vars, locals
<1> QED BY <1>1, <1>2, <1>3, <1>4, <1>5, <1>7, <1>8, <1>9 DEF Next, Step

LEMMA TogetherInvariant == Spec => []TogetherInv
BY TogetherInit, TogetherStep, PTL DEF Spec

(* An alert and the state that explains it are in the tables together, for *)
(* any number of evaluations that interleave, overwrite each other's       *)
(* columns, conflict or stop.                                              *)
THEOREM OneTransaction == Spec => []StateAndAlertTogether
<1>1. TogetherInv => StateAndAlertTogether
  BY DEF TogetherInv
<1> QED BY <1>1, TogetherInvariant, PTL

--------------------------------------------------------------------------------
(* Evaluations that do not overlap. *)

(* At most one evaluation is under way, and what it read still stands. *)
Alone ==
    /\ \A e, f \in Evaluators : phase[e] # "idle" /\ phase[f] # "idle" => e = f
    /\ \A e \in Evaluators :
          /\ phase[e] \in {"merging", "committing"} => existing[e] = alertState[at[e]]
          /\ phase[e] = "committing" => base[e] = alertState[at[e]]

(* The alerts of a policy are paid for by rises; the rise of a condition   *)
(* that holds now and is not stored as active has not been alerted yet.    *)
Rise(p) == IF matches[p] THEN 1 ELSE 0

Counted(p) ==
    /\ Len(posted[p]) <= rises[p]
    /\ ~Active(p) => Len(posted[p]) + Rise(p) <= rises[p]

(* What an evaluation under way has still to do for a policy: an alert it  *)
(* is going to post is paid for, and so is the next one after it has seen  *)
(* the condition not hold.                                                 *)
Pending(e, p) ==
    phase[e] # "idle" /\ p >= at[e] =>
        IF evaluation[e].matched[p]
        THEN ~Active(p) => Len(posted[p]) + 1 <= rises[p]
        ELSE Len(posted[p]) + Rise(p) <= rises[p]

Explained(p) ==
    alertState[p] # None =>
        /\ alertState[p].last_triggered_at = LatestAlert(p)
        /\ alertState[p].active =>
              alertState[p].last_triggered_at = alertState[p].last_changed_at

AloneInv ==
    /\ Alone
    /\ \A p \in Policies :
          Counted(p) /\ Explained(p) /\ \A e \in Evaluators : Pending(e, p)

SerialInv == TogetherInv /\ (~overlapped => AloneInv)

LEMMA SerialInit == Init => SerialInv
<1> SUFFICES ASSUME Init PROVE AloneInv
  BY TogetherInit DEF SerialInv
<1>1. \A p \in Policies : Len(posted[p]) = 0 /\ rises[p] = 0 /\ ~matches[p]
  BY DEF Init
<1> QED BY <1>1 DEF Init, AloneInv, Alone, Counted, Explained, Pending, Rise

(* With nobody else writing, the row a commit leaves is the state that the *)
(* evaluation decided.                                                     *)
LEMMA AloneSaves ==
    ASSUME NEW e \in Evaluators, Inv, Alone, phase[e] = "committing"
    PROVE  /\ existing[e] = alertState[at[e]]
           /\ SavedRow(e) = NewState(e)
<1>1. existing[e] = alertState[at[e]] /\ base[e] = alertState[at[e]]
  BY DEF Alone
<1>2. ASSUME base[e] # None PROVE Update(e, alertState[at[e]]) = NewState(e)
  <2> DEFINE row == alertState[at[e]]
  <2>1. /\ Column(e, "active", row) = NewState(e)["active"]
        /\ Column(e, "last_changed_at", row) = NewState(e)["last_changed_at"]
        /\ Column(e, "last_triggered_at", row) = NewState(e)["last_triggered_at"]
        /\ Column(e, "last_as_of", row) = NewState(e)["last_as_of"]
    BY <1>1 DEF Column
  <2> QED BY <2>1 DEF Update, NewState
<1> QED BY <1>1, <1>2 DEF SavedRow

(* A dataset changes what holds now, and pays for what begins to hold. *)
LEMMA PublishRises ==
    ASSUME Inv, Publish, NEW p \in Policies
    PROVE  /\ rises[p] \in Nat /\ rises'[p] \in Nat
           /\ Len(posted[p]) \in Nat /\ Rise(p) \in Nat /\ Rise(p)' \in Nat
           /\ rises[p] <= rises'[p]
           /\ rises[p] + Rise(p)' <= rises'[p] + Rise(p)
           /\ posted' = posted /\ alertState' = alertState
<1>1. /\ posted' = posted /\ alertState' = alertState
      /\ Len(posted[p]) \in Nat /\ rises[p] \in Nat
      /\ rises'[p] = IF matches'[p] /\ ~matches[p] THEN rises[p] + 1 ELSE rises[p]
  BY DEF Publish, Inv, TypeOK, database
<1>2. CASE matches'[p] /\ ~matches[p]
  BY <1>1, <1>2 DEF Rise
<1>3. CASE matches'[p] /\ matches[p]
  BY <1>1, <1>3 DEF Rise
<1>4. CASE ~matches'[p]
  BY <1>1, <1>4 DEF Rise
<1> QED BY <1>2, <1>3, <1>4

LEMMA PublishCounted ==
    ASSUME Inv, Publish, NEW p \in Policies, Counted(p)
    PROVE  Counted(p)'
<1>1. CASE Active(p)
  <2>1. Active(p)'
    BY <1>1, PublishRises DEF Active
  <2> QED BY <2>1, PublishRises DEF Counted
<1>2. CASE ~Active(p)
  BY <1>2, PublishRises DEF Counted
<1> QED BY <1>1, <1>2

LEMMA PublishPending ==
    ASSUME Inv, Publish, NEW p \in Policies, NEW e \in Evaluators, Pending(e, p)
    PROVE  Pending(e, p)'
<1>1. phase' = phase /\ at' = at /\ evaluation' = evaluation
  BY DEF Publish, locals
<1> SUFFICES ASSUME phase[e] # "idle", p >= at[e]
             PROVE  IF evaluation[e].matched[p]
                    THEN ~Active(p)' => Len(posted'[p]) + 1 <= rises'[p]
                    ELSE Len(posted'[p]) + Rise(p)' <= rises'[p]
  BY <1>1 DEF Pending
<1>2. CASE ~evaluation[e].matched[p]
  BY <1>2, PublishRises DEF Pending
<1>3. CASE evaluation[e].matched[p] /\ Active(p)
  <2>1. Active(p)'
    BY <1>3, PublishRises DEF Active
  <2> QED BY <1>3, <2>1
<1>4. CASE evaluation[e].matched[p] /\ ~Active(p)
  BY <1>4, PublishRises DEF Pending
<1> QED BY <1>2, <1>3, <1>4

(* The policy that is committed. *)
LEMMA CommitCounted ==
    ASSUME NEW e \in Evaluators, TogetherInv, AloneInv, Commit(e),
           NEW p \in Policies, p = at[e]
    PROVE  Counted(p)' /\ Explained(p)'
<1>1. /\ Inv /\ TypeOK /\ Alone /\ phase[e] = "committing"
      /\ posted' = Enqueued(e) /\ alertState' = Saved(e)
      /\ matches' = matches /\ rises' = rises
      /\ Prepared(e) /\ evaluation[e] # None
  BY DEF TogetherInv, AloneInv, Inv, Commit, market, Prepared
<1> DEFINE ev == evaluation[e]
<1>2. /\ alertState[p] \in StateRow \cup {None}
      /\ posted[p] \in Seq(Instants) /\ rises[p] \in Nat
      /\ matches[p] \in BOOLEAN /\ ev \in EvaluationResult
      /\ ev.evaluated_at \in Instants /\ ev.matched[p] \in BOOLEAN
  BY <1>1 DEF TypeOK, EvaluationResult
<1>3. existing[e] = alertState[p] /\ alertState'[p] = NewState(e)
  BY <1>1, AloneSaves, SavedTyped DEF TypeOK
<1>4. /\ Matched(e) = ev.matched[p]
      /\ PreviousActive(e) = Active(p)
      /\ Active(p)' <=> Matched(e)
  <2>1. NewState(e) # None
    BY <1>1, NewStateTyped, NoneIsNoRow
  <2>2. Matched(e) = ev.matched[p]
    BY DEF Matched
  <2>3. PreviousActive(e) = Active(p)
    BY <1>3 DEF PreviousActive, Active
  <2>4. Active(p)' <=> Matched(e)
    BY <1>3, <2>1 DEF Active, NewState
  <2> QED BY <2>2, <2>3, <2>4
<1>5. /\ Counted(p) /\ Explained(p) /\ Pending(e, p)
      /\ alertState[p] = None => posted[p] = <<>>
  BY <1>1 DEF AloneInv, TogetherInv, StateAndAlertTogether
<1>6. p >= at[e]
  BY DEF Policies
<1>7. CASE Notify(e)
  <2>1. ev.matched[p] /\ ~Active(p)
    BY <1>4, <1>7 DEF Notify
  <2>2. Len(posted[p]) + 1 <= rises[p]
    BY <1>1, <1>5, <1>6, <2>1 DEF Pending
  <2>3. posted'[p] = Append(posted[p], ev.evaluated_at)
    BY <1>1, <1>7, EnqueuedAlerts
  <2>4. /\ Len(posted'[p]) = Len(posted[p]) + 1
        /\ posted'[p] # <<>> /\ posted'[p][Len(posted'[p])] = ev.evaluated_at
    <3>1. posted[p] \in Seq(Instants) /\ ev.evaluated_at \in Instants
      BY <1>2
    <3> HIDE DEF ev
    <3> QED BY <2>3, <3>1
  <2>5. /\ alertState'[p].last_triggered_at = ev.evaluated_at
        /\ alertState'[p].last_changed_at = ev.evaluated_at
    <3>1. Matched(e) /\ ~PreviousActive(e)
      BY <1>7 DEF Notify
    <3>2. Changes(e)
      BY <3>1, Zenon DEF Changes
    <3>3. LastTriggeredAt(e) = ev.evaluated_at /\ ChangedAt(e) = ev.evaluated_at
      BY <1>7, <3>2 DEF LastTriggeredAt, ChangedAt
    <3> QED BY <1>3, <3>3 DEF NewState
  <2>6. Counted(p)'
    BY <1>1, <1>4, <2>1, <2>2, <2>4 DEF Counted
  <2> QED BY <2>4, <2>5, <2>6 DEF Explained, LatestAlert
<1>8. CASE ~Notify(e)
  <2>1. posted' = posted
    BY <1>1, <1>8, EnqueuedAlerts
  <2>2. Counted(p)'
    <3>1. CASE Matched(e)
      BY <1>1, <1>4, <1>5, <2>1, <3>1 DEF Counted
    <3>2. CASE ~Matched(e)
      <4>1. Len(posted[p]) + Rise(p) <= rises[p]
        BY <1>1, <1>4, <1>5, <1>6, <3>2 DEF Pending
      <4> QED BY <1>1, <1>5, <2>1, <4>1 DEF Counted, Rise
    <3> QED BY <3>1, <3>2
  <2>3. alertState'[p].last_triggered_at = LatestAlert(p)
    <3>1. alertState'[p].last_triggered_at =
             IF existing[e] # None THEN existing[e].last_triggered_at ELSE None
      BY <1>3, <1>8 DEF NewState, LastTriggeredAt
    <3> QED BY <1>3, <1>5, <3>1 DEF Explained, LatestAlert
  <2>4. ASSUME alertState'[p].active
        PROVE  alertState'[p].last_triggered_at = alertState'[p].last_changed_at
    <3>1. Matched(e) /\ Active(p)
      BY <1>3, <1>4, <1>8, <2>4 DEF NewState, Notify
    <3>2. existing[e] # None /\ alertState[p].active
      BY <1>3, <3>1 DEF Active
    <3>3. alertState'[p].last_changed_at = existing[e].last_changed_at
      BY <1>2, <1>3, <1>4, <3>1, <3>2 DEF NewState, ChangedAt, Changes
    <3> QED BY <1>3, <1>5, <2>3, <3>2, <3>3 DEF Explained
  <2> QED BY <2>1, <2>2, <2>3, <2>4 DEF Explained, LatestAlert
<1> QED BY <1>7, <1>8

(* A step that leaves the tables and the market alone, ends evaluations or *)
(* takes them on: nothing new is pending.                                  *)
LEMMA QuietStep ==
    ASSUME Inv, AloneInv, UNCHANGED <<market, database>>, Alone',
           \A e \in Evaluators :
              \/ phase'[e] = "idle"
              \/ /\ phase[e] # "idle" /\ at'[e] = at[e]
                 /\ evaluation'[e] = evaluation[e]
    PROVE  AloneInv'
<1> USE DEF AloneInv
<1>1. UNCHANGED <<matches, rises, alertState, posted>>
  BY DEF market, database
<1>2. ASSUME NEW p \in Policies PROVE Counted(p)' /\ Explained(p)'
  <2>1. Counted(p) /\ Explained(p)
    OBVIOUS
  <2> QED BY <1>1, <2>1 DEF Counted, Explained, Rise, Active, LatestAlert
<1>3. ASSUME NEW p \in Policies, NEW e \in Evaluators PROVE Pending(e, p)'
  <2>1. CASE phase'[e] = "idle"
    BY <2>1 DEF Pending
  <2>2. CASE phase[e] # "idle" /\ at'[e] = at[e] /\ evaluation'[e] = evaluation[e]
    <3>1. Pending(e, p)
      OBVIOUS
    <3> QED BY <1>1, <2>2, <3>1 DEF Pending, Active, Rise
  <2> QED BY <2>1, <2>2
<1> QED BY <1>2, <1>3

LEMMA EvaluateAlone ==
    ASSUME NEW e \in Evaluators, Inv, AloneInv, Evaluate(e), ~overlapped'
    PROVE  AloneInv'
<1>1. /\ UNCHANGED <<matches, rises, alertState, posted>>
      /\ \A f \in Evaluators : phase[f] = "idle"
      /\ phase' = [phase EXCEPT ![e] = "reading"]
      /\ \A f \in Evaluators \ {e} : phase'[f] = "idle"
      /\ phase'[e] = "reading" /\ at'[e] = 1
      /\ evaluation'[e].matched = matches
  BY DEF Evaluate, market, database, Inv, TypeOK
<1>2. Alone'
  BY <1>1 DEF Alone
<1>3. ASSUME NEW p \in Policies PROVE Counted(p)' /\ Explained(p)'
  <2>1. Counted(p) /\ Explained(p)
    BY DEF AloneInv
  <2> QED BY <1>1, <2>1 DEF Counted, Explained, Rise, Active, LatestAlert
<1>4. ASSUME NEW p \in Policies PROVE Pending(e, p)'
  <2>1. /\ Counted(p) /\ Len(posted[p]) \in Nat /\ rises[p] \in Nat
        /\ matches[p] \in BOOLEAN
    BY DEF AloneInv, Inv, TypeOK
  <2>2. CASE matches[p]
    <3>1. ~Active(p) => Len(posted[p]) + 1 <= rises[p]
      BY <2>1, <2>2 DEF Counted, Rise
    <3>2. Active(p)' <=> Active(p)
      BY <1>1 DEF Active
    <3> QED BY <1>1, <2>2, <3>1, <3>2 DEF Pending
  <2>3. CASE ~matches[p]
    <3>1. Len(posted[p]) + Rise(p)' <= rises[p]
      BY <1>1, <2>1, <2>3 DEF Counted, Rise
    <3> QED BY <1>1, <2>3, <3>1 DEF Pending
  <2> QED BY <2>1, <2>2, <2>3
<1>5. \A p \in Policies : \A f \in Evaluators \ {e} : Pending(f, p)'
  BY <1>1 DEF Pending
<1> QED BY <1>2, <1>3, <1>4, <1>5 DEF AloneInv

LEMMA CommitAlone ==
    ASSUME NEW e \in Evaluators, TogetherInv, AloneInv, Commit(e)
    PROVE  AloneInv'
<1>1. /\ Inv /\ TypeOK /\ Alone /\ phase[e] = "committing" /\ at[e] \in Policies
      /\ posted' = Enqueued(e) /\ alertState' = Saved(e) /\ NextPolicy(e)
      /\ matches' = matches /\ rises' = rises
  BY DEF TogetherInv, AloneInv, Inv, Commit, market, TypeOK
<1>2. \A f \in Evaluators \ {e} : phase[f] = "idle" /\ phase'[f] = "idle"
  BY <1>1, NextPolicyTyped DEF Alone
<1>3. \/ phase'[e] = "idle"
      \/ /\ phase'[e] = "reading" /\ at'[e] = at[e] + 1
         /\ evaluation'[e] = evaluation[e]
  BY <1>1 DEF NextPolicy, Finish, TypeOK
<1>4. Alone'
  BY <1>2, <1>3 DEF Alone
<1>5. ASSUME NEW p \in Policies, p # at[e]
      PROVE  alertState'[p] = alertState[p] /\ posted'[p] = posted[p]
  BY <1>1, <1>5, SavedTyped, EnqueuedAlerts DEF TypeOK
<1>6. ASSUME NEW p \in Policies PROVE Counted(p)' /\ Explained(p)'
  <2>1. CASE p = at[e]
    BY <2>1, CommitCounted
  <2>2. CASE p # at[e]
    <3>1. Counted(p) /\ Explained(p)
      BY DEF AloneInv
    <3>2. alertState'[p] = alertState[p] /\ posted'[p] = posted[p]
      BY <1>5, <2>2
    <3> QED BY <1>1, <3>1, <3>2 DEF Counted, Explained, Rise, Active, LatestAlert
  <2> QED BY <2>1, <2>2
<1>7. ASSUME NEW p \in Policies PROVE Pending(e, p)'
  <2>1. CASE phase'[e] = "idle" \/ ~(p >= at'[e])
    BY <2>1 DEF Pending
  <2>2. CASE phase'[e] # "idle" /\ p >= at'[e]
    <3>1. p # at[e] /\ p >= at[e] /\ evaluation'[e] = evaluation[e]
      BY <1>1, <1>3, <2>2 DEF Policies
    <3>2. alertState'[p] = alertState[p] /\ posted'[p] = posted[p]
      BY <1>5, <3>1
    <3>3. Pending(e, p) /\ phase[e] # "idle"
      BY <1>1 DEF AloneInv
    <3> QED BY <1>1, <3>1, <3>2, <3>3 DEF Pending, Active, Rise
  <2> QED BY <2>1, <2>2
<1>8. \A p \in Policies : \A f \in Evaluators \ {e} : Pending(f, p)'
  BY <1>2 DEF Pending
<1> QED BY <1>4, <1>6, <1>7, <1>8 DEF AloneInv

LEMMA SerialStep == SerialInv /\ [Next]_vars => SerialInv'
<1> SUFFICES ASSUME SerialInv, [Next]_vars, ~overlapped' PROVE AloneInv'
  BY TogetherStep DEF SerialInv
<1>0. overlapped \in BOOLEAN /\ (overlapped => overlapped')
  BY DEF SerialInv, TogetherInv, Inv, TypeOK, Next, Step, Publish, Evaluate,
         ReadState, MergeState, Commit, CommitConflict, Crash, vars
<1>1. TogetherInv /\ AloneInv /\ Inv /\ TypeOK /\ Alone
  BY <1>0 DEF SerialInv, TogetherInv, AloneInv, Inv
<1>2. CASE Publish
  <2>1. Alone'
    BY <1>1, <1>2 DEF Publish, Alone, database, locals
  <2>2. \A p \in Policies : Explained(p)'
    BY <1>1, <1>2 DEF Publish, AloneInv, Explained, LatestAlert, database
  <2> QED BY <1>1, <1>2, <2>1, <2>2, PublishCounted, PublishPending DEF AloneInv
<1>3. ASSUME NEW e \in Evaluators, Evaluate(e) PROVE AloneInv'
  BY <1>1, <1>3, EvaluateAlone
<1>4. ASSUME NEW e \in Evaluators, ReadState(e) PROVE AloneInv'
  <2>1. Alone'
    BY <1>1, <1>4 DEF ReadState, Alone, TypeOK, database
  <2> QED BY <1>1, <1>4, <2>1, QuietStep DEF ReadState, TypeOK, Alone
<1>5. ASSUME NEW e \in Evaluators, MergeState(e) PROVE AloneInv'
  <2>1. Alone'
    BY <1>1, <1>5 DEF MergeState, Alone, TypeOK, database
  <2> QED BY <1>1, <1>5, <2>1, QuietStep DEF MergeState, TypeOK, Alone
<1>6. ASSUME NEW e \in Evaluators, Commit(e) PROVE AloneInv'
  BY <1>1, <1>6, CommitAlone
<1>7. ASSUME NEW e \in Evaluators, Finish(e), phase[e] # "idle",
             UNCHANGED <<market, database>>
      PROVE  AloneInv'
  <2>1. \A f \in Evaluators : phase'[f] = "idle"
    BY <1>1, <1>7, FinishTyped DEF Alone
  <2>2. Alone'
    BY <2>1 DEF Alone
  <2> QED BY <1>1, <1>7, <2>1, <2>2, QuietStep
<1>8. ASSUME NEW e \in Evaluators, CommitConflict(e) PROVE AloneInv'
  BY <1>7, <1>8 DEF CommitConflict
<1>9. ASSUME NEW e \in Evaluators, Crash(e) PROVE AloneInv'
  BY <1>7, <1>9 DEF Crash
<1>10. CASE UNCHANGED vars
  BY <1>1, <1>10 DEF vars, market, database, locals, AloneInv, Alone, Counted,
     Explained, Pending, Rise, Active, LatestAlert
<1> QED BY <1>2, <1>3, <1>4, <1>5, <1>6, <1>8, <1>9, <1>10 DEF Next, Step

LEMMA SerialInvariant == Spec => []SerialInv
BY SerialInit, SerialStep, PTL DEF Spec

(* Evaluations that do not overlap never alert a policy more often than    *)
(* its condition began to hold, for any number of datasets, evaluators and *)
(* crashes between the commits.                                            *)
THEOREM AlertsArePaidByRises == Spec => []OneAlertPerRise
<1>1. SerialInv => OneAlertPerRise
  BY DEF SerialInv, AloneInv, Counted, OneAlertPerRise
<1> QED BY <1>1, SerialInvariant, PTL

(* Evaluations that do not overlap leave every active state explained by   *)
(* the latest alert of its policy.                                         *)
THEOREM ActiveIsExplained == Spec => []ActiveWasAlerted
<1>1. SerialInv => ActiveWasAlerted
  BY DEF SerialInv, AloneInv, Explained, ActiveWasAlerted
<1> QED BY <1>1, SerialInvariant, PTL

(* A commit with nobody else under way. *)
LEMMA CommitIsEdge ==
    ASSUME NEW e \in Evaluators, Inv, Alone, Commit(e), NEW p \in Policies
    PROVE  \/ posted'[p] = posted[p] /\ (Active(p)' => Active(p))
           \/ /\ ~Active(p) /\ Active(p)'
              /\ posted'[p] = Append(posted[p], alertState'[p].last_changed_at)
<1>1. /\ phase[e] = "committing" /\ evaluation[e] # None
      /\ posted' = Enqueued(e) /\ alertState' = Saved(e)
  BY DEF Commit, Inv, Prepared
<1>2. CASE p # at[e]
  BY <1>1, <1>2, SavedTyped, EnqueuedAlerts DEF Inv, TypeOK, Active
<1>3. CASE p = at[e]
  <2>1. existing[e] = alertState[p] /\ alertState'[p] = NewState(e)
    BY <1>1, <1>3, AloneSaves, SavedTyped DEF Inv, TypeOK
  <2>2. PreviousActive(e) = Active(p)
    BY <2>1 DEF PreviousActive, Active
  <2>3. NewState(e) # None
    BY <1>1, NewStateTyped, NoneIsNoRow DEF Inv
  <2>4. Active(p)' <=> Matched(e)
    BY <2>1, <2>3 DEF Active, NewState
  <2>5. CASE Notify(e)
    <3>1. posted'[p] = Append(posted[p], evaluation[e].evaluated_at)
      BY <1>1, <1>3, <2>5, EnqueuedAlerts DEF Inv
    <3>2. Changes(e)
      BY <2>5, Zenon DEF Changes, Notify
    <3>3. alertState'[p].last_changed_at = evaluation[e].evaluated_at
      BY <2>1, <3>2 DEF NewState, ChangedAt
    <3> QED BY <2>2, <2>4, <2>5, <3>1, <3>3 DEF Notify
  <2>6. CASE ~Notify(e)
    BY <1>1, <2>2, <2>4, <2>6 DEF Enqueued, Notify
  <2> QED BY <2>5, <2>6
<1> QED BY <1>2, <1>3

LEMMA StepIsEdge ==
    ASSUME SerialInv, [Next]_vars, ~overlapped', NEW p \in Policies
    PROVE  \/ posted'[p] = posted[p] /\ (Active(p)' => Active(p))
           \/ /\ ~Active(p) /\ Active(p)'
              /\ posted'[p] = Append(posted[p], alertState'[p].last_changed_at)
<1>1. CASE UNCHANGED database
  BY <1>1 DEF database, Active
<1>2. ASSUME NEW e \in Evaluators, Commit(e) PROVE ~overlapped
  BY <1>2 DEF Commit
<1>3. ASSUME NEW e \in Evaluators, Commit(e) PROVE Inv /\ Alone
  BY <1>2, <1>3 DEF SerialInv, AloneInv, TogetherInv
<1>4. CASE \E e \in Evaluators : Commit(e)
  BY <1>3, <1>4, CommitIsEdge
<1> QED BY <1>1, <1>4 DEF Next, Step, Publish, Evaluate, ReadState, MergeState,
           CommitConflict, Crash, vars

(* Evaluations that do not overlap alert exactly the transitions of the    *)
(* stored state from inactive to active, each once.                        *)
THEOREM AlertsAreEdges == Spec => EdgeTriggered
<1>1. SerialInv /\ [Next]_vars =>
        (~overlapped' =>
          \A p \in Policies :
             \/ posted'[p] = posted[p] /\ (Active(p)' => Active(p))
             \/ /\ ~Active(p) /\ Active(p)'
                /\ posted'[p] = Append(posted[p], alertState'[p].last_changed_at))
  BY StepIsEdge
<1> QED BY <1>1, SerialInvariant, PTL DEF Spec, EdgeTriggered
================================================================================
