-------------------------- MODULE SourcePipelineProofs -------------------------
(***************************************************************************)
(* For any release calendar that resolves the instants looked at, any      *)
(* series and any weeks: stale data stays stale; nothing is stale before   *)
(* the grace is over; a dataset ingested after a verification reaches the  *)
(* week that one expected; and what passes the gate is reported as of the  *)
(* week that is due, by products that agree.  The inductive part is what a *)
(* verification found being still so of whatever EIA serves until          *)
(* something goes wrong there.  The part about the reports follows from    *)
(* the type invariant, by which the rows are the observations of the       *)
(* latest content, and is about what the reports make of such rows.        *)
(***************************************************************************)
EXTENDS SourcePipeline, ReleaseGateProofs

--------------------------------------------------------------------------------
(* The pipeline. *)

HasValue(c, s, w) == w \in Week /\ w <= c.published[s] /\ Valued(c, s, w) # {}

(* What the last verification found is so of what EIA serves now. *)
Covered(c, v) == \A s \in Wpsr : \E w \in Int : w >= v /\ HasValue(c, s, w)

StillCovered == verified # None => Covered(content, verified)

IInv == TypeOK /\ StillCovered /\ VerifiedIsServed

LEMMA InstantsResolve == ASSUME NEW t \in Instants
                         PROVE  t \in Int /\ Resolvable(t) /\ ExpectedWeek(t) \in Int
BY PipelineAssumption, ExpectedIsLastDue DEF PipelineAssumption

LEMMA WeekIsInt == Week \subseteq Int
BY PipelineAssumption DEF PipelineAssumption, Week

LEMMA ObservedWeeks ==
    ASSUME NEW c \in Content, NEW s \in Series, NEW w
    PROVE  w \in Weeks(Observations(c), s) <=> HasValue(c, s, w)
<1>1. /\ FirstWeek \in Int /\ LastWeek \in Int
      /\ c.published[s] \in Int /\ c.published[s] <= LastWeek
  BY PipelineAssumption DEF PipelineAssumption, Content, Week
<1>2. Weeks(Observations(c), s) = {v \in Served(c, s) : Valued(c, s, v) # {}}
  BY DEF Weeks, Observations
<1>3. Valued(c, s, w) # {} => Rows(c, s, w) # << >>
  <2>1. DOMAIN << >> = {}
    OBVIOUS
  <2>2. Rows(c, s, w) = << >> => Valued(c, s, w) = {}
    BY <2>1 DEF Valued
  <2>3. QED
    BY <2>2
<1>4. QED
  BY <1>1, <1>2, <1>3 DEF Served, HasValue, Week

(* A row the verification accepts has a value in the dataset. *)
LEMMA SampledIsObserved ==
    ASSUME NEW c \in Content, NEW s \in Series, NEW t \in Instants,
           SampleIsSound(c, s), Covers(c, s, t)
    PROVE  \E w \in Int : w >= ExpectedWeek(t) /\ HasValue(c, s, w)
<1>1. PICK row \in Sample(c, s) : row[1] >= ExpectedWeek(t)
  BY DEF Covers
<1>2. PICK w \in Served(c, s) : row \in {<<w, i>> : i \in DOMAIN Rows(c, s, w)}
  BY DEF Sample, Row
<1>3. PICK i \in DOMAIN Rows(c, s, w) : row = <<w, i>>
  BY <1>2
<1>4. Rows(c, s, w)[i] = "number"
  BY <1>1, <1>3 DEF SampleIsSound
<1>5. Valued(c, s, w) # {}
  BY <1>4 DEF Valued
<1>6. w \in Week /\ w <= c.published[s] /\ w \in Int
  BY PipelineAssumption DEF PipelineAssumption, Served, Content, Week
<1>7. QED
  BY <1>1, <1>3, <1>5, <1>6 DEF HasValue

(* Publishing a week and repairing an anomaly take no value away. *)
LEMMA ValuesStay ==
    ASSUME NEW c \in Content, NEW d \in Content,
           \A s \in Series : c.published[s] <= d.published[s],
           d.anomaly = c.anomaly \/ d.anomaly = NoAnomaly,
           NEW s \in Series, NEW w \in Int, HasValue(c, s, w)
    PROVE  HasValue(d, s, w)
<1>1. /\ w \in Int /\ c.published[s] \in Int /\ d.published[s] \in Int
  BY WeekIsInt DEF Content
<1>2. w <= d.published[s]
  BY <1>1 DEF HasValue
<1>3. Valued(d, s, w) # {}
  <2>1. CASE d.anomaly = c.anomaly
    BY <2>1 DEF HasValue, Valued, Rows
  <2>2. CASE d.anomaly = NoAnomaly
    <3>1. d.anomaly.series # s
      BY <2>2, PipelineAssumption DEF PipelineAssumption, NoAnomaly
    <3>2. Rows(d, s, w) = <<"number">>
      BY <3>1 DEF Rows
    <3>3. 1 \in DOMAIN <<"number">> /\ <<"number">>[1] # "no value"
      OBVIOUS
    <3>4. 1 \in Valued(d, s, w)
      BY <3>2, <3>3 DEF Valued
    <3>5. QED
      BY <3>4
  <2>3. QED
    BY <2>1, <2>2
<1>4. QED
  BY <1>2, <1>3 DEF HasValue

LEMMA InitCovered == Init => IInv
<1> SUFFICES ASSUME Init PROVE IInv
  OBVIOUS
<1>1. content \in Content
  BY PipelineAssumption DEF PipelineAssumption, Init, Content, Week
<1>2. QED
  BY <1>1 DEF Init, IInv, TypeOK, StillCovered, VerifiedIsServed

(* A step of EIA's that only adds to what is served. *)
LEMMA AddedCovered ==
    ASSUME TypeOK, StillCovered, content' \in Content, verified' = verified,
           \A s \in Series : content.published[s] <= content'.published[s],
           content'.anomaly = content.anomaly \/ content'.anomaly = NoAnomaly
    PROVE  StillCovered'
<1> SUFFICES ASSUME verified # None, NEW s \in Wpsr
             PROVE  \E w \in Int : w >= verified /\ HasValue(content', s, w)
  BY DEF StillCovered, Covered
<1>1. PICK w \in Int : w >= verified /\ HasValue(content, s, w)
  BY DEF StillCovered, Covered
<1>2. s \in Series /\ content \in Content
  BY PipelineAssumption DEF PipelineAssumption, TypeOK
<1>3. HasValue(content', s, w)
  BY <1>1, <1>2, ValuesStay
<1>4. QED
  BY <1>1, <1>3

LEMMA NextCovered == IInv /\ [Next]_vars => IInv'
<1> SUFFICES ASSUME IInv, [Next]_vars PROVE IInv'
  OBVIOUS
<1> USE DEF IInv
<1>1. CASE UNCHANGED vars
  BY <1>1 DEF vars, TypeOK, StillCovered, VerifiedIsServed, Reaches, Weeks
<1>2. CASE Tick
  BY <1>2 DEF Tick, TypeOK, StillCovered, VerifiedIsServed, Reaches, Weeks
<1>3. ASSUME NEW s \in Series, Publish(s) PROVE IInv'
  <2>1. content' \in Content /\ content'.anomaly = content.anomaly
    BY <1>3, PipelineAssumption
       DEF PipelineAssumption, Publish, TypeOK, Content, Week
  <2>2. \A r \in Series : content.published[r] <= content'.published[r]
    BY <1>3, PipelineAssumption
       DEF PipelineAssumption, Publish, TypeOK, Content, Week
  <2>3. StillCovered'
    BY <1>3, <2>1, <2>2, AddedCovered DEF Publish
  <2>4. QED
    BY <1>3, <2>1, <2>3 DEF Publish, TypeOK, VerifiedIsServed, Reaches, Weeks
<1>4. ASSUME NEW a \in Anomalies, GoWrong(a) PROVE IInv'
  BY <1>4 DEF GoWrong, TypeOK, Content, StillCovered, VerifiedIsServed, Reaches, Weeks
<1>5. CASE Repair
  <2>1. content' \in Content /\ content'.anomaly = NoAnomaly
        /\ content'.published = content.published
    BY <1>5 DEF Repair, TypeOK, Content
  <2>2. \A r \in Series : content.published[r] <= content'.published[r]
    <3>1. \A r \in Series : content.published[r] \in Int
      BY WeekIsInt DEF TypeOK, Content
    <3>2. QED
      BY <2>1, <3>1
  <2>3. StillCovered'
    BY <1>5, <2>1, <2>2, AddedCovered DEF Repair
  <2>4. QED
    BY <1>5, <2>1, <2>3 DEF Repair, TypeOK, VerifiedIsServed, Reaches, Weeks
<1>6. CASE Verify
  <2>1. ExpectedWeek(now) \in Int
    BY InstantsResolve DEF TypeOK
  <2>2. \A s \in Wpsr : \E w \in Int :
            w >= ExpectedWeek(now) /\ HasValue(content, s, w)
    BY <1>6, SampledIsObserved, PipelineAssumption
       DEF PipelineAssumption, Verify, Verifies, TypeOK
  <2>3. StillCovered'
    BY <1>6, <2>2 DEF Verify, StillCovered, Covered
  <2>4. QED
    BY <1>6, <2>1, <2>3 DEF Verify, TypeOK, VerifiedIsServed, Reaches, Weeks
<1>7. CASE Ingest
  <2>1. TypeOK'
    BY <1>7, PipelineAssumption DEF PipelineAssumption, Ingest, TypeOK
  <2>2. StillCovered'
    BY <1>7 DEF Ingest, StillCovered
  <2>3. ASSUME verified # None, NEW s \in Wpsr
        PROVE  \E w \in Weeks(rows', s) : w >= verified
    <3>1. s \in Series /\ content \in Content
      BY PipelineAssumption DEF PipelineAssumption, TypeOK
    <3>2. PICK w \in Int : w >= verified /\ HasValue(content, s, w)
      BY <2>3 DEF StillCovered, Covered
    <3>3. w \in Weeks(Observations(content), s)
      BY <3>1, <3>2, ObservedWeeks
    <3>4. QED
      BY <1>7, <3>2, <3>3 DEF Ingest
  <2>4. VerifiedIsServed'
    BY <1>7, <2>3 DEF Ingest, VerifiedIsServed, Reaches
  <2>5. QED
    BY <2>1, <2>2, <2>4
<1>8. CASE Reuse
  BY <1>8 DEF Reuse, TypeOK, StillCovered, VerifiedIsServed, Reaches, Weeks
<1>9. QED
  BY <1>1, <1>2, <1>3, <1>4, <1>5, <1>6, <1>7, <1>8 DEF Next

(* A verification that passes is a promise about the next run of           *)
(* ingest-eia (docs/eia-setup.md, steps 3 and 4), for any registry, sample *)
(* length, anomalies and calendar.                                         *)
THEOREM VerifiedRunReaches == Spec => []VerifiedIsServed
<1>1. IInv => VerifiedIsServed
  BY DEF IInv
<1>2. QED
  BY InitCovered, NextCovered, <1>1, PTL DEF Spec

(* The dataset served is what a content accepted whole gives. *)
THEOREM PipelineTypeCorrect == Spec => []TypeOK
<1>1. IInv => TypeOK
  BY DEF IInv
<1>2. QED
  BY InitCovered, NextCovered, <1>1, PTL DEF Spec

--------------------------------------------------------------------------------
(* The gate. *)

LEMMA ObservedInt ==
    ASSUME TypeOK, rows # None, NEW s \in Series
    PROVE  Weeks(rows, s) \subseteq Int
<1>1. latest # None /\ latest \in Content /\ rows = Observations(latest)
  BY DEF TypeOK
<1>2. QED
  BY <1>1, ObservedWeeks, WeekIsInt DEF HasValue

LEMMA TimePasses == TypeOK /\ TypeOK' /\ [Next]_vars => now <= now'
<1> SUFFICES ASSUME TypeOK, TypeOK', [Next]_vars PROVE now <= now'
  OBVIOUS
<1>1. now \in Int /\ now' \in Int
  BY InstantsResolve DEF TypeOK
<1>2. QED
  BY <1>1 DEF Next, vars, Tick, Publish, GoWrong, Repair, Verify, Ingest, Reuse

(* Nothing but an ingestion makes a stale dataset fresh. *)
THEOREM StaleStays == Spec => StaleUntilIngested
<1>1. ASSUME TypeOK, TypeOK', [Next]_vars,
             rows # None, rows' = rows, Stale(rows, now)
      PROVE  Stale(rows, now')
  <2>1. /\ now \in Instants /\ now' \in Instants /\ now <= now'
    BY <1>1, TimePasses DEF TypeOK
  <2>2. /\ ExpectedWeek(now) \in Int /\ ExpectedWeek(now') \in Int
        /\ ExpectedWeek(now) <= ExpectedWeek(now')
    BY <2>1, InstantsResolve, ExpectedNeverGoesBack
  <2>3. PICK s \in Present(rows) : \A w \in Weeks(rows, s) : w < ExpectedWeek(now)
    BY <1>1 DEF Stale, StaleSeries
  <2>4. Weeks(rows, s) \subseteq Int
    BY <1>1, <2>3, ObservedInt DEF Present
  <2>5. \A w \in Weeks(rows, s) : w < ExpectedWeek(now')
    BY <2>2, <2>3, <2>4
  <2>6. QED
    BY <2>3, <2>5 DEF Stale, StaleSeries
<1>2. TypeOK /\ TypeOK' /\ [Next]_vars =>
        [rows # None /\ rows' = rows /\ Stale(rows, now) => Stale(rows, now')]_vars
  BY <1>1
<1>3. QED
  BY <1>2, PipelineTypeCorrect, PTL DEF Spec, StaleUntilIngested

(* No calendar makes data stale that has every week whose release and      *)
(* grace are over.                                                         *)
THEOREM GraceIsHonoured == Spec => []NotStaleWithinGrace
<1>1. TypeOK => NotStaleWithinGrace
  <2> SUFFICES ASSUME TypeOK, latest # None, latest.anomaly = NoAnomaly,
                      \A s \in Series : \A w \in DueWeeks : latest.published[s] >= w,
                      Stale(rows, now)
               PROVE  FALSE
    BY DEF NotStaleWithinGrace
  <2> DEFINE e == ExpectedWeek(now)
  <2>1. now \in Int /\ Resolvable(now) /\ e \in Int
    BY InstantsResolve DEF TypeOK
  <2>2. Due(e, now) /\ LastFriday(now) - e \in 0..(Lookback - 1)
    BY <2>1, ExpectedIsLastDue
  <2> HIDE DEF e
  <2>3. LastFriday(now) \in Int
    BY <2>1, LastFridayMonotone
  <2> DEFINE f == LastFriday(now)
  <2>4. e <= f
    <3> HIDE DEF f
    <3>1. f - e \in 0..(Lookback - 1) /\ f \in Int
      BY <2>2, <2>3 DEF f
    <3>2. QED
      BY <2>1, <3>1 DEF Lookback
  <2>5. PICK s \in Present(rows) : \A w \in Weeks(rows, s) : w < e
    BY DEF Stale, StaleSeries, e
  <2>6. s \in Series /\ latest \in Content /\ rows = Observations(latest)
    BY <2>5 DEF Present, TypeOK
  <2> DEFINE p == latest.published[s]
  <2>7. p \in Week /\ p \in Int /\ FirstWeek \in Int /\ FirstWeek <= p
    BY <2>6, WeekIsInt, PipelineAssumption DEF PipelineAssumption, Content, Week
  <2>8. p >= e
    <3>1. CASE e < FirstWeek
      BY <2>1, <2>7, <3>1
    <3>2. CASE e >= FirstWeek
      <4>1. e \in DueWeeks
        BY <2>1, <2>2, <2>3, <2>4, <2>7, <3>2 DEF DueWeeks, Due
      <4>2. QED
        BY <2>6, <4>1
    <3>3. QED
      BY <2>1, <2>7, <3>1, <3>2
  <2>9. p \in Weeks(rows, s)
    <3>1. latest.anomaly.series # s
      BY <2>6, PipelineAssumption DEF PipelineAssumption, NoAnomaly
    <3>2. Rows(latest, s, p) = <<"number">>
      BY <3>1 DEF Rows
    <3>3. 1 \in DOMAIN <<"number">> /\ <<"number">>[1] # "no value"
      OBVIOUS
    <3>4. 1 \in Valued(latest, s, p)
      BY <3>2, <3>3 DEF Valued
    <3>5. HasValue(latest, s, p)
      BY <2>7, <3>4 DEF HasValue
    <3>6. QED
      BY <2>6, <3>5, ObservedWeeks
  <2>10. QED
    BY <2>1, <2>5, <2>7, <2>8, <2>9
<1>2. QED
  BY <1>1, PipelineTypeCorrect, PTL

--------------------------------------------------------------------------------
(* What the readers of a dataset are told. *)

LEMMA RowsWithin == TypeOK /\ rows # None => Within(rows, FirstWeek, LastWeek)
<1> SUFFICES ASSUME TypeOK, rows # None, NEW s \in Series, NEW w \in Weeks(rows, s)
             PROVE  w \in FirstWeek..LastWeek
  BY DEF Within
<1>1. latest \in Content /\ rows = Observations(latest)
  BY DEF TypeOK
<1>2. QED
  BY <1>1, ObservedWeeks DEF HasValue, Week

LEMMA FirstAndLastWeek == FirstWeek \in Int /\ LastWeek \in Int
BY PipelineAssumption DEF PipelineAssumption

(* A balance is of one week, whatever weeks the series have rows of.       *)
THEOREM BalanceKeepsToItsWeek == Spec => []BalanceIsOfOneWeek
<1>1. TypeOK => BalanceIsOfOneWeek
  <2> SUFFICES ASSUME TypeOK, rows # None, HasBalance(rows)
               PROVE  LET watch == BalanceWatch(rows)
                      IN  /\ watch.as_of = CrudeBalance(rows).as_of
                          /\ \A claim \in watch.claims : EndOf(claim) = watch.as_of
                          /\ \A s \in Flows : \E claim \in watch.claims :
                                  claim.says = {rows[s][watch.as_of]}
    BY DEF BalanceIsOfOneWeek, Ingested
  <2>1. Within(rows, FirstWeek, LastWeek) /\ FirstWeek \in Int /\ LastWeek \in Int
    BY RowsWithin, FirstAndLastWeek
  <2>2. /\ BalanceWatch(rows).as_of = BalanceWeek(rows)
        /\ CrudeBalance(rows).as_of = BalanceWeek(rows)
        /\ \A s \in Flows : \E claim \in BalanceWatch(rows).claims :
               claim.says = {rows[s][BalanceWeek(rows)]}
    BY <2>1, WatchHasWeek
  <2>3. \A claim \in BalanceWatch(rows).claims : EndOf(claim) = BalanceWeek(rows)
    BY <2>1, BalanceEnds
  <2>4. QED
    BY <2>2, <2>3
<1>2. QED
  BY <1>1, PipelineTypeCorrect, PTL

(* Without gaps the flows share every week that is due. *)
LEMMA BalanceReaches ==
    ASSUME TypeOK, rows # None, HasBalance(rows), \A s \in Flows : ~HasGap(rows, s),
           NEW w \in Int, w >= FirstWeek, \A s \in Present(rows) : w <= Last(rows, s)
    PROVE  w <= BalanceWeek(rows)
<1>1. Within(rows, FirstWeek, LastWeek) /\ FirstWeek \in Int /\ LastWeek \in Int
  BY RowsWithin, FirstAndLastWeek
<1>2. /\ \A v \in CommonWeeks(rows) : v <= BalanceWeek(rows)
      /\ Flows # {} /\ \A s \in Flows : BalanceWeek(rows) \in Weeks(rows, s)
  BY <1>1, BalanceWeeks
<1>3. ASSUME NEW s \in Flows PROVE w \in Weeks(rows, s)
  <2>1. s \in Present(rows)
    BY <1>2 DEF Present, Series
  <2>2. Last(rows, s) \in Weeks(rows, s) /\ Last(rows, s) \in Int /\ w <= Last(rows, s)
    BY <1>1, <2>1, LastRow
  <2>3. w \in FirstWeek..Last(rows, s)
    BY <1>1, <2>2
  <2>4. QED
    BY <2>2, <2>3 DEF HasGap
<1>4. w \in CommonWeeks(rows)
  BY <1>2, <1>3 DEF CommonWeeks
<1>5. QED
  BY <1>2, <1>4

(* What passes the gate is current, for any calendar, any anomalies and    *)
(* any policies.                                                           *)
THEOREM GatedIsCurrent == Spec => []GatedReportsAreCurrent
<1>1. TypeOK => GatedReportsAreCurrent
  <2> SUFFICES ASSUME TypeOK, rows # None, ~Stale(rows, now), NEW w \in DueWeeks
               PROVE
      /\ \A s \in Present(rows) : \A claim \in Fact(rows, s).claims \cup {Answer(rows, s)} :
              EndOf(claim) >= w
      /\ \A claim \in Brief(rows, Metrics).claims \cup Delta(rows, Metrics).claims :
              EndOf(claim) >= w
      /\ \A policy \in Policies : \A v \in Evaluation(rows, policy).as_of : v >= w
      /\ HasBalance(rows) /\ (\A s \in Flows : ~HasGap(rows, s)) =>
              \A claim \in BalanceWatch(rows).claims : EndOf(claim) >= w
    BY DEF GatedReportsAreCurrent, Gated, Ingested
  <2>1. Within(rows, FirstWeek, LastWeek) /\ FirstWeek \in Int /\ LastWeek \in Int
    BY RowsWithin, FirstAndLastWeek
  <2>2. now \in Int /\ Resolvable(now) /\ ExpectedWeek(now) \in Int
    BY InstantsResolve DEF TypeOK
  <2>3. w \in Int /\ w >= FirstWeek /\ w <= ExpectedWeek(now)
    <3>1. LastFriday(now) \in Int
      BY <2>2, LastFridayMonotone
    <3>2. w \in Int /\ w >= FirstWeek /\ w <= LastFriday(now) /\ Due(w, now)
      BY <2>1, <3>1 DEF DueWeeks, Due
    <3>3. QED
      BY <2>2, <3>2, DueIsExpected
  <2>4. ASSUME NEW s \in Present(rows)
        PROVE  Last(rows, s) \in Int /\ w <= Last(rows, s) /\ Last(rows, s) >= w
    <3>1. Last(rows, s) \in Int /\ Last(rows, s) >= ExpectedWeek(now)
      BY <2>1, <2>2, LastRow, FreshReaches
    <3>2. QED
      BY <2>2, <2>3, <3>1
  <2>5. ASSUME NEW s \in Present(rows),
               NEW claim \in Fact(rows, s).claims \cup {Answer(rows, s)}
        PROVE  EndOf(claim) >= w
    BY <2>1, <2>4, FactEnds
  <2>6. ASSUME NEW claim \in Brief(rows, Metrics).claims \cup Delta(rows, Metrics).claims
        PROVE  EndOf(claim) >= w
    <3>1. Metrics \in SUBSET Series
      BY PipelineAssumption DEF PipelineAssumption
    <3>2. CASE claim \in Brief(rows, Metrics).claims
      <4>1. PICK s \in Metrics \cap Present(rows) : claim = Answer(rows, s)
        BY <2>1, <3>1, <3>2, BriefAnswers
      <4>2. QED
        BY <2>5, <4>1
    <3>3. CASE claim \in Delta(rows, Metrics).claims
      <4>1. PICK s \in Metrics \cap Present(rows) :
               \E t \in LatestSnapshot(rows, s).change : claim = Derived(t)
        BY <2>1, <3>1, <3>3, DeltaMoves
      <4>2. EndOf(claim) = Last(rows, s)
        BY <2>1, <4>1, DerivedEnds
      <4>3. QED
        BY <2>4, <4>2
    <3>4. QED
      BY <3>2, <3>3
  <2>7. ASSUME NEW policy \in Policies, NEW v \in Evaluation(rows, policy).as_of
        PROVE  v >= w
    <3> DEFINE seen == {c.series : c \in policy.conditions} \cap Present(rows)
               dates == {LatestOf(rows, {s}) : s \in seen}
    <3>1. \A s \in seen : LatestOf(rows, {s}) = Last(rows, s)
      BY DEF LatestOf, Last
    <3>2. \A d \in dates : d \in FirstWeek..LastWeek /\ d >= w
      <4>1. \A s \in seen : s \in Series /\ Last(rows, s) \in Weeks(rows, s)
        BY <2>1, LastRow
      <4>2. \A s \in seen : Last(rows, s) \in FirstWeek..LastWeek /\ Last(rows, s) >= w
        BY <2>1, <2>4, <4>1 DEF Within
      <4> HIDE DEF seen
      <4>3. QED
        BY <3>1, <4>2
    <3>3. v \in Newest(dates)
      BY DEF Evaluation
    <3> HIDE DEF dates
    <3>4. dates # {} /\ v = Max(dates)
      BY <3>3 DEF Newest
    <3>5. dates \in SUBSET (FirstWeek..LastWeek)
      BY <3>2
    <3>6. v \in dates
      BY <2>1, <3>4, <3>5, MaxIsIn
    <3>7. QED
      BY <3>2, <3>6
  <2>8. ASSUME HasBalance(rows), \A s \in Flows : ~HasGap(rows, s),
               NEW claim \in BalanceWatch(rows).claims
        PROVE  EndOf(claim) >= w
    <3>1. w <= BalanceWeek(rows)
      BY <2>3, <2>4, <2>8, BalanceReaches
    <3>2. EndOf(claim) = BalanceWeek(rows) /\ BalanceWeek(rows) \in Int
      BY <2>1, <2>8, BalanceEnds, BalanceWeeks
    <3>3. QED
      BY <2>3, <3>1, <3>2
  <2>9. QED
    BY <2>5, <2>6, <2>7, <2>8
<1>2. QED
  BY <1>1, PipelineTypeCorrect, PTL

--------------------------------------------------------------------------------
(* What the products say of a series. *)

LEMMA AnswerAgrees ==
    ASSUME NEW a \in Int, NEW b \in Int, NEW obs, Within(obs, a, b),
           NEW s \in Present(obs)
    PROVE  SaysTheSame(Answer(obs, s), Fact(obs, s))
<1> DEFINE snapshot == LatestSnapshot(obs, s)
<1>1. /\ Answer(obs, s).says = {snapshot.current}
      /\ Answer(obs, s).calculation = snapshot.change
  BY DEF Answer, Level
<1>2. /\ Level(snapshot, {}) \in Fact(obs, s).claims
      /\ Level(snapshot, {}).says = {snapshot.current}
  BY DEF Fact, Level
<1>3. ASSUME snapshot.change # {}
      PROVE  \E other \in Fact(obs, s).claims : other.calculation = snapshot.change
  <2>1. PICK t \in snapshot.change : TRUE
    BY <1>3
  <2>2. snapshot.change = {t}
    BY ChangeOfLatest
  <2>3. Derived(t) \in Fact(obs, s).claims /\ Derived(t).calculation = {t}
    BY <2>1 DEF Fact, Derived
  <2>4. QED
    BY <2>2, <2>3
<1> HIDE DEF snapshot
<1>4. QED
  BY <1>1, <1>2, <1>3 DEF SaysTheSame

LEMMA DerivedAgrees ==
    ASSUME NEW obs, NEW s, NEW t \in LatestSnapshot(obs, s).change
    PROVE  SaysTheSame(Derived(t), Fact(obs, s))
<1>1. Derived(t) \in Fact(obs, s).claims
  BY DEF Fact
<1>2. QED
  BY <1>1 DEF SaysTheSame, Derived

(* A condition matches by the level or the change the fact tells. *)
LEMMA MatchAgrees ==
    ASSUME NEW obs, NEW c, Matches(obs, c),
           c.field \in {"current", "week_over_week", "year_over_year"}
    PROVE  AlertSaysTheSame(obs, c)
<1> DEFINE snapshot == LatestSnapshot(obs, c.series)
           fact     == Fact(obs, c.series)
<1>1. PICK value \in ReadField(snapshot, c.field) :
               Compare(value, c.operator, c.threshold)
  BY DEF Matches
<1>2. CASE c.field = "current"
  <2>1. value = snapshot.current
    BY <1>1, <1>2 DEF ReadField
  <2>2. Level(snapshot, {}) \in fact.claims /\ Level(snapshot, {}).says = {snapshot.current}
    BY DEF Fact, Level
  <2>3. value \in Level(snapshot, {}).says
    BY <2>1, <2>2
  <2>4. QED
    BY <1>1, <1>2, <2>2, <2>3 DEF AlertSaysTheSame
<1>3. CASE c.field = "week_over_week"
  <2>1. PICK t \in snapshot.change : value = t.result
    BY <1>1, <1>3 DEF ReadField
  <2>2. Derived(t) \in fact.claims /\ t \in Derived(t).calculation
    BY <2>1 DEF Fact, Derived
  <2>3. QED
    BY <1>1, <1>3, <2>1, <2>2 DEF AlertSaysTheSame
<1>4. CASE c.field = "year_over_year"
  <2>1. Level(snapshot, {}) \in fact.claims
    BY DEF Fact
  <2>2. QED
    BY <1>4, <2>1 DEF AlertSaysTheSame
<1>5. QED
  BY <1>2, <1>3, <1>4

(* The stock change of a balance of the last stock row is the change of    *)
(* the stock series.                                                       *)
LEMMA StockAgrees ==
    ASSUME NEW a \in Int, NEW b \in Int, NEW obs, Within(obs, a, b), HasBalance(obs),
           Max(Weeks(obs, Stock)) = CrudeBalance(obs).as_of,
           NEW t \in LatestSnapshot(obs, Stock).change
    PROVE  /\ CrudeBalance(obs).rate.result = t.result
           /\ CrudeBalance(obs).rate.inputs = t.inputs
<1> DEFINE w == BalanceWeek(obs)
           p == Prior(obs)
<1>1. Last(obs, Stock) = w
  BY DEF CrudeBalance, BalanceBetween, Last
<1>2. Stock \in Present(obs)
  BY BalanceWeeks DEF Present, Series
<1>3. t = Change(obs, Stock, p, w)
  <2>1. t = Change(obs, Stock, Max(UpTo(obs, Stock, Last(obs, Stock) - 1)),
                   Last(obs, Stock))
    BY <1>2, ChangeOfLatest
  <2>2. QED
    BY <1>1, <2>1 DEF Prior
<1>4. /\ t.result = obs[Stock][w] - obs[Stock][p]
      /\ t.inputs = {<<Stock, p>>, <<Stock, w>>}
  BY <1>3 DEF Change
<1>5. /\ CrudeBalance(obs).rate.result = obs[Stock][w] - obs[Stock][p]
      /\ CrudeBalance(obs).rate.inputs = {<<Stock, p>>, <<Stock, w>>}
  BY DEF CrudeBalance, BalanceBetween, Prior
<1>6. QED
  BY <1>4, <1>5

(* Products of one dataset do not contradict each other, whatever it       *)
(* lacks and whatever is asked of it.                                      *)
THEOREM ProductsAlwaysAgree == Spec => []ProductsAgree
<1>1. TypeOK => ProductsAgree
  <2> SUFFICES ASSUME TypeOK, rows # None
               PROVE
      /\ \A policy \in Policies : Evaluation(rows, policy).matched =>
              \E c \in policy.conditions : Matches(rows, c) /\ AlertSaysTheSame(rows, c)
      /\ \A s \in Present(rows) : SaysTheSame(Answer(rows, s), Fact(rows, s))
      /\ \A claim \in Brief(rows, Metrics).claims \cup Delta(rows, Metrics).claims :
              \E s \in Present(rows) : /\ \A row \in claim.cites : row[1] = s
                                       /\ SaysTheSame(claim, Fact(rows, s))
      /\ \A claim \in Delta(rows, Metrics).claims :
              EndOf(claim) = Delta(rows, Metrics).as_of
      /\ HasBalance(rows) /\ Max(Weeks(rows, Stock)) = CrudeBalance(rows).as_of =>
              \A t \in LatestSnapshot(rows, Stock).change :
                  /\ CrudeBalance(rows).rate.result = t.result
                  /\ CrudeBalance(rows).rate.inputs = t.inputs
    BY DEF ProductsAgree, Ingested
  <2>1. Within(rows, FirstWeek, LastWeek) /\ FirstWeek \in Int /\ LastWeek \in Int
    BY RowsWithin, FirstAndLastWeek
  <2>2. Metrics \in SUBSET Series
    BY PipelineAssumption DEF PipelineAssumption
  <2>3. ASSUME NEW policy \in Policies, Evaluation(rows, policy).matched
        PROVE  \E c \in policy.conditions : Matches(rows, c) /\ AlertSaysTheSame(rows, c)
    <3>1. /\ policy.conditions # {}
          /\ \A c \in policy.conditions :
                c.field \in {"current", "week_over_week", "year_over_year"}
      BY PipelineAssumption DEF PipelineAssumption
    <3>2. PICK c \in policy.conditions : Matches(rows, c)
      BY <2>3, <3>1 DEF Evaluation
    <3>3. AlertSaysTheSame(rows, c)
      BY <3>1, <3>2, MatchAgrees
    <3>4. QED
      BY <3>2, <3>3
  <2>4. ASSUME NEW s \in Present(rows) PROVE SaysTheSame(Answer(rows, s), Fact(rows, s))
    BY <2>1, AnswerAgrees
  <2>5. ASSUME NEW claim \in Brief(rows, Metrics).claims
        PROVE  \E s \in Present(rows) : /\ \A row \in claim.cites : row[1] = s
                                        /\ SaysTheSame(claim, Fact(rows, s))
    <3>1. PICK s \in Metrics \cap Present(rows) : claim = Answer(rows, s)
      BY <2>1, <2>2, BriefAnswers
    <3>2. \A row \in Answer(rows, s).cites : row[1] = s
      BY <2>1, FactEnds
    <3>3. QED
      BY <2>4, <3>1, <3>2
  <2>6. ASSUME NEW claim \in Delta(rows, Metrics).claims
        PROVE  /\ \E s \in Present(rows) : /\ \A row \in claim.cites : row[1] = s
                                           /\ SaysTheSame(claim, Fact(rows, s))
               /\ EndOf(claim) = Delta(rows, Metrics).as_of
    <3>1. PICK s \in Metrics \cap Present(rows) :
             /\ \E t \in LatestSnapshot(rows, s).change : claim = Derived(t)
             /\ Last(rows, s) = Delta(rows, Metrics).as_of
      BY <2>1, <2>2, DeltaMoves
    <3>2. PICK t \in LatestSnapshot(rows, s).change : claim = Derived(t)
      BY <3>1
    <3>3. EndOf(claim) = Last(rows, s) /\ \A row \in claim.cites : row[1] = s
      BY <2>1, <3>2, DerivedEnds
    <3>4. SaysTheSame(claim, Fact(rows, s))
      BY <3>2, DerivedAgrees
    <3>5. QED
      BY <3>1, <3>3, <3>4
  <2>7. ASSUME HasBalance(rows), Max(Weeks(rows, Stock)) = CrudeBalance(rows).as_of,
               NEW t \in LatestSnapshot(rows, Stock).change
        PROVE  /\ CrudeBalance(rows).rate.result = t.result
               /\ CrudeBalance(rows).rate.inputs = t.inputs
    BY <2>1, <2>7, StockAgrees
  <2>8. QED
    BY <2>3, <2>4, <2>5, <2>6, <2>7
<1>2. QED
  BY <1>1, PipelineTypeCorrect, PTL

--------------------------------------------------------------------------------
(* What comes to be served, and the ledger. *)

(* Every file with a row is of a content that was accepted, and the one    *)
(* served has observations.                                                *)
OnlyAccepted ==
    /\ \A c \in contents : Accepts(c)
    /\ rows # None => Present(rows) # {}

LEMMA AcceptedIsPresent ==
    ASSUME NEW c \in Content, Accepts(c)
    PROVE  Present(Observations(c)) # {}
<1>1. PICK s \in Series : \E w \in Served(c, s) : Valued(c, s, w) # {}
  BY DEF Accepts
<1>2. Weeks(Observations(c), s) # {}
  BY <1>1 DEF Observations, Weeks
<1> QED BY <1>2 DEF Present

(* Nothing is ingested that the checks of a run refuse, and no later run   *)
(* brings such a content back, so every dataset has a series to report on  *)
(* (ingest_registry: "EIA ingestion produced no usable observations").      *)
THEOREM OnlyAcceptedIsServed == Spec => []OnlyAccepted
<1> DEFINE Accepted == \A c \in contents : Accepts(c)
<1>1. Init => Accepted
  BY DEF Init
<1>2. Accepted /\ [Next]_vars => Accepted'
  BY DEF Next, Tick, Publish, GoWrong, Repair, Verify, Ingest, Reuse, vars
<1>3. TypeOK /\ Accepted => OnlyAccepted
  <2> SUFFICES ASSUME TypeOK, Accepted, rows # None PROVE Present(rows) # {}
    BY DEF OnlyAccepted
  <2>1. latest \in contents /\ latest \in Content /\ rows = Observations(latest)
    BY DEF TypeOK
  <2> QED BY <2>1, AcceptedIsPresent
<1>4. QED
  BY <1>1, <1>2, <1>3, PipelineTypeCorrect, PTL DEF Spec

Ledger == INSTANCE IngestionLedger WITH
    Contents <- Content, newest <- latest, whole <- contents, recorded <- contents

(* Ingestion in one step, as it is taken here, keeps the ledger that       *)
(* ingestion in its own steps keeps in DatasetStore, for any contents      *)
(* (ingest_registry).                                                      *)
THEOREM PipelineImplementsLedger == Spec => Ledger!Spec
<1>1. Init => Ledger!Init
  BY DEF Init, Ledger!Init
<1>2. TypeOK /\ [Next]_vars => [Ledger!Next]_(Ledger!vars)
  <2> SUFFICES ASSUME TypeOK, [Next]_vars PROVE [Ledger!Next]_(Ledger!vars)
    OBVIOUS
  <2>1. CASE UNCHANGED <<contents, latest>>
    BY <2>1 DEF Ledger!vars
  <2>2. CASE Ingest
    <3>1. PICK c \in Content : c = content
      BY DEF TypeOK
    <3>2. Ledger!Ingest(c)
      BY <2>2, <3>1 DEF Ingest, Ledger!Ingest
    <3> QED BY <3>2 DEF Ledger!Next
  <2> QED BY <2>1, <2>2 DEF Next, Tick, Publish, GoWrong, Repair, Verify, Reuse, vars
<1>3. QED
  BY <1>1, <1>2, PipelineTypeCorrect, PTL DEF Spec, Ledger!Spec
================================================================================
