---------------------------- MODULE PetroleumReports ---------------------------
(***************************************************************************)
(* What is computed from the observations of a dataset: the snapshot of a  *)
(* series (analytics/petroleum.py), the crude balance                      *)
(* (analytics/crude_balance.py), the reports (reports/), the answers of    *)
(* /api/ask (api/app.py) and the evaluation of alert policies              *)
(* (alerts/rules.py, alerts/engine.py).                                    *)
(*                                                                         *)
(* obs[s] maps the weeks a series has an observation for to its value.  A  *)
(* claim keeps the rows it cites, as pairs of a series and a week, and the *)
(* calculation it quotes; its wording is left out, so are the parts of a   *)
(* snapshot that no claim reads (averages, seasonal range) and the z-score *)
(* only alerts read.  Claim.calculation_is_cited (models.py) makes every   *)
(* citation of a claim with a calculation a citation of that calculation,  *)
(* so what validate_report (agent/validation.py) asks of a claim holds.    *)
(*                                                                         *)
(* A definition marked "mutant" is a wrong version of the one that follows *)
(* it and is used by nothing: replacing that one by it breaks a property.  *)
(***************************************************************************)
EXTENDS Integers, FiniteSetsExt

CONSTANTS
    Inflows,        \* production and imports of crude oil
    Outflows,       \* exports and refinery input
    Stock,          \* commercial crude stocks
    OtherSeries     \* the other maintained series, and those of the registry
                    \* that no report mentions

Flows  == Inflows \cup Outflows
Series == Flows \cup {Stock} \cup OtherSeries

Weeks(obs, s)       == DOMAIN obs[s]
UpTo(obs, s, w)     == {v \in Weeks(obs, s) : v <= w}
Present(obs)        == {s \in Series : Weeks(obs, s) # {}}
LatestOf(obs, some) == Max(UNION {Weeks(obs, s) : s \in some})

--------------------------------------------------------------------------------
(* Snapshots. *)

Change(obs, s, from, to) ==
    [operation |-> "week_over_week",
     inputs    |-> {<<s, from>>, <<s, to>>},
     result    |-> obs[s][to] - obs[s][from]]

Newest(weeks) == IF weeks = {} THEN {} ELSE {Max(weeks)}

(* build_snapshot takes the last two rows, whatever lies between them, and *)
(* of those 350 to 380 days ago the one closest to 365 days.  What may be  *)
(* None in the code is a set here, empty or of one element.                *)
YearAgo(weeks, w) ==
    LET Days(v)    == 7 * (w - v)
        Off(v)     == Max({Days(v) - 365, 365 - Days(v)})
        candidates == {v \in weeks : 350 <= Days(v) /\ Days(v) <= 380}
    IN  {v \in candidates : \A u \in candidates : Off(v) <= Off(u)}

Snapshot(obs, s, upto) ==
    LET current == Max(UpTo(obs, s, upto))
        before  == UpTo(obs, s, current - 1)
    IN  [series  |-> s,
         as_of   |-> current,
         current |-> obs[s][current],
         change  |-> {Change(obs, s, w, current) : w \in Newest(before)},
         year    |-> {obs[s][current] - obs[s][w] : w \in YearAgo(before, current)}]

LatestSnapshot(obs, s) == Snapshot(obs, s, Max(Weeks(obs, s)))

--------------------------------------------------------------------------------
(* The crude balance: the last week all flows share, the stock of that     *)
(* week and the stock before it.                                           *)

CommonWeeks(obs) == {w \in UNION {Weeks(obs, s) : s \in Flows} :
                        \A s \in Flows : w \in Weeks(obs, s)}

BalanceWeek(obs) == Max(CommonWeeks(obs))

HasBalance(obs) ==
    /\ CommonWeeks(obs) # {}
    /\ BalanceWeek(obs) \in Weeks(obs, Stock)
    /\ UpTo(obs, Stock, BalanceWeek(obs) - 1) # {}

CoreFlow(obs, w) == MapThenSumSet(LAMBDA s : obs[s][w], Inflows)
                    - MapThenSumSet(LAMBDA s : obs[s][w], Outflows)

(* Of a rate the numerator is kept; it is divided by the days between the  *)
(* two stocks among its inputs.                                            *)
BalanceBetween(obs, prior, w) ==
    LET days  == 7 * (w - prior)
        rise  == obs[Stock][w] - obs[Stock][prior]
        flows == {<<s, w>> : s \in Flows}
        stock == {<<Stock, prior>>, <<Stock, w>>}
    IN  [as_of    |-> w,
         core     |-> [operation |-> "core_crude_flow_balance",
                       inputs |-> flows, result |-> CoreFlow(obs, w)],
         rate     |-> [operation |-> "commercial_crude_stock_change_rate",
                       inputs |-> stock, result |-> rise],
         residual |-> [operation |-> "crude_other_adjustment_residual",
                       inputs |-> flows \cup stock,
                       result |-> rise - CoreFlow(obs, w) * days]]

CrudeBalance(obs) ==
    BalanceBetween(obs, Max(UpTo(obs, Stock, BalanceWeek(obs) - 1)), BalanceWeek(obs))

--------------------------------------------------------------------------------
(* Reports.  A claim says at most one value and one calculation. *)

Level(snapshot, traces) ==
    [says        |-> {snapshot.current},
     calculation |-> traces,
     cites       |-> {<<snapshot.series, snapshot.as_of>>} \cup UNION {t.inputs : t \in traces}]

Derived(trace) == [says |-> {}, calculation |-> {trace}, cites |-> trace.inputs]

(* The newest row it cites. *)
EndOf(claim) == Max({row[2] : row \in claim.cites})

(* WeeklyPetroleumBrief reports every metric that has rows, as of the last *)
(* week of any series.  validate_report refuses a report without claims.   *)
HasBrief(obs, metrics) == metrics \cap Present(obs) # {}

Brief(obs, metrics) ==
    LET as_of == LatestOf(obs, Present(obs))
    IN  [as_of  |-> as_of,
         claims |-> {LET snapshot == Snapshot(obs, s, as_of)
                     IN  Level(snapshot, snapshot.change)
                        : s \in metrics \cap Present(obs)}]

(* WeeklyPetroleumDelta: the changes of the metrics that have a row of the *)
(* last week of any metric.                                                *)
MovedAny(obs, metrics) ==                                                 \* mutant
    {s \in metrics \cap Present(obs) : LatestSnapshot(obs, s).change # {}}
Moved(obs, metrics) ==
    LET scoped == metrics \cap Present(obs)
    IN  {s \in scoped :
            /\ Max(Weeks(obs, s)) = LatestOf(obs, scoped)
            /\ LatestSnapshot(obs, s).change # {}}

HasDelta(obs, metrics) == Moved(obs, metrics) # {}

Delta(obs, metrics) ==
    [as_of  |-> LatestOf(obs, metrics \cap Present(obs)),
     claims |-> UNION {{Derived(t) : t \in LatestSnapshot(obs, s).change} :
                          s \in Moved(obs, metrics)}]

(* SeriesFactBrief *)
Fact(obs, s) ==
    LET snapshot == LatestSnapshot(obs, s)
    IN  [as_of  |-> snapshot.as_of,
         claims |-> {Level(snapshot, {})} \cup {Derived(t) : t \in snapshot.change}]

ScopedToAll(obs, w) == obs                                                \* mutant
ScopedTo(obs, w)    == [s \in Series |-> Restrict(obs[s], UpTo(obs, s, w))]

(* CrudeBalanceWatch: a brief of the flows up to the week of the balance,  *)
(* and the three calculations of the balance.                              *)
BalanceWatch(obs) ==
    [Brief(ScopedTo(obs, BalanceWeek(obs)), Flows) EXCEPT !.claims = @ \cup
        {Derived(CrudeBalance(obs)[part]) : part \in {"core", "rate", "residual"}}]

(* _deterministic_answer, to a question about the balance or a series. *)
BalanceAnswer(obs)  == Derived(CrudeBalance(obs).core)
Answer(obs, s)      == LET snapshot == LatestSnapshot(obs, s)
                       IN  Level(snapshot, snapshot.change)

--------------------------------------------------------------------------------
(* Alerts.  A condition names a series, a field of its snapshot, an        *)
(* operator and a threshold.  Fields are read as sets: a snapshot without  *)
(* the field has no value of it.                                           *)

ReadField(snapshot, field) ==
    CASE field = "current"        -> {snapshot.current}
      [] field = "week_over_week" -> {t.result : t \in snapshot.change}
      [] field = "year_over_year" -> snapshot.year

Compare(value, operator, threshold) ==
    CASE operator = "lt"  -> value < threshold
      [] operator = "lte" -> value <= threshold
      [] operator = "gt"  -> value > threshold
      [] operator = "gte" -> value >= threshold

Matches(obs, condition) ==
    /\ condition.series \in Present(obs)
    /\ \E value \in ReadField(LatestSnapshot(obs, condition.series), condition.field) :
            Compare(value, condition.operator, condition.threshold)

(* AlertPolicy.evaluate *)
Evaluation(obs, policy) ==
    LET seen == {c.series : c \in policy.conditions} \cap Present(obs)
    IN  [matched |-> IF policy.mode = "all"
                     THEN \A c \in policy.conditions : Matches(obs, c)
                     ELSE \E c \in policy.conditions : Matches(obs, c),
         as_of   |-> Newest({LatestOf(obs, {s}) : s \in seen})]
================================================================================
