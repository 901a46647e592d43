----------------------------- MODULE SourcePipeline ----------------------------
(***************************************************************************)
(* From EIA's API to the served evidence: what EIA publishes over time,    *)
(* eia-verify-registry (data_ingestion/verification.py) and ingest-eia     *)
(* (data_ingestion/live.py).  What was ingested goes through ReleaseGate   *)
(* into the reports of PetroleumReports.                                   *)
(*                                                                         *)
(* A content is all the payloads of one moment: the last week EIA has      *)
(* published of each series, and what is wrong with it at that moment.     *)
(* Verifying and ingesting fetch one series after the other; every series  *)
(* is published on its own here, so the mix such a run can fetch is also   *)
(* the content of some moment, and a run is one step.  Files, crashes and  *)
(* readers in between are in DatasetStore and EvidenceContext.             *)
(*                                                                         *)
(* A definition marked "mutant" is a wrong version of the one that follows *)
(* it and is used by nothing: replacing that one by it breaks a property.  *)
(***************************************************************************)
EXTENDS ReleaseGate, Sequences

CONSTANTS
    Wpsr,           \* series of release_family wpsr; all are weekly
    Metrics,        \* DEFAULT_METRICS of the reports
    Policies,       \* alert policies (AlertPolicy), each of some conditions
    SampleLength,   \* rows the verification probes
    Instants,       \* bound: the instants at which something is looked at
    FirstWeek,      \* the oldest week EIA serves
    PublishedWeek,  \* the last week it has published at the start
    LastWeek,       \* bound: the last week it comes to publish
    Value(_, _),    \* the value of a series in a week
    Anomalies,      \* bound: what may go wrong at EIA
    MaxContents,    \* bound: contents ingested
    None

Week   == FirstWeek..LastWeek
Kind   == {"missing", "absent", "text", "repeated", "half missing", "revised",
           "truncated"}
NoAnomaly == [series |-> None, week |-> None, kind |-> None]
Content == [published : [Series -> Week], anomaly : Anomalies \cup {NoAnomaly}]

ASSUME PipelineAssumption ==
    /\ Wpsr \subseteq Series /\ Metrics \subseteq Series
    /\ SampleLength \in Nat \ {0}
    /\ Instants \subseteq Int /\ \A t \in Instants : Resolvable(t)
    /\ {FirstWeek, PublishedWeek, LastWeek} \subseteq Int
    /\ FirstWeek <= PublishedWeek /\ PublishedWeek <= LastWeek
    /\ Anomalies \subseteq [series : Series, week : Week, kind : Kind]
    /\ MaxContents \in Nat
    /\ \A policy \in Policies :
           /\ policy.conditions # {}
           /\ \A c \in policy.conditions :
                 c.field \in {"current", "week_over_week", "year_over_year"}
    /\ None \notin Content \cup Series \cup Int

VARIABLES
    now,
    content,        \* what EIA serves
    verified,       \* the week the last verification found covered, until an
                    \* anomaly, or None
    contents,       \* the contents with a file and a provenance row
    latest,         \* the one with the newest file, or None
    rows,           \* the observations in that file
    run             \* the last result of ingest-eia, or None

vars == <<now, content, verified, contents, latest, rows, run>>

--------------------------------------------------------------------------------
(* What EIA serves for a week of a series: rows, each with a number, no    *)
(* value or something else.                                                *)

Rows(c, s, w) ==
    IF c.anomaly.series # s \/ c.anomaly.week # w THEN <<"number">>
    ELSE CASE c.anomaly.kind = "missing"      -> <<"no value">>
           [] c.anomaly.kind = "absent"       -> << >>
           [] c.anomaly.kind = "text"         -> <<"text">>
           [] c.anomaly.kind = "repeated"     -> <<"number", "number">>
           [] c.anomaly.kind = "half missing" -> <<"no value", "number">>
           [] OTHER                           -> <<"number">>

Served(c, s) == {w \in FirstWeek..c.published[s] : Rows(c, s, w) # << >>}

Number(c, s, w) ==
    IF c.anomaly = [series |-> s, week |-> w, kind |-> "revised"]
    THEN Value(s, w) + 1 ELSE Value(s, w)

(* response.total exceeds the rows returned. *)
Truncated(c, s) == c.anomaly.series = s /\ c.anomaly.kind = "truncated"

--------------------------------------------------------------------------------
(* verify_eia_registry: a probe without start and end, newest rows first.  *)

Row(c, s) == UNION {{<<w, i>> : i \in DOMAIN Rows(c, s, w)} : w \in Served(c, s)}

Newer(row, than) == row[1] > than[1] \/ (row[1] = than[1] /\ row[2] < than[2])

Sample(c, s) ==
    LET all == Row(c, s)
    IN  {row \in all : Cardinality({other \in all : Newer(other, row)}) < SampleLength}

SampleIsSound(c, s) ==
    LET sample == Sample(c, s)
    IN  /\ sample # {}
        /\ \A row \in sample :
            /\ Rows(c, s, row[1])[row[2]] = "number"
            /\ \A other \in sample : other[1] = row[1] => other = row

CoversOlder(c, s, t) == \E row \in Sample(c, s) : row[1] >= ExpectedWeek(t) - 1  \* mutant
Covers(c, s, t)      == \E row \in Sample(c, s) : row[1] >= ExpectedWeek(t)

Verifies(c, t) ==
    /\ \A s \in Series : SampleIsSound(c, s)
    /\ \A s \in Wpsr : Covers(c, s, t)

--------------------------------------------------------------------------------
(* ingest_registry: rows without a value are skipped before anything else  *)
(* is asked of them; a second row of a week, or one that is no number,     *)
(* fails the run, and so does a run without records.                       *)

Valued(c, s, w) == {i \in DOMAIN Rows(c, s, w) : Rows(c, s, w)[i] # "no value"}

Accepts(c) ==
    /\ \A s \in Series :
        /\ ~Truncated(c, s)
        /\ \A w \in Served(c, s) :
            /\ Cardinality(Valued(c, s, w)) <= 1
            /\ \A i \in Valued(c, s, w) : Rows(c, s, w)[i] = "number"
    /\ \E s \in Series : \E w \in Served(c, s) : Valued(c, s, w) # {}

Observations(c) ==
    [s \in Series |-> [w \in {w \in Served(c, s) : Valued(c, s, w) # {}}
                          |-> Number(c, s, w)]]

--------------------------------------------------------------------------------
Init ==
    /\ now \in Instants /\ \A t \in Instants : now <= t
    /\ content = [published |-> [s \in Series |-> PublishedWeek],
                  anomaly   |-> NoAnomaly]
    /\ verified = None
    /\ contents = {}
    /\ latest = None
    /\ rows = None
    /\ run = None

Tick ==
    /\ \E t \in Instants :
        /\ t > now
        /\ \A u \in Instants : u > now => t <= u
        /\ now' = t
    /\ UNCHANGED <<content, verified, contents, latest, rows, run>>

(* EIA: the week of a release appears series by series, after the release. *)
Publish(s) ==
    /\ content.published[s] < LastWeek
    /\ now >= ReleaseAt(content.published[s] + 1)
    /\ content' = [content EXCEPT !.published[s] = @ + 1]
    /\ UNCHANGED <<now, verified, contents, latest, rows, run>>

(* EIA: a value is withdrawn, revised, reported twice ...; one at a time. *)
GoWrong(a) ==
    /\ content.anomaly = NoAnomaly
    /\ a.week <= content.published[a.series]
    /\ content' = [content EXCEPT !.anomaly = a]
    /\ verified' = None
    /\ UNCHANGED <<now, contents, latest, rows, run>>

Repair ==
    /\ content.anomaly # NoAnomaly
    /\ content' = [content EXCEPT !.anomaly = NoAnomaly]
    /\ UNCHANGED <<now, verified, contents, latest, rows, run>>

(* Exit status 0; every other verification says what is wrong and is no    *)
(* step, like a run of ingest-eia that fails.                              *)
Verify ==
    /\ Verifies(content, now)
    /\ verified' = ExpectedWeek(now)
    /\ UNCHANGED <<now, content, contents, latest, rows, run>>

IngestRowsKept ==                                                         \* mutant
    /\ content \notin contents
    /\ Cardinality(contents) < MaxContents
    /\ Accepts(content)
    /\ contents' = contents \cup {content}
    /\ latest' = content
    /\ run' = [reused |-> FALSE, verified |-> verified]
    /\ UNCHANGED <<now, content, verified, rows>>
Ingest ==
    /\ content \notin contents
    /\ Cardinality(contents) < MaxContents
    /\ Accepts(content)
    /\ contents' = contents \cup {content}
    /\ latest' = content
    /\ rows' = Observations(content)
    /\ run' = [reused |-> FALSE, verified |-> verified]
    /\ UNCHANGED <<now, content, verified>>

(* The run of a content ingested before returns that run's file, which is  *)
(* not touched and need not be the newest.                                 *)
Reuse ==
    /\ content \in contents
    /\ run' = [reused |-> TRUE, verified |-> verified]
    /\ UNCHANGED <<now, content, verified, contents, latest, rows>>

Next ==
    \/ Tick
    \/ \E s \in Series : Publish(s)
    \/ \E a \in Anomalies : GoWrong(a)
    \/ Repair
    \/ Verify
    \/ Ingest
    \/ Reuse

Spec == Init /\ [][Next]_vars
--------------------------------------------------------------------------------
(* Properties. *)

TypeOK ==
    /\ now \in Instants
    /\ content \in Content
    /\ verified \in Int \cup {None}
    /\ contents \subseteq Content
    /\ latest \in contents \cup {None}
    /\ rows = IF latest = None THEN None ELSE Observations(latest)
    /\ run \in [reused : BOOLEAN, verified : Int \cup {None}] \cup {None}

Ingested(P(_)) == rows # None => P(rows)
Gated(P(_))    == Ingested(LAMBDA obs : ~Stale(obs, now) => P(obs))

(* docs/eia-setup.md has the operator verify the registry and then ingest  *)
(* it.  When the verification passes and nothing goes wrong at EIA before  *)
(* a run of ingest-eia succeeds, the run's dataset reaches the week the    *)
(* verification expected, although the two look at other rows by other     *)
(* rules: a sample there, everything that has a value here.                *)
Reaches(w) == \A s \in Wpsr : \E v \in Weeks(rows, s) : v >= w

VerifiedIsServed ==
    run # None /\ run.verified # None /\ ~run.reused => Reaches(run.verified)

(* The same of every run: docs/eia-setup.md says of a run that is reused   *)
(* "If the same registry and source payloads are seen again, the           *)
(* normalized dataset is reused", and of stale data "report/Q&A/alert      *)
(* paths fail closed until current data arrives".                          *)
VerifiedRunIsServed ==
    run # None /\ run.verified # None => Reaches(run.verified)

(* What passes the gate shows no reader an older week than EIA's schedule  *)
(* allows (docs/freshness.md: "the latest live series must cover that      *)
(* Friday or a later observation date ... This prevents stale evidence     *)
(* from creating a fresh-looking report, answer, or notification"): every  *)
(* claim of a brief, a delta, a fact, an answer and every alert evaluation *)
(* ends at the newest due week or later.  The crude balance does when its  *)
(* flows have no gaps; a flow without a row of that week but with one of   *)
(* the next passes the gate and moves the balance back.                    *)
DueWeeks == {w \in FirstWeek..LastFriday(now) : now >= ReleaseAt(w) + Grace}

HasGap(obs, s) == \E w \in Weeks(obs, s) : \E v \in FirstWeek..w : v \notin Weeks(obs, s)

GatedReportsAreCurrent == Gated(LAMBDA obs : \A w \in DueWeeks :
    /\ \A s \in Present(obs) : \A claim \in Fact(obs, s).claims \cup {Answer(obs, s)} :
            EndOf(claim) >= w
    /\ \A claim \in Brief(obs, Metrics).claims \cup Delta(obs, Metrics).claims :
            EndOf(claim) >= w
    /\ \A policy \in Policies : \A v \in Evaluation(obs, policy).as_of : v >= w
    /\ HasBalance(obs) /\ (\A s \in Flows : ~HasGap(obs, s)) =>
            \A claim \in BalanceWatch(obs).claims : EndOf(claim) >= w)

(* Until the grace after a release is over nobody is told that data is     *)
(* stale which holds all that was due before (docs/freshness.md: "it does  *)
(* not flag the source as stale while EIA is still inside its documented   *)
(* publication/API window").                                               *)
NotStaleWithinGrace ==
    latest # None /\ latest.anomaly = NoAnomaly
    /\ (\A s \in Series : \A w \in DueWeeks : latest.published[s] >= w)
        => ~Stale(rows, now)

(* A dataset that was found stale is found stale until another one takes   *)
(* its place: no delayed release, no end of a week and no grace period     *)
(* makes old observations acceptable again.                                *)
StaleUntilIngested ==
    [][rows # None /\ rows' = rows /\ Stale(rows, now) => Stale(rows, now')]_vars

(* docs/crude-balance.md: "OilSignal fails closed if it cannot find an     *)
(* aligned week rather than mixing publication periods".  All a crude      *)
(* balance watch says is of the week it carries: its levels, the newest    *)
(* row of each of its calculations and its date, while the brief of the    *)
(* same dataset has moved on for some series.                              *)
BalanceIsOfOneWeek == Ingested(LAMBDA obs : HasBalance(obs) =>
    LET watch == BalanceWatch(obs)
    IN  /\ watch.as_of = CrudeBalance(obs).as_of
        /\ \A claim \in watch.claims : EndOf(claim) = watch.as_of
        /\ \A s \in Flows : \E claim \in watch.claims :
                claim.says = {obs[s][watch.as_of]})

(* The products bought or read separately do not contradict each other:    *)
(* one dataset gives a series one level and one change, in the brief, the  *)
(* delta, the fact, the answer and the alerts, and the stock change of the *)
(* balance is the change of the stock series when they are of one week.    *)
SaysTheSame(claim, fact) ==
    /\ claim.says # {} => \E other \in fact.claims : other.says = claim.says
    /\ claim.calculation # {} =>
            \E other \in fact.claims : other.calculation = claim.calculation

AlertSaysTheSame(obs, c) == Matches(obs, c) =>
    \E claim \in Fact(obs, c.series).claims :
        \/ c.field = "current"
           /\ \E value \in claim.says : Compare(value, c.operator, c.threshold)
        \/ c.field = "week_over_week"
           /\ \E t \in claim.calculation : Compare(t.result, c.operator, c.threshold)
        \/ c.field = "year_over_year"

ProductsAgree == Ingested(LAMBDA obs :
    /\ \A policy \in Policies : Evaluation(obs, policy).matched =>
            \E c \in policy.conditions : Matches(obs, c) /\ AlertSaysTheSame(obs, c)
    /\ \A s \in Present(obs) : SaysTheSame(Answer(obs, s), Fact(obs, s))
    /\ \A claim \in Brief(obs, Metrics).claims \cup Delta(obs, Metrics).claims :
            \E s \in Present(obs) : /\ \A row \in claim.cites : row[1] = s
                                    /\ SaysTheSame(claim, Fact(obs, s))
    /\ \A claim \in Delta(obs, Metrics).claims :
            EndOf(claim) = Delta(obs, Metrics).as_of
    /\ HasBalance(obs) /\ Max(Weeks(obs, Stock)) = CrudeBalance(obs).as_of =>
            \A t \in LatestSnapshot(obs, Stock).change :
                /\ CrudeBalance(obs).rate.result = t.result
                /\ CrudeBalance(obs).rate.inputs = t.inputs)
================================================================================
