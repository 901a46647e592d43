------------------------------- MODULE ReleaseGate -----------------------------
(***************************************************************************)
(* check_wpsr_freshness and require_fresh_wpsr (freshness.py): the release *)
(* calendar applied to the observations of a dataset.  All series here are *)
(* weekly and cite api.eia.gov.                                            *)
(*                                                                         *)
(* A definition marked "mutant" is a wrong version of the one that follows *)
(* it and is used by nothing: replacing that one by it breaks a property.  *)
(***************************************************************************)
EXTENDS ReleaseCalendar, PetroleumReports

(* A series with rows is stale when all of them are older than expected. *)
StaleSeries(obs, t) ==
    {s \in Present(obs) : \A w \in Weeks(obs, s) : w < ExpectedWeek(t)}

StaleWhenAllTrail(obs, t) == StaleSeries(obs, t) = Present(obs)           \* mutant
Stale(obs, t) == StaleSeries(obs, t) # {}

(* DatasetFreshness, without checked_at: only a live dataset is judged. *)
NotApplicable == [status |-> "not applicable"]

Freshness(live, obs, t) ==
    IF ~live THEN NotApplicable
    ELSE [status   |-> IF Stale(obs, t) THEN "stale" ELSE "fresh",
          latest   |-> LatestOf(obs, Present(obs)),
          expected |-> ExpectedWeek(t),
          stale    |-> StaleSeries(obs, t),
          live     |-> Cardinality(Present(obs))]
================================================================================
