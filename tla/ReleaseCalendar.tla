---------------------------- MODULE ReleaseCalendar ----------------------------
(***************************************************************************)
(* WPSRReleaseCalendar (freshness.py): when EIA releases the data of a     *)
(* week and which week the data must cover at an instant.                  *)
(*                                                                         *)
(* An instant is a number of minutes on the Eastern clock; minute 0 is the *)
(* midnight a Friday starts.  A week is the number of the Friday that ends *)
(* it.  The two hours a year that the Eastern clock repeats or skips fall  *)
(* on Sundays, days away from every release, and are left out.             *)
(*                                                                         *)
(* A definition marked "mutant" is a wrong version of the one that follows *)
(* it and is used by nothing: replacing that one by it breaks a property.  *)
(***************************************************************************)
EXTENDS Integers

CONSTANTS
    Overrides,      \* the instant of release of each week it is delayed for
    Grace           \* api_grace, in minutes

CalendarAssumption ==
    /\ \A w \in DOMAIN Overrides : w \in Int /\ Overrides[w] \in Int
    /\ Grace \in Nat
ASSUME CalendarAssumption

Day        == 24 * 60
Friday(w)  == w * 7 * Day
LastFriday(t) == t \div (7 * Day)

(* Wednesday at 10:30, unless the week has an override. *)
ReleaseAt(w) ==
    IF w \in DOMAIN Overrides THEN Overrides[w]
                              ELSE Friday(w) + 5 * Day + 10 * 60 + 30

DueAtRelease(w, t) == t >= ReleaseAt(w)                                   \* mutant
(* The API may trail the publication by the grace. *)
Due(w, t) == t >= ReleaseAt(w) + Grace

(* expected_week_ending goes back from the last Friday to the first week *)
(* that is due, for two years of weeks at most.                          *)
Lookback == 104

Resolves(k, t) == /\ Due(LastFriday(t) - k, t)
                  /\ \A j \in 0..(k - 1) : ~Due(LastFriday(t) - j, t)

Resolvable(t) == \E k \in 0..(Lookback - 1) : Resolves(k, t)

ExpectedWeekByFortnights(t) ==                                            \* mutant
    LastFriday(t) - 2 * (CHOOSE k \in 0..(Lookback - 1) : Resolves(k, t))
ExpectedWeek(t) ==
    LastFriday(t) - (CHOOSE k \in 0..(Lookback - 1) : Resolves(k, t))
================================================================================
