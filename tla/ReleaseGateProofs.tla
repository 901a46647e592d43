--------------------------- MODULE ReleaseGateProofs ---------------------------
(***************************************************************************)
(* Facts about the release calendar, the freshness gate and the snapshots  *)
(* and balances all reports are made of, for any overrides, grace, series  *)
(* and observations.  The expected week never goes back; an override that  *)
(* is not a week late leaves the calendar resolvable; and in a dataset     *)
(* that passes the gate every series reaches the weeks that are due.       *)
(***************************************************************************)
EXTENDS ReleaseGate, WellFoundedInduction, TLAPS

--------------------------------------------------------------------------------
(* The calendar. *)

LEMMA ReleaseIsInt == ASSUME NEW w \in Int PROVE ReleaseAt(w) \in Int
BY CalendarAssumption DEF CalendarAssumption, ReleaseAt, Friday, Day

LEMMA LastFridayMonotone ==
    ASSUME NEW t \in Int, NEW u \in Int, t <= u
    PROVE  /\ LastFriday(t) \in Int /\ LastFriday(u) \in Int
           /\ LastFriday(t) <= LastFriday(u)
BY DEF LastFriday, Day

(* The week the loop of expected_week_ending returns. *)
LEMMA ExpectedIsLastDue ==
    ASSUME NEW t \in Int, Resolvable(t)
    PROVE  /\ ExpectedWeek(t) \in Int
           /\ LastFriday(t) - ExpectedWeek(t) \in 0..(Lookback - 1)
           /\ Due(ExpectedWeek(t), t)
           /\ \A w \in Int : /\ LastFriday(t) - w \in 0..(Lookback - 1)
                             /\ w > ExpectedWeek(t)
                             => ~Due(w, t)
<1> DEFINE k == CHOOSE k \in 0..(Lookback - 1) : Resolves(k, t)
<1>1. k \in 0..(Lookback - 1) /\ Resolves(k, t)
  BY DEF Resolvable
<1>2. LastFriday(t) \in Int /\ ExpectedWeek(t) = LastFriday(t) - k
  BY LastFridayMonotone DEF ExpectedWeek
<1> HIDE DEF k
<1>3. ExpectedWeek(t) \in Int /\ LastFriday(t) - ExpectedWeek(t) = k
  BY <1>1, <1>2 DEF Lookback
<1>4. Due(ExpectedWeek(t), t)
  BY <1>1, <1>2 DEF Resolves
<1>5. ASSUME NEW w \in Int, LastFriday(t) - w \in 0..(Lookback - 1),
             w > ExpectedWeek(t)
      PROVE  ~Due(w, t)
  <2>1. /\ LastFriday(t) - w \in 0..(k - 1)
        /\ LastFriday(t) - (LastFriday(t) - w) = w
    BY <1>1, <1>2, <1>3, <1>5 DEF Lookback
  <2>2. QED
    BY <1>1, <2>1 DEF Resolves
<1>6. QED
  BY <1>1, <1>3, <1>4, <1>5

LEMMA DueStaysDue ==
    ASSUME NEW w \in Int, NEW t \in Int, NEW u \in Int, t <= u, Due(w, t)
    PROVE  Due(w, u)
BY ReleaseIsInt, CalendarAssumption DEF Due, CalendarAssumption

(* However the calendar delays releases, later instants expect no older    *)
(* week (WPSRReleaseCalendar.expected_week_ending).                        *)
THEOREM ExpectedNeverGoesBack ==
    ASSUME NEW t \in Int, NEW u \in Int, t <= u, Resolvable(t), Resolvable(u)
    PROVE  ExpectedWeek(t) <= ExpectedWeek(u)
<1> DEFINE v == ExpectedWeek(t)
           w == ExpectedWeek(u)
<1>1. /\ v \in Int /\ LastFriday(t) - v \in 0..(Lookback - 1) /\ Due(v, t)
  BY ExpectedIsLastDue
<1>2. /\ w \in Int /\ LastFriday(u) - w \in 0..(Lookback - 1)
  BY ExpectedIsLastDue
<1>3. SUFFICES ASSUME w < v PROVE FALSE
  BY <1>1, <1>2
<1>4. Due(v, u)
  BY <1>1, DueStaysDue
<1>5. LastFriday(u) - v \in 0..(Lookback - 1)
  <2>1. /\ LastFriday(t) \in Int /\ LastFriday(u) \in Int
        /\ LastFriday(t) <= LastFriday(u)
    BY LastFridayMonotone
  <2> HIDE DEF v, w
  <2>2. QED
    BY <1>1, <1>2, <1>3, <2>1 DEF Lookback
<1>6. ~Due(v, u)
  BY <1>1, <1>3, <1>5, ExpectedIsLastDue
<1>7. QED
  BY <1>4, <1>6

(* When every delayed release, with its grace, comes before the next       *)
(* Friday is over, as those of 2026 do, the calendar always resolves, to   *)
(* the week of the last Friday or the one before.                          *)
THEOREM PromptReleasesResolve ==
    ASSUME \A w \in Int : ReleaseAt(w) + Grace <= Friday(w + 1), NEW t \in Int
    PROVE  Resolvable(t) /\ ExpectedWeek(t) \in {LastFriday(t) - 1, LastFriday(t)}
<1> DEFINE v == LastFriday(t)
<1>1. v \in Int /\ v - 1 \in Int /\ Friday((v - 1) + 1) <= t
  BY DEF LastFriday, Friday, Day
<1>2. ReleaseAt(v - 1) \in Int /\ Grace \in Int
  BY <1>1, ReleaseIsInt, CalendarAssumption DEF CalendarAssumption
<1>3. Due(v - 1, t)
  <2>1. ReleaseAt(v - 1) + Grace <= Friday((v - 1) + 1)
    BY <1>1
  <2>2. Friday((v - 1) + 1) \in Int
    BY <1>1 DEF Friday, Day
  <2>3. QED
    BY <1>1, <1>2, <2>1, <2>2 DEF Due
<1>4. Resolves(0, t) \/ Resolves(1, t)
  BY <1>1, <1>3 DEF Resolves
<1>5. Resolvable(t)
  BY <1>4 DEF Resolvable, Lookback
<1>6. QED
  <2>1. /\ ExpectedWeek(t) \in Int
        /\ v - ExpectedWeek(t) \in 0..(Lookback - 1)
        /\ \A w \in Int : /\ v - w \in 0..(Lookback - 1)
                          /\ w > ExpectedWeek(t)
                          => ~Due(w, t)
    BY <1>5, ExpectedIsLastDue
  <2>2. v - (v - 1) \in 0..(Lookback - 1)
    BY <1>1 DEF Lookback
  <2>3. ~(v - 1 > ExpectedWeek(t))
    BY <1>1, <1>3, <2>1, <2>2
  <2>4. QED
    BY <1>1, <1>5, <2>1, <2>3 DEF Lookback

--------------------------------------------------------------------------------
(* Weeks are integers of some interval: a set of them has a largest one.   *)

LEMMA IntervalHasMax ==
    ASSUME NEW a \in Int, NEW b \in Int, NEW S \in SUBSET (a..b), S # {}
    PROVE  \E x \in S : \A y \in S : x >= y
<1> DEFINE below == {b - x : x \in S}
<1>1. below \subseteq Nat /\ below # {}
  OBVIOUS
<1>2. PICK n \in below : \A k \in below : <<k, n>> \notin OpToRel(<, Nat)
  <2> HIDE DEF below
  <2>1. QED
    BY <1>1, WFMin, NatLessThanWellFounded
<1>3. PICK x \in S : n = b - x
  BY <1>2
<1>4. ASSUME NEW y \in S PROVE x >= y
  <2>1. b - y \in below /\ n \in Nat /\ b - y \in Nat
    BY <1>1, <1>2
  <2>2. ~(b - y < n)
    BY <1>2, <2>1 DEF OpToRel
  <2>3. QED
    BY <1>3, <2>2
<1>5. QED
  BY <1>4

LEMMA MaxIsIn ==
    ASSUME NEW a \in Int, NEW b \in Int, NEW S \in SUBSET (a..b), S # {}
    PROVE  /\ Max(S) \in S /\ Max(S) \in Int
           /\ \A y \in S : y <= Max(S)
<1>1. Max(S) \in S /\ \A y \in S : Max(S) >= y
  BY IntervalHasMax DEF Max
<1>2. Max(S) \in Int
  <2>1. S \subseteq Int
    OBVIOUS
  <2>2. QED
    BY <1>1, <2>1
<1>3. ASSUME NEW y \in S PROVE y <= Max(S)
  <2>1. y \in Int /\ Max(S) >= y
    BY <1>1
  <2>2. QED
    BY <1>2, <2>1
<1>4. QED
  BY <1>1, <1>2, <1>3

LEMMA MaxIs ==
    ASSUME NEW S \in SUBSET Int, NEW m \in S, \A y \in S : y <= m
    PROVE  Max(S) = m
<1>1. \A y \in S : m >= y
  OBVIOUS
<1>2. Max(S) \in S /\ Max(S) >= m
  BY <1>1 DEF Max
<1>3. Max(S) \in Int /\ m \in Int /\ Max(S) <= m
  BY <1>2
<1>4. QED
  BY <1>2, <1>3

--------------------------------------------------------------------------------
(* Snapshots. *)

(* The weeks of a dataset lie in some interval. *)
Within(obs, a, b) == \A s \in Series : Weeks(obs, s) \subseteq a..b

Last(obs, s) == Max(Weeks(obs, s))

LEMMA LastRow ==
    ASSUME NEW a \in Int, NEW b \in Int, NEW obs, Within(obs, a, b),
           NEW s \in Present(obs)
    PROVE  /\ s \in Series /\ Weeks(obs, s) \subseteq Int
           /\ Last(obs, s) \in Weeks(obs, s) /\ Last(obs, s) \in Int
           /\ \A w \in Weeks(obs, s) : w <= Last(obs, s)
<1>1. s \in Series /\ Weeks(obs, s) # {} /\ Weeks(obs, s) \in SUBSET (a..b)
  BY DEF Present, Within
<1> DEFINE weeks == Weeks(obs, s)
<1> HIDE DEF weeks
<1>2. weeks \in SUBSET (a..b) /\ weeks # {}
  BY <1>1 DEF weeks
<1>3. /\ Max(weeks) \in weeks /\ Max(weeks) \in Int
      /\ \A w \in weeks : w <= Max(weeks)
  BY <1>2, MaxIsIn
<1>4. weeks \subseteq Int
  BY <1>2
<1>5. QED
  BY <1>1, <1>3, <1>4 DEF weeks, Last

(* A report of a later week takes the same row. *)
LEMMA SnapshotIsLatest ==
    ASSUME NEW a \in Int, NEW b \in Int, NEW obs, Within(obs, a, b),
           NEW s \in Present(obs), NEW w \in Int, w >= Last(obs, s)
    PROVE  Snapshot(obs, s, w) = LatestSnapshot(obs, s)
<1>1. UpTo(obs, s, w) = UpTo(obs, s, Last(obs, s))
  <2>1. \A v \in Weeks(obs, s) : v \in Int /\ v <= Last(obs, s) /\ v <= w
    BY LastRow
  <2>2. QED
    BY <2>1 DEF UpTo
<1>2. QED
  BY <1>1 DEF Snapshot, LatestSnapshot, Last

LEMMA LatestFields ==
    ASSUME NEW a \in Int, NEW b \in Int, NEW obs, Within(obs, a, b),
           NEW s \in Present(obs)
    PROVE  LET m == Last(obs, s)
               snapshot == LatestSnapshot(obs, s)
           IN  /\ snapshot.series = s /\ snapshot.as_of = m
               /\ snapshot.current = obs[s][m]
               /\ snapshot.change = {Change(obs, s, w, m) : w \in Newest(UpTo(obs, s, m - 1))}
<1> DEFINE m == Last(obs, s)
<1>1. UpTo(obs, s, m) = Weeks(obs, s)
  BY LastRow DEF UpTo
<1>2. Max(UpTo(obs, s, m)) = m
  BY <1>1 DEF Last
<1>3. LatestSnapshot(obs, s) = Snapshot(obs, s, m)
  BY DEF LatestSnapshot, Last
<1> HIDE DEF m
<1>4. QED
  BY <1>2, <1>3 DEF Snapshot, m

(* A change is from the row before the last one, and there is at most one. *)
LEMMA ChangeOfLatest ==
    ASSUME NEW a \in Int, NEW b \in Int, NEW obs, Within(obs, a, b),
           NEW s \in Present(obs), NEW t \in LatestSnapshot(obs, s).change
    PROVE  LET m == Last(obs, s)
               from == Max(UpTo(obs, s, m - 1))
           IN  /\ UpTo(obs, s, m - 1) # {}
               /\ from \in Weeks(obs, s) /\ from \in Int /\ from < m
               /\ t = Change(obs, s, from, m)
               /\ LatestSnapshot(obs, s).change = {t}
<1> DEFINE m == Last(obs, s)
           before == UpTo(obs, s, m - 1)
<1>1. LatestSnapshot(obs, s).change = {Change(obs, s, w, m) : w \in Newest(before)}
  BY LatestFields
<1>2. before # {} /\ Newest(before) = {Max(before)}
  BY <1>1 DEF Newest
<1>3. m \in Int /\ Weeks(obs, s) \subseteq a..b
  BY LastRow DEF Within
<1>4. before \in SUBSET (a..b) /\ \A w \in before : w \in Weeks(obs, s) /\ w <= m - 1
  BY <1>3 DEF UpTo
<1>5. Max(before) \in before /\ Max(before) \in Int
  <2> HIDE DEF before, m
  <2>1. QED
    BY <1>2, <1>4, MaxIsIn
<1>6. Max(before) \in Weeks(obs, s) /\ Max(before) < m
  <2> HIDE DEF before, m
  <2>1. QED
    BY <1>3, <1>4, <1>5
<1>7. t = Change(obs, s, Max(before), m) /\ LatestSnapshot(obs, s).change = {t}
  <2> HIDE DEF before, m
  <2>1. QED
    BY <1>1, <1>2
<1>8. QED
  BY <1>2, <1>5, <1>6, <1>7

LEMMA LatestOfSome ==
    ASSUME NEW a \in Int, NEW b \in Int, NEW obs, Within(obs, a, b),
           NEW some \in SUBSET Present(obs), some # {}
    PROVE  /\ LatestOf(obs, some) \in Int
           /\ \E s \in some : LatestOf(obs, some) = Last(obs, s)
           /\ \A s \in some : Last(obs, s) <= LatestOf(obs, some)
<1> DEFINE all == UNION {Weeks(obs, s) : s \in some}
<1>1. all \in SUBSET (a..b)
  BY DEF Present, Within
<1>2. \A s \in some : Last(obs, s) \in Weeks(obs, s) /\ Last(obs, s) \in all
  BY LastRow
<1>3. all # {}
  BY <1>2
<1> HIDE DEF all
<1>4. Max(all) \in all /\ Max(all) \in Int /\ \A w \in all : w <= Max(all)
  BY <1>1, <1>3, MaxIsIn
<1>5. LatestOf(obs, some) = Max(all)
  BY DEF LatestOf, all
<1>6. PICK s \in some : Max(all) \in Weeks(obs, s)
  BY <1>4 DEF all
<1>7. Max(all) = Last(obs, s)
  <2>1. Max(all) <= Last(obs, s) /\ Last(obs, s) <= Max(all) /\ Last(obs, s) \in Int
    BY <1>2, <1>4, <1>6, LastRow
  <2>2. QED
    BY <1>4, <2>1
<1>8. QED
  BY <1>2, <1>4, <1>5, <1>6, <1>7

--------------------------------------------------------------------------------
(* The crude balance. *)

Prior(obs) == Max(UpTo(obs, Stock, BalanceWeek(obs) - 1))

LEMMA BalanceWeeks ==
    ASSUME NEW a \in Int, NEW b \in Int, NEW obs, Within(obs, a, b), HasBalance(obs)
    PROVE  /\ BalanceWeek(obs) \in CommonWeeks(obs) /\ BalanceWeek(obs) \in Int
           /\ \A w \in CommonWeeks(obs) : w <= BalanceWeek(obs)
           /\ Flows # {}
           /\ \A s \in Flows \cup {Stock} : BalanceWeek(obs) \in Weeks(obs, s)
           /\ Prior(obs) \in Weeks(obs, Stock) /\ Prior(obs) \in Int
           /\ Prior(obs) < BalanceWeek(obs)
<1> DEFINE common == CommonWeeks(obs)
           before == UpTo(obs, Stock, BalanceWeek(obs) - 1)
<1>1. common \in SUBSET (a..b) /\ common # {} /\ Flows # {}
  BY DEF HasBalance, CommonWeeks, Within, Series
<1>2. /\ Max(common) \in common /\ Max(common) \in Int
      /\ \A w \in common : w <= Max(common)
  <2> HIDE DEF common
  <2>1. QED
    BY <1>1, MaxIsIn
<1>3. BalanceWeek(obs) = Max(common)
  BY DEF BalanceWeek
<1>4. \A s \in Flows \cup {Stock} : BalanceWeek(obs) \in Weeks(obs, s)
  BY <1>2, <1>3 DEF CommonWeeks, HasBalance
<1>5. /\ before # {} /\ before \in SUBSET (a..b)
      /\ \A w \in before : w \in Weeks(obs, Stock) /\ w <= BalanceWeek(obs) - 1
  BY DEF HasBalance, UpTo, Within, Series
<1>6. Max(before) \in before /\ Max(before) \in Int
  <2> HIDE DEF before
  <2>1. QED
    BY <1>5, MaxIsIn
<1>7. /\ Max(before) \in Weeks(obs, Stock)
      /\ BalanceWeek(obs) \in Int /\ Max(before) < BalanceWeek(obs)
  <2> HIDE DEF before, common
  <2>1. QED
    BY <1>2, <1>3, <1>5, <1>6
<1>8. QED
  BY <1>1, <1>2, <1>3, <1>4, <1>6, <1>7 DEF Prior

(* The dataset cut at the week of the balance ends there. *)
LEMMA ScopedToBalance ==
    ASSUME NEW a \in Int, NEW b \in Int, NEW obs, Within(obs, a, b), HasBalance(obs)
    PROVE  LET w  == BalanceWeek(obs)
               sc == ScopedTo(obs, w)
           IN  /\ Within(sc, a, b)
               /\ Flows \subseteq Present(sc) /\ Flows # {}
               /\ \A s \in Flows : Last(sc, s) = w /\ sc[s][w] = obs[s][w]
               /\ LatestOf(sc, Present(sc)) = w
<1> DEFINE w  == BalanceWeek(obs)
           sc == ScopedTo(obs, w)
<1>1. w \in Int /\ Flows # {} /\ \A s \in Flows : w \in Weeks(obs, s)
  BY BalanceWeeks
<1>2. \A s \in Series : Weeks(sc, s) = UpTo(obs, s, w)
  BY DEF ScopedTo, Weeks, Restrict
<1> HIDE DEF w
<1>3. \A s \in Series : \A v \in Weeks(sc, s) : v \in Weeks(obs, s) /\ v \in Int /\ v <= w
  BY <1>2 DEF UpTo, Within
<1>4. Within(sc, a, b)
  BY <1>3 DEF Within
<1>5. ASSUME NEW s \in Flows
      PROVE  /\ s \in Present(sc) /\ Last(sc, s) = w /\ sc[s][w] = obs[s][w]
  <2>1. s \in Series /\ w \in Weeks(sc, s)
    BY <1>1, <1>2 DEF UpTo, Series
  <2>2. Weeks(sc, s) \in SUBSET Int /\ \A v \in Weeks(sc, s) : v <= w
    BY <1>3, <2>1
  <2>3. Last(sc, s) = w
    BY <2>1, <2>2, MaxIs DEF Last
  <2>4. sc[s][w] = obs[s][w]
    BY <1>1, <2>1 DEF ScopedTo, Weeks, Restrict, UpTo
  <2>5. QED
    BY <2>1, <2>3, <2>4 DEF Present
<1>6. Present(sc) # {} /\ Present(sc) \in SUBSET Present(sc)
  BY <1>1, <1>5
<1>7. PICK s \in Present(sc) : LatestOf(sc, Present(sc)) = Last(sc, s)
  BY <1>4, <1>6, LatestOfSome
<1>8. Last(sc, s) <= w
  <2>1. s \in Series /\ Last(sc, s) \in Weeks(sc, s)
    BY <1>4, LastRow
  <2>2. QED
    BY <1>3, <2>1
<1>9. w <= LatestOf(sc, Present(sc)) /\ LatestOf(sc, Present(sc)) \in Int
  BY <1>1, <1>4, <1>5, <1>6, LatestOfSome
<1>10. LatestOf(sc, Present(sc)) = w
  BY <1>1, <1>7, <1>8, <1>9
<1>11. QED
  BY <1>1, <1>4, <1>5, <1>10 DEF w

--------------------------------------------------------------------------------
(* The gate. *)

(* No week that is due is later than the expected one. *)
LEMMA DueIsExpected ==
    ASSUME NEW t \in Int, Resolvable(t), NEW w \in Int, w <= LastFriday(t), Due(w, t)
    PROVE  w <= ExpectedWeek(t)
<1> DEFINE e == ExpectedWeek(t)
           f == LastFriday(t)
<1>1. /\ e \in Int /\ f - e \in 0..(Lookback - 1)
      /\ \A v \in Int : f - v \in 0..(Lookback - 1) /\ v > e => ~Due(v, t)
  BY ExpectedIsLastDue
<1>2. f \in Int
  BY LastFridayMonotone
<1> HIDE DEF e, f
<1>3. SUFFICES ASSUME w > e PROVE FALSE
  BY <1>1 DEF e
<1>4. w <= f
  BY DEF f
<1>5. f - w \in 0..(Lookback - 1)
  BY <1>1, <1>2, <1>3, <1>4 DEF Lookback
<1>6. QED
  BY <1>1, <1>3, <1>5

(* What passes the gate reaches the expected week in every series. *)
LEMMA FreshReaches ==
    ASSUME NEW a \in Int, NEW b \in Int, NEW obs, Within(obs, a, b),
           NEW t \in Int, Resolvable(t), ~Stale(obs, t), NEW s \in Present(obs)
    PROVE  Last(obs, s) >= ExpectedWeek(t)
<1>1. ExpectedWeek(t) \in Int
  BY ExpectedIsLastDue
<1>2. PICK w \in Weeks(obs, s) : ~(w < ExpectedWeek(t))
  BY DEF Stale, StaleSeries
<1>3. w \in Int /\ w <= Last(obs, s) /\ Last(obs, s) \in Int
  BY LastRow
<1>4. QED
  BY <1>1, <1>2, <1>3
--------------------------------------------------------------------------------
(* Claims. *)

LEMMA EndsAt ==
    ASSUME NEW claim, NEW m \in Int, \E row \in claim.cites : row[2] = m,
           \A row \in claim.cites : row[2] \in Int /\ row[2] <= m
    PROVE  EndOf(claim) = m
<1> DEFINE weeks == {row[2] : row \in claim.cites}
<1>1. weeks \in SUBSET Int /\ m \in weeks /\ \A w \in weeks : w <= m
  OBVIOUS
<1> HIDE DEF weeks
<1>2. Max(weeks) = m
  BY <1>1, MaxIs
<1>3. QED
  BY <1>2 DEF EndOf, weeks

LEMMA ChangeCites ==
    ASSUME NEW a \in Int, NEW b \in Int, NEW obs, Within(obs, a, b),
           NEW s \in Present(obs), NEW t \in LatestSnapshot(obs, s).change
    PROVE  /\ \E row \in t.inputs : row[2] = Last(obs, s)
           /\ \A row \in t.inputs :
                  row[1] = s /\ row[2] \in Int /\ row[2] <= Last(obs, s)
<1> DEFINE m == Last(obs, s)
           from == Max(UpTo(obs, s, m - 1))
<1>1. m \in Int
  BY LastRow
<1>2. from \in Int /\ from < m /\ t = Change(obs, s, from, m)
  BY ChangeOfLatest
<1> HIDE DEF m, from
<1>3. t.inputs = {<<s, from>>, <<s, m>>}
  BY <1>2 DEF Change
<1>4. \A row \in t.inputs : row = <<s, from>> \/ row = <<s, m>>
  BY <1>3
<1>5. /\ <<s, from>>[1] = s /\ <<s, from>>[2] = from
      /\ <<s, m>>[1] = s /\ <<s, m>>[2] = m
  OBVIOUS
<1>6. from <= m /\ m <= m
  BY <1>1, <1>2
<1>7. <<s, m>> \in t.inputs
  BY <1>3
<1>8. QED
  BY <1>1, <1>2, <1>4, <1>5, <1>6, <1>7 DEF m

(* A claim about a change, and one about a level that quotes changes, is   *)
(* about the series and ends at its last row.                              *)
LEMMA DerivedEnds ==
    ASSUME NEW a \in Int, NEW b \in Int, NEW obs, Within(obs, a, b),
           NEW s \in Present(obs), NEW t \in LatestSnapshot(obs, s).change
    PROVE  /\ EndOf(Derived(t)) = Last(obs, s)
           /\ \A row \in Derived(t).cites : row[1] = s
<1>1. Derived(t).cites = t.inputs /\ Last(obs, s) \in Int
  BY LastRow DEF Derived
<1>2. QED
  BY <1>1, ChangeCites, EndsAt

LEMMA LevelEnds ==
    ASSUME NEW a \in Int, NEW b \in Int, NEW obs, Within(obs, a, b),
           NEW s \in Present(obs), NEW traces \in SUBSET LatestSnapshot(obs, s).change
    PROVE  /\ EndOf(Level(LatestSnapshot(obs, s), traces)) = Last(obs, s)
           /\ \A row \in Level(LatestSnapshot(obs, s), traces).cites : row[1] = s
<1> DEFINE m == Last(obs, s)
           claim == Level(LatestSnapshot(obs, s), traces)
<1>1. claim.cites = {<<s, m>>} \cup UNION {t.inputs : t \in traces} /\ m \in Int
  BY LatestFields, LastRow DEF Level
<1>2. \A t \in traces : \A row \in t.inputs : row[1] = s /\ row[2] \in Int /\ row[2] <= m
  BY ChangeCites
<1> HIDE DEF m, claim
<1>3. <<s, m>> \in claim.cites /\ <<s, m>>[2] = m
  BY <1>1
<1>4. ASSUME NEW row \in claim.cites PROVE row[1] = s /\ row[2] \in Int /\ row[2] <= m
  <2>1. CASE row = <<s, m>>
    BY <1>1, <2>1
  <2>2. CASE \E t \in traces : row \in t.inputs
    BY <1>2, <2>2
  <2>3. QED
    BY <1>1, <2>1, <2>2
<1>5. EndOf(claim) = m
  BY <1>1, <1>3, <1>4, EndsAt
<1>6. QED
  BY <1>4, <1>5 DEF m, claim

LEMMA FactEnds ==
    ASSUME NEW a \in Int, NEW b \in Int, NEW obs, Within(obs, a, b),
           NEW s \in Present(obs), NEW claim \in Fact(obs, s).claims \cup {Answer(obs, s)}
    PROVE  EndOf(claim) = Last(obs, s) /\ \A row \in claim.cites : row[1] = s
<1> DEFINE snapshot == LatestSnapshot(obs, s)
<1>1. \/ claim = Level(snapshot, {}) \/ claim = Level(snapshot, snapshot.change)
      \/ \E t \in snapshot.change : claim = Derived(t)
  BY DEF Fact, Answer
<1>2. QED
  BY <1>1, LevelEnds, DerivedEnds

(* A brief says of a series what an answer about it says. *)
LEMMA BriefAnswers ==
    ASSUME NEW a \in Int, NEW b \in Int, NEW obs, Within(obs, a, b),
           NEW metrics \in SUBSET Series, NEW claim \in Brief(obs, metrics).claims
    PROVE  \E s \in metrics \cap Present(obs) : claim = Answer(obs, s)
<1> DEFINE as_of == LatestOf(obs, Present(obs))
<1>1. PICK s \in metrics \cap Present(obs) :
         claim = Level(Snapshot(obs, s, as_of), Snapshot(obs, s, as_of).change)
  BY DEF Brief
<1>2. as_of \in Int /\ Last(obs, s) <= as_of /\ Last(obs, s) \in Int
  BY LatestOfSome, LastRow
<1> HIDE DEF as_of
<1>3. Snapshot(obs, s, as_of) = LatestSnapshot(obs, s)
  BY <1>2, SnapshotIsLatest
<1>4. QED
  BY <1>1, <1>3 DEF Answer

LEMMA DeltaMoves ==
    ASSUME NEW a \in Int, NEW b \in Int, NEW obs, Within(obs, a, b),
           NEW metrics \in SUBSET Series, NEW claim \in Delta(obs, metrics).claims
    PROVE  \E s \in metrics \cap Present(obs) :
               /\ \E t \in LatestSnapshot(obs, s).change : claim = Derived(t)
               /\ Last(obs, s) = Delta(obs, metrics).as_of
BY DEF Delta, Moved, Last

(* All a crude balance watch says ends in the week of the balance. *)
LEMMA BalanceEnds ==
    ASSUME NEW a \in Int, NEW b \in Int, NEW obs, Within(obs, a, b), HasBalance(obs),
           NEW claim \in BalanceWatch(obs).claims
    PROVE  EndOf(claim) = BalanceWeek(obs)
<1> DEFINE w == BalanceWeek(obs)
           p == Prior(obs)
           sc == ScopedTo(obs, w)
           balance == CrudeBalance(obs)
<1>1. /\ w \in Int /\ p \in Int /\ p < w /\ Flows # {}
  BY BalanceWeeks
<1>2. \/ claim \in Brief(sc, Flows).claims
      \/ \E part \in {"core", "rate", "residual"} : claim = Derived(balance[part])
  BY DEF BalanceWatch, Brief
<1>3. CASE claim \in Brief(sc, Flows).claims
  <2>1. Within(sc, a, b) /\ \A s \in Flows : Last(sc, s) = w
    BY ScopedToBalance
  <2>2. PICK s \in Flows \cap Present(sc) : claim = Answer(sc, s)
    <3> HIDE DEF sc
    <3>1. Flows \in SUBSET Series
      BY DEF Series
    <3>2. QED
      BY <1>3, <2>1, <3>1, BriefAnswers
  <2>3. EndOf(claim) = Last(sc, s)
    <3> HIDE DEF sc
    <3>1. QED
      BY <2>1, <2>2, FactEnds
  <2>4. QED
    BY <2>1, <2>2, <2>3
<1>4. ASSUME NEW part \in {"core", "rate", "residual"}, claim = Derived(balance[part])
      PROVE  EndOf(claim) = w
  <2> DEFINE flows == {<<s, w>> : s \in Flows}
             stock == {<<Stock, p>>, <<Stock, w>>}
  <2>1. balance[part].inputs \in {flows, stock, flows \cup stock}
    <3>1. balance = BalanceBetween(obs, p, w)
      BY DEF CrudeBalance, Prior
    <3> HIDE DEF balance, p, w
    <3>2. /\ balance.core.inputs = flows /\ balance.rate.inputs = stock
          /\ balance.residual.inputs = flows \cup stock
      BY <3>1 DEF BalanceBetween
    <3>3. QED
      BY <1>4, <3>2
  <2>2. claim.cites \in {flows, stock, flows \cup stock}
    BY <1>4, <2>1 DEF Derived
  <2> HIDE DEF w, p
  <2>3. /\ \A row \in flows : row[2] = w
        /\ \A row \in stock : row[2] = w \/ row[2] = p
        /\ \E row \in flows : row[2] = w
        /\ \E row \in stock : row[2] = w
    <3>1. PICK s \in Flows : TRUE
      BY <1>1
    <3>2. <<s, w>> \in flows /\ <<s, w>>[2] = w
      OBVIOUS
    <3>3. <<Stock, w>> \in stock /\ <<Stock, w>>[2] = w /\ <<Stock, p>>[2] = p
      OBVIOUS
    <3>4. \A row \in flows : row[2] = w
      OBVIOUS
    <3>5. \A row \in stock : row = <<Stock, w>> \/ row = <<Stock, p>>
      OBVIOUS
    <3>6. QED
      BY <3>2, <3>3, <3>4, <3>5
  <2> HIDE DEF flows, stock
  <2>4. \A row \in claim.cites : row[2] \in Int /\ row[2] <= w
    BY <1>1, <2>2, <2>3
  <2>5. \E row \in claim.cites : row[2] = w
    BY <2>2, <2>3
  <2>6. QED
    BY <1>1, <2>4, <2>5, EndsAt
<1>5. QED
  BY <1>2, <1>3, <1>4

LEMMA WatchHasWeek ==
    ASSUME NEW a \in Int, NEW b \in Int, NEW obs, Within(obs, a, b), HasBalance(obs)
    PROVE  /\ BalanceWatch(obs).as_of = BalanceWeek(obs)
           /\ CrudeBalance(obs).as_of = BalanceWeek(obs)
           /\ \A s \in Flows : \E claim \in BalanceWatch(obs).claims :
                  claim.says = {obs[s][BalanceWeek(obs)]}
<1> DEFINE w == BalanceWeek(obs)
           sc == ScopedTo(obs, w)
<1>1. /\ Within(sc, a, b) /\ Flows \subseteq Present(sc)
      /\ \A s \in Flows : Last(sc, s) = w /\ sc[s][w] = obs[s][w]
      /\ LatestOf(sc, Present(sc)) = w
  BY ScopedToBalance
<1>2. w \in Int
  BY BalanceWeeks
<1>3. /\ BalanceWatch(obs).as_of = LatestOf(sc, Present(sc))
      /\ Brief(sc, Flows).claims \subseteq BalanceWatch(obs).claims
  BY DEF BalanceWatch, Brief
<1>4. CrudeBalance(obs).as_of = w
  BY DEF CrudeBalance, BalanceBetween
<1>5. ASSUME NEW s \in Flows
      PROVE  \E claim \in BalanceWatch(obs).claims : claim.says = {obs[s][w]}
  <2> DEFINE snapshot == Snapshot(sc, s, w)
  <2>1. snapshot = LatestSnapshot(sc, s)
    <3> HIDE DEF sc, w
    <3>1. s \in Present(sc) /\ w >= Last(sc, s)
      BY <1>1, <1>2
    <3>2. QED
      BY <1>1, <1>2, <3>1, SnapshotIsLatest
  <2>2. snapshot.current = obs[s][w]
    <3> HIDE DEF sc, w
    <3>1. LatestSnapshot(sc, s).current = sc[s][w]
      BY <1>1, LatestFields
    <3>2. QED
      BY <1>1, <2>1, <3>1
  <2>3. Level(snapshot, snapshot.change) \in Brief(sc, Flows).claims
    <3> HIDE DEF sc, w
    <3>1. QED
      BY <1>1 DEF Brief
  <2>4. Level(snapshot, snapshot.change).says = {obs[s][w]}
    BY <2>2 DEF Level
  <2>5. QED
    BY <1>3, <2>3, <2>4
<1>6. QED
  BY <1>1, <1>3, <1>4, <1>5
================================================================================
