--------------------------- MODULE AgentMarketProofs ---------------------------
(***************************************************************************)
(* For any catalog, terms, datasets and release calendar: availability is  *)
(* told as it is, a buyer that fetches what the manifest shows it owns     *)
(* what is current, and while its manifest is not modified that is of the  *)
(* week that is due.  The inductive part is that what the buyer has of a   *)
(* product it need not fetch was current at some moment since the poll;    *)
(* between two polls with the same answer the evidence cannot have changed *)
(* and changed back, because the expected week never goes back.            *)
(***************************************************************************)
EXTENDS AgentMarket, ReleaseGateProofs

LEMMA FeedIndices ==
    /\ Len(Feed) \in Nat
    /\ \A d \in Nat : 0 < d /\ d <= Len(Feed) => d \in DOMAIN Feed
    /\ \A d \in DOMAIN Feed : d \in Nat /\ 0 < d /\ d <= Len(Feed)
BY MarketAssumption DEF MarketAssumption

LEMMA MarketInstants ==
    ASSUME NEW t \in Instants
    PROVE  t \in Int /\ Resolvable(t) /\ ExpectedWeek(t) \in Int
<1>1. t \in Int /\ Resolvable(t)
  BY MarketAssumption DEF MarketAssumption
<1>2. QED
  BY <1>1, ExpectedIsLastDue

LEMMA PackFields ==
    ASSUME NEW d \in DOMAIN Feed, NEW t \in Instants, NEW p \in Products,
           Packs[d][t][p] # None
    PROVE  /\ Packs[d][t][p] = Evidence(d, FreshnessAt(d, t), Report(Feed[d].obs, p))
           /\ Packs[d][t][p].freshness = FreshnessAt(d, t)
<1>1. Packs[d][t][p] = Evidence(d, FreshnessAt(d, t), Report(Feed[d].obs, p))
  BY DEF Packs
<1>2. Evidence(d, FreshnessAt(d, t), Report(Feed[d].obs, p)).freshness = FreshnessAt(d, t)
  BY DEF Evidence
<1>3. QED
  BY <1>1, <1>2

(* The freshness of a dataset follows from the expected week. *)
LEMMA FreshnessOfWeek ==
    ASSUME NEW d \in DOMAIN Feed, NEW t, NEW u,
           Feed[d].live => ExpectedWeek(t) = ExpectedWeek(u)
    PROVE  FreshnessAt(d, t) = FreshnessAt(d, u)
BY DEF FreshnessAt, Freshness, Stale, StaleSeries

LEMMA WeekOfFreshness ==
    ASSUME NEW d \in DOMAIN Feed, NEW t, NEW u,
           FreshnessAt(d, t) = FreshnessAt(d, u), Feed[d].live
    PROVE  ExpectedWeek(t) = ExpectedWeek(u)
<1>1. /\ FreshnessAt(d, t).expected = ExpectedWeek(t)
      /\ FreshnessAt(d, u).expected = ExpectedWeek(u)
  BY DEF FreshnessAt, Freshness
<1>2. QED
  BY <1>1

LEMMA PackOfFreshness ==
    ASSUME NEW d \in DOMAIN Feed, NEW t \in Instants, NEW u \in Instants,
           NEW p \in Products, FreshnessAt(d, t) = FreshnessAt(d, u)
    PROVE  Packs[d][t][p] = Packs[d][u][p]
<1>1. Packs[d][t][p] = IF Buildable(Feed[d].obs, p)
                       THEN Evidence(d, FreshnessAt(d, t), Report(Feed[d].obs, p)) ELSE None
  BY DEF Packs
<1>2. Packs[d][u][p] = IF Buildable(Feed[d].obs, p)
                       THEN Evidence(d, FreshnessAt(d, u), Report(Feed[d].obs, p)) ELSE None
  BY DEF Packs
<1>3. QED
  BY <1>1, <1>2

(* Evidence that is the same at two moments is the same in between. *)
LEMMA SameInBetween ==
    ASSUME NEW d \in DOMAIN Feed, NEW p \in Products,
           NEW t \in Instants, NEW u \in Instants, NEW v \in Instants,
           t <= u, u <= v,
           Packs[d][v][p] # None, Packs[d][t][p] = Packs[d][v][p]
    PROVE  Packs[d][u][p] = Packs[d][v][p]
<1>1. FreshnessAt(d, t) = FreshnessAt(d, v)
  BY PackFields
<1>3. /\ ExpectedWeek(t) <= ExpectedWeek(u) /\ ExpectedWeek(u) <= ExpectedWeek(v)
      /\ ExpectedWeek(t) \in Int /\ ExpectedWeek(u) \in Int /\ ExpectedWeek(v) \in Int
  BY MarketInstants, ExpectedNeverGoesBack
<1>4. ASSUME Feed[d].live PROVE ExpectedWeek(u) = ExpectedWeek(v)
  <2>1. ExpectedWeek(t) = ExpectedWeek(v)
    BY <1>1, <1>4, WeekOfFreshness
  <2> DEFINE a == ExpectedWeek(t)
             b == ExpectedWeek(u)
             c == ExpectedWeek(v)
  <2> HIDE DEF a, b, c
  <2>2. a <= b /\ b <= c /\ a \in Int /\ b \in Int /\ c \in Int /\ a = c
    BY <1>3, <2>1 DEF a, b, c
  <2>3. b = c
    BY <2>2
  <2>4. QED
    BY <2>3 DEF b, c
<1>5. FreshnessAt(d, u) = FreshnessAt(d, v)
  BY <1>4, FreshnessOfWeek
<1>6. QED
  BY <1>5, PackOfFreshness

--------------------------------------------------------------------------------
(* What the buyer has. *)

(* An answer for p is the pack of a moment from d and t on to e and u. *)
IsOf(answer, p, d, t, e, u) ==
    /\ answer # None
    /\ \E f \in DOMAIN Feed : \E v \in Instants :
        /\ d <= f /\ f <= e /\ t <= v /\ v <= u
        /\ Packs[answer.data][answer.time][p] = Packs[f][v][p]

KeptInPast == kept # None => kept.data <= data /\ kept.time <= now

Settled == kept # None => \A p \in Products \ wanted :
    Entry(kept.data, kept.time, kept.terms, p).availability = "available" =>
        IsOf(has[p], p, kept.data, kept.time, data, now)

IInv == TypeOK /\ KeptInPast /\ Settled

(* A manifest entry that did not change: the pack is still the one. *)
LEMMA EntryTellsPack ==
    ASSUME NEW p \in Products, TypeOK, kept # None, data # 0,
           KeptEntry(p) = CurrentEntry(p), CurrentEntry(p).availability = "available"
    PROVE  /\ kept.data = data /\ Packs[data][now][p] # None
           /\ Packs[kept.data][kept.time][p] = Packs[data][now][p]
<1>1. Packs[data][now][p] # None
  BY DEF CurrentEntry, Entry
<1>2. Packs[kept.data][kept.time][p] # None
  <2>1. SUFFICES ASSUME Packs[kept.data][kept.time][p] = None PROVE FALSE
    OBVIOUS
  <2>2. KeptEntry(p).availability = "unavailable"
    BY <2>1 DEF KeptEntry, Entry
  <2>3. QED
    BY <2>2
<1>3. /\ CurrentEntry(p).state = State(data, now, terms, p)
      /\ KeptEntry(p).state = State(kept.data, kept.time, kept.terms, p)
  BY <1>1, <1>2 DEF CurrentEntry, KeptEntry, Entry
<1>4. State(data, now, terms, p) = State(kept.data, kept.time, kept.terms, p)
  BY <1>3
<1>5. /\ State(data, now, terms, p).fetched = data
      /\ State(data, now, terms, p).evidence = Packs[data][now][p]
      /\ State(kept.data, kept.time, kept.terms, p).fetched = kept.data
      /\ State(kept.data, kept.time, kept.terms, p).evidence
            = Packs[kept.data][kept.time][p]
  BY DEF State
<1>6. QED
  BY <1>1, <1>4, <1>5

LEMMA UnchangedIsOwned ==
    ASSUME NEW p \in Products \ wanted, IInv, kept # None, data # 0,
           KeptEntry(p) = CurrentEntry(p), CurrentEntry(p).availability = "available"
    PROVE  Owned(p)
<1>1. /\ kept.data = data /\ Packs[data][now][p] # None
      /\ Packs[data][kept.time][p] = Packs[data][now][p]
  BY EntryTellsPack DEF IInv
<1>2. IsOf(has[p], p, kept.data, kept.time, data, now)
  BY DEF IInv, Settled, KeptEntry
<1>3. PICK e \in DOMAIN Feed, u \in Instants :
        /\ data <= e /\ e <= data /\ kept.time <= u /\ u <= now
        /\ Packs[has[p].data][has[p].time][p] = Packs[e][u][p]
  BY <1>1, <1>2 DEF IsOf
<1>4. e = data /\ now \in Instants /\ kept.time \in Instants
  <2>1. data \in Nat /\ e \in Nat
    BY FeedIndices DEF IInv, TypeOK
  <2>2. now \in Instants /\ kept.time \in Instants
    BY DEF IInv, TypeOK
  <2>3. QED
    BY <1>3, <2>1, <2>2
<1>5. Packs[data][u][p] = Packs[data][now][p]
  <2>1. data \in DOMAIN Feed
    BY <1>4
  <2>2. kept.time <= u /\ u <= now
    BY <1>3
  <2>3. QED
    BY <1>1, <1>4, <2>1, <2>2, SameInBetween
<1>6. QED
  BY <1>2, <1>3, <1>4, <1>5 DEF Owned, IsOf

--------------------------------------------------------------------------------
LEMMA LaterStill ==
    ASSUME NEW a, NEW p, NEW d \in Nat, NEW t \in Int, NEW e \in Nat, NEW u \in Int,
           NEW f \in Nat, NEW v \in Int, e <= f, u <= v, IsOf(a, p, d, t, e, u)
    PROVE  IsOf(a, p, d, t, f, v)
<1>1. PICK g \in DOMAIN Feed, w \in Instants :
        /\ d <= g /\ g <= e /\ t <= w /\ w <= u
        /\ Packs[a.data][a.time][p] = Packs[g][w][p]
  BY DEF IsOf
<1>2. g \in Nat /\ w \in Int
  BY FeedIndices, MarketInstants
<1>3. g <= f /\ w <= v
  BY <1>1, <1>2
<1>4. QED
  BY <1>1, <1>3 DEF IsOf

LEMMA TypesOfNow ==
    ASSUME TypeOK
    PROVE  /\ data \in Nat /\ now \in Int /\ now \in Instants
           /\ data # 0 => data \in DOMAIN Feed
           /\ kept # None => kept.data \in Nat /\ kept.time \in Int
<1>1. data \in Nat /\ now \in Instants /\ data <= Len(Feed)
  BY FeedIndices DEF TypeOK
<1>2. now \in Int
  BY <1>1, MarketInstants
<1>3. kept # None => kept.data \in Nat /\ kept.time \in Int
  <2>1. kept # None => kept.data \in 1..data /\ kept.time \in Instants
    BY DEF TypeOK
  <2>2. QED
    BY <1>1, <2>1, MarketInstants
<1>4. QED
  BY <1>1, <1>2, <1>3, FeedIndices

LEMMA InitSettled == Init => IInv
<1> SUFFICES ASSUME Init PROVE IInv
  OBVIOUS
<1>1. TypeOK
  BY FeedIndices DEF Init, TypeOK
<1>2. QED
  BY <1>1 DEF Init, IInv, KeptInPast, Settled

(* Steps that leave the buyer alone while time passes or data comes in. *)
LEMMA MarketMoves ==
    ASSUME IInv, TypeOK', UNCHANGED <<kept, wanted, has>>, data <= data', now <= now'
    PROVE  IInv'
<1>1. CASE kept = None
  BY <1>1 DEF IInv, KeptInPast, Settled
<1>2. CASE kept # None
  <2>1. /\ data \in Nat /\ now \in Int /\ data' \in Nat /\ now' \in Int
        /\ kept.data \in Nat /\ kept.time \in Int
    <3>1. data \in Nat /\ now \in Int /\ kept.data \in Nat /\ kept.time \in Int
      BY <1>2, TypesOfNow DEF IInv
    <3>2. data' \in Nat /\ now' \in Int
      BY FeedIndices, MarketInstants DEF TypeOK
    <3>3. QED
      BY <3>1, <3>2
  <2>2. KeptInPast'
    BY <1>2, <2>1 DEF IInv, KeptInPast
  <2>3. Settled'
    <3> SUFFICES ASSUME NEW p \in Products \ wanted,
                        Entry(kept.data, kept.time, kept.terms, p).availability = "available"
                 PROVE  IsOf(has[p], p, kept.data, kept.time, data', now')
      BY DEF Settled
    <3>1. IsOf(has[p], p, kept.data, kept.time, data, now)
      BY <1>2 DEF IInv, Settled
    <3>2. QED
      BY <2>1, <3>1, LaterStill
  <2>4. QED
    BY <2>2, <2>3 DEF IInv
<1>3. QED
  BY <1>1, <1>2

LEMMA NextSettled == IInv /\ [Next]_vars => IInv'
<1> SUFFICES ASSUME IInv, [Next]_vars PROVE IInv'
  OBVIOUS
<1>1. TypeOK /\ data \in Nat /\ now \in Int /\ now \in Instants
  BY TypesOfNow DEF IInv
<1>2. CASE UNCHANGED vars
  <2>1. TypeOK'
    BY <1>1, <1>2 DEF vars, TypeOK
  <2>2. QED
    BY <1>1, <1>2, <2>1, MarketMoves DEF vars
<1>3. CASE Tick
  <2>1. TypeOK' /\ now <= now'
    BY <1>1, <1>3, MarketInstants DEF Tick, TypeOK
  <2>2. QED
    BY <1>1, <1>3, <2>1, MarketMoves DEF Tick
<1>4. CASE Ingest
  <2>1. data' = data + 1 /\ data' \in 0..Len(Feed) /\ 1..data \subseteq 1..data'
    BY <1>1, <1>4, FeedIndices DEF Ingest, TypeOK
  <2>2. kept' \in [data : 1..data', time : Instants, terms : Terms] \cup {None}
    BY <1>1, <1>4, <2>1 DEF Ingest, TypeOK
  <2>3. TypeOK'
    BY <1>1, <1>4, <2>1, <2>2 DEF Ingest, TypeOK
  <2>4. data <= data' /\ now <= now'
    BY <1>1, <1>4, <2>1 DEF Ingest
  <2>5. QED
    BY <1>4, <2>3, <2>4, MarketMoves DEF Ingest
<1>5. CASE Restart
  <2>1. TypeOK'
    BY <1>1, <1>5 DEF Restart, TypeOK
  <2>2. QED
    BY <1>1, <1>5, <2>1, MarketMoves DEF Restart
<1>6. CASE PollManifest
  <2>1. data \in DOMAIN Feed /\ data \in 1..data
    BY <1>1, <1>6, TypesOfNow DEF PollManifest
  <2>2. /\ kept' = [data |-> data, time |-> now, terms |-> terms]
        /\ kept' \in [data : 1..data, time : Instants, terms : Terms]
        /\ kept' # None
    <3>1. kept' = [data |-> data, time |-> now, terms |-> terms]
      BY <1>6 DEF PollManifest
    <3>2. terms \in Terms
      BY <1>1 DEF TypeOK
    <3>3. kept' \in [data : Nat, time : Int, terms : Terms]
      BY <1>1, <3>1, <3>2
    <3>4. QED
      BY <1>1, <2>1, <3>1, <3>2, <3>3, MarketAssumption DEF MarketAssumption
  <2>3. TypeOK'
    <3>1. UNCHANGED <<now, data, terms, has>>
      BY <1>6 DEF PollManifest
    <3>2. wanted' \subseteq Products
      BY <1>1, <1>6 DEF PollManifest, Changed, TypeOK
    <3>3. kept' \in [data : 1..data', time : Instants, terms : Terms] \cup {None}
      BY <2>2, <3>1
    <3>4. QED
      BY <1>1, <2>2, <3>1, <3>2, <3>3 DEF TypeOK
  <2>4. KeptInPast'
    BY <1>1, <1>6, <2>2 DEF PollManifest, KeptInPast
  <2>5. Settled'
    <3> SUFFICES ASSUME NEW p \in Products \ wanted',
                        CurrentEntry(p).availability = "available"
                 PROVE  IsOf(has[p], p, data, now, data, now)
      BY <1>6, <2>2 DEF Settled, PollManifest, CurrentEntry
    <3>1. p \notin wanted /\ p \notin Changed
      BY <1>6 DEF PollManifest, Changed
    <3>2. kept # None /\ KeptEntry(p) = CurrentEntry(p)
      BY <3>1 DEF Changed
    <3>3. Owned(p)
      BY <1>6, <3>1, <3>2, UnchangedIsOwned DEF PollManifest
    <3>4. QED
      BY <1>1, <2>1, <3>3 DEF Owned, IsOf
  <2>6. QED
    BY <2>3, <2>4, <2>5 DEF IInv
<1>7. ASSUME NEW p \in Products, Fetch(p) PROVE IInv'
  <2>1. /\ p \in wanted /\ kept # None /\ kept' = kept /\ data' = data /\ now' = now
        /\ Served(data, now, p) /\ data \in DOMAIN Feed
        /\ kept.data <= data /\ kept.time <= now
    BY <1>1, <1>7, TypesOfNow DEF Fetch, OnOffer, IInv, TypeOK, KeptInPast
  <2>2. [data |-> data, time |-> now] \in Answers
    BY <1>1, <2>1 DEF Answers
  <2>3. [data |-> data, time |-> now] # None
    BY <1>1, MarketAssumption DEF MarketAssumption
  <2>4. /\ has' \in [Products -> Answers \cup {None}]
        /\ \A q \in Products : q # p => has'[q] = has[q]
        /\ has'[p] # None /\ Packs[has'[p].data][has'[p].time][p] = Packs[data][now][p]
    <3>1. has \in [Products -> Answers \cup {None}]
      BY <1>1 DEF TypeOK
    <3>2. CASE Owned(p)
      BY <1>7, <3>1, <3>2 DEF Fetch, Owned
    <3>3. CASE ~Owned(p)
      <4>1. has' = [has EXCEPT ![p] = [data |-> data, time |-> now]]
        BY <1>7, <3>3 DEF Fetch
      <4>2. has'[p] = [data |-> data, time |-> now]
        BY <3>1, <4>1
      <4>3. QED
        BY <2>2, <2>3, <3>1, <4>1, <4>2
    <3>4. QED
      BY <3>2, <3>3
  <2>5. Served(has'[p].data, has'[p].time, p)
    BY <2>1, <2>4 DEF Served
  <2>6. TypeOK'
    BY <1>1, <1>7, <2>1, <2>4, <2>5 DEF Fetch, TypeOK
  <2>7. KeptInPast'
    BY <2>1 DEF KeptInPast
  <2>8. Settled'
    <3> SUFFICES ASSUME NEW q \in Products \ wanted',
                        Entry(kept.data, kept.time, kept.terms, q).availability = "available"
                 PROVE  IsOf(has'[q], q, kept.data, kept.time, data, now)
      BY <2>1 DEF Settled
    <3>1. CASE q = p
      BY <1>1, <2>1, <2>4, <3>1 DEF IsOf
    <3>2. CASE q # p
      <4>1. q \in Products \ wanted /\ has'[q] = has[q]
        BY <1>7, <2>4, <3>2 DEF Fetch
      <4>2. QED
        BY <2>1, <4>1 DEF IInv, Settled
    <3>3. QED
      BY <3>1, <3>2
  <2>9. QED
    BY <2>6, <2>7, <2>8 DEF IInv
<1>8. QED
  BY <1>2, <1>3, <1>4, <1>5, <1>6, <1>7 DEF Next

(* What a buyer has was fresh when it got it, whatever was restarted,      *)
(* ingested or due in between.                                             *)
THEOREM MarketTypeCorrect == Spec => []TypeOK
<1>1. IInv => TypeOK
  BY DEF IInv
<1>2. QED
  BY InitSettled, NextSettled, <1>1, PTL DEF Spec

(* The manifest is enough to poll (docs/agent-manifest.md), for any        *)
(* catalog, datasets, terms and calendar.                                  *)
THEOREM ManifestIsEnough == Spec => []OwnsWhatIsCurrent
<1>1. IInv => OwnsWhatIsCurrent
  <2> SUFFICES ASSUME IInv, data # 0, ManifestUnchanged,
                      NEW p \in Products \ wanted, OnOffer(p)
               PROVE  Owned(p)
    BY DEF OwnsWhatIsCurrent
  <2>1. kept # None /\ KeptEntry(p) = CurrentEntry(p)
    BY DEF ManifestUnchanged
  <2>2. CurrentEntry(p).availability = "available"
    BY DEF OnOffer, Served, CurrentEntry, Entry, State
  <2>3. QED
    BY <2>1, <2>2, UnchangedIsOwned
<1>2. QED
  BY InitSettled, NextSettled, <1>1, PTL DEF Spec

LEMMA AvailableIsServed ==
    ASSUME NEW p \in Products
    PROVE  CurrentEntry(p).availability = "available" <=> Served(data, now, p)
<1>1. CASE Packs[data][now][p] = None
  BY <1>1 DEF CurrentEntry, Entry, Served
<1>2. CASE Packs[data][now][p] # None
  <2>1. CurrentEntry(p).availability
          = IF State(data, now, terms, p).fulfillment THEN "available" ELSE "stale"
    BY <1>2 DEF CurrentEntry, Entry
  <2>2. State(data, now, terms, p).fulfillment
          <=> Packs[data][now][p].freshness.status # "stale"
    BY DEF State
  <2>3. QED
    BY <1>2, <2>1, <2>2 DEF Served
<1>3. QED
  BY <1>1, <1>2

(* The manifest neither offers what is refused nor hides what is served    *)
(* (docs/agent-manifest.md), for any catalog, dataset and calendar.        *)
THEOREM ManifestIsHonest == Spec => []AvailabilityIsHonest
<1>1. AvailabilityIsHonest
  BY AvailableIsServed DEF AvailabilityIsHonest
<1>2. QED
  BY <1>1, PTL

--------------------------------------------------------------------------------
(* What is held of the weeks that are due. *)

LEMMA FeedWithin ==
    ASSUME NEW d \in DOMAIN Feed
    PROVE  /\ FirstWeek \in Int /\ LastWeek \in Int
           /\ Within(Feed[d].obs, FirstWeek, LastWeek)
BY MarketAssumption DEF MarketAssumption, Within

(* Each kind of product ends at a last row of the dataset, the balance at  *)
(* its own week.                                                           *)
LEMMA ReportEnds ==
    ASSUME NEW a \in Int, NEW b \in Int, NEW obs, Within(obs, a, b),
           NEW p \in Products, Buildable(obs, p), NEW claim \in Report(obs, p).claims
    PROVE  \/ p.kind # "balance" /\ \E s \in Present(obs) : EndOf(claim) = Last(obs, s)
           \/ /\ p.kind = "balance" /\ HasBalance(obs)
              /\ EndOf(claim) = BalanceWeek(obs)
<1>1. p.kind \in {"brief", "delta", "fact", "balance"} /\ p.series \in SUBSET Series
  BY MarketAssumption DEF MarketAssumption
<1>2. CASE p.kind = "brief"
  <2>1. claim \in Brief(obs, p.series).claims
    BY <1>2 DEF Report
  <2>2. PICK s \in p.series \cap Present(obs) : claim = Answer(obs, s)
    BY <1>1, <2>1, BriefAnswers
  <2>3. EndOf(claim) = Last(obs, s)
    BY <2>2, FactEnds
  <2>4. QED
    BY <1>2, <2>2, <2>3
<1>3. CASE p.kind = "delta"
  <2>1. claim \in Delta(obs, p.series).claims
    BY <1>3 DEF Report
  <2>2. PICK s \in p.series \cap Present(obs) :
            \E t \in LatestSnapshot(obs, s).change : claim = Derived(t)
    BY <1>1, <2>1, DeltaMoves
  <2>3. EndOf(claim) = Last(obs, s)
    BY <2>2, DerivedEnds
  <2>4. QED
    BY <1>3, <2>2, <2>3
<1>4. CASE p.kind = "fact"
  <2>1. About(p) \in Present(obs) /\ claim \in Fact(obs, About(p)).claims
    BY <1>4 DEF Report, Buildable
  <2>2. EndOf(claim) = Last(obs, About(p))
    BY <2>1, FactEnds
  <2>3. QED
    BY <1>4, <2>1, <2>2
<1>5. CASE p.kind = "balance"
  <2>1. HasBalance(obs) /\ claim \in BalanceWatch(obs).claims
    BY <1>5 DEF Report, Buildable
  <2>2. QED
    BY <1>5, <2>1, BalanceEnds
<1>6. QED
  BY <1>1, <1>2, <1>3, <1>4, <1>5

(* What is served of live data ends at the week that is due. *)
LEMMA ServedReaches ==
    ASSUME NEW d \in DOMAIN Feed, NEW t \in Instants, NEW p \in Products,
           Feed[d].live, Served(d, t, p),
           p.kind = "balance" =>
               \A s \in Flows : ExpectedWeek(t) \in Weeks(Feed[d].obs, s),
           NEW claim \in Packs[d][t][p].claims
    PROVE  EndOf(claim) >= ExpectedWeek(t)
<1> DEFINE obs == Feed[d].obs
<1>1. /\ t \in Int /\ Resolvable(t) /\ ExpectedWeek(t) \in Int
      /\ FirstWeek \in Int /\ LastWeek \in Int /\ Within(obs, FirstWeek, LastWeek)
  BY MarketInstants, FeedWithin
<1>2. /\ Packs[d][t][p] = Evidence(d, FreshnessAt(d, t), Report(obs, p))
      /\ Packs[d][t][p].freshness = FreshnessAt(d, t)
      /\ FreshnessAt(d, t).status # "stale"
  BY PackFields DEF Served
<1>3. ~Stale(obs, t)
  BY <1>2 DEF FreshnessAt, Freshness
<1>4. Buildable(obs, p) /\ claim \in Report(obs, p).claims
  <2>1. Buildable(obs, p)
    BY DEF Served, Packs
  <2>2. Evidence(d, FreshnessAt(d, t), Report(obs, p)).claims = Report(obs, p).claims
    BY DEF Evidence
  <2>3. QED
    BY <1>2, <2>1, <2>2
<1> HIDE DEF obs
<1>5. CASE \E s \in Present(obs) : EndOf(claim) = Last(obs, s)
  BY <1>1, <1>3, <1>5, FreshReaches
<1>6. CASE p.kind = "balance" /\ HasBalance(obs) /\ EndOf(claim) = BalanceWeek(obs)
  <2>1. /\ \A w \in CommonWeeks(obs) : w <= BalanceWeek(obs)
        /\ BalanceWeek(obs) \in Int /\ Flows # {}
    BY <1>1, <1>6, BalanceWeeks
  <2>2. ExpectedWeek(t) \in CommonWeeks(obs)
    BY <1>6, <2>1 DEF CommonWeeks, obs
  <2>3. QED
    BY <1>1, <1>6, <2>1, <2>2
<1>7. QED
  BY <1>1, <1>4, <1>5, <1>6, ReportEnds

(* A buyer may take an unchanged manifest for the clock, for any catalog,  *)
(* datasets, terms and calendar: the gate judged what it has by the week   *)
(* that is due still (agent_manifest, require_fresh_wpsr and the digest of *)
(* build_evidence_pack, which covers the expected week).                   *)
THEOREM UnchangedMeansCurrent == Spec => []UnchangedIsCurrent
<1>1. IInv => UnchangedIsCurrent
  <2> SUFFICES ASSUME IInv, data # 0, ManifestUnchanged, Feed[data].live,
                      NEW p \in Products \ wanted,
                      KeptEntry(p).availability = "available",
                      p.kind = "balance" =>
                          \A s \in Flows : ExpectedWeek(now) \in Weeks(Feed[data].obs, s),
                      NEW claim \in Held(p).claims
               PROVE  EndOf(claim) >= ExpectedWeek(now)
    BY DEF UnchangedIsCurrent
  <2>1. /\ kept # None /\ KeptEntry(p) = CurrentEntry(p)
        /\ CurrentEntry(p).availability = "available"
    BY DEF ManifestUnchanged
  <2>2. Held(p) = Packs[data][now][p]
    BY <2>1, UnchangedIsOwned DEF Owned, Held
  <2>3. Served(data, now, p)
    BY <2>1, AvailableIsServed
  <2>4. data \in DOMAIN Feed /\ now \in Instants
    BY TypesOfNow DEF IInv
  <2>5. QED
    BY <2>2, <2>3, <2>4, ServedReaches
<1>2. QED
  BY InitSettled, NextSettled, <1>1, PTL DEF Spec
================================================================================
