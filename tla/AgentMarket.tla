------------------------------- MODULE AgentMarket -----------------------------
(***************************************************************************)
(* What machine buyers are told and sold: quotes, product states and the   *)
(* change manifest of api/app.py, Evidence Packs                           *)
(* (agent/products.py), states (agent/state.py), manifests                 *)
(* (agent/manifest.py), prices (agent/pricing.py), and a buyer that uses   *)
(* agent/buyer.py in the loop of docs/agent-manifest.md.                   *)
(*                                                                         *)
(* Every answer is made from the dataset, the time and the terms of one    *)
(* moment; requests that a change falls into are in EvidenceContext, and   *)
(* the steps of a purchase in EvidencePurchase.  A SHA-256 digest is the   *)
(* record it is computed from; the hash of a series' payload is the rows   *)
(* of the series.  An answer a buyer keeps is known by its moment.         *)
(*                                                                         *)
(* A definition marked "mutant" is a wrong version of the one that follows *)
(* it and is used by nothing: replacing that one by it breaks a property.  *)
(***************************************************************************)
EXTENDS ReleaseGate, Sequences

CONSTANTS
    Products,       \* the catalog: a kind of report and the series it is about
    Prices,         \* amounts that can be configured
    Terms,          \* bound: the settings the server is started with
    Feed,           \* bound: the datasets that become the latest, in order
    Instants,       \* bound: the instants at which something is looked at
    FirstWeek,      \* bound: the oldest week in a dataset
    LastWeek,       \* bound: the newest one
    None

ASSUME MarketAssumption ==
    /\ Products \subseteq
           [kind : {"brief", "delta", "fact", "balance"}, series : SUBSET Series]
    /\ \A p \in Products : p.kind = "fact" => \E s \in Series : p.series = {s}
    /\ \A terms \in Terms :
           /\ terms.gateway \in BOOLEAN
           /\ terms.fallback \in Prices \cup {None}
           /\ DOMAIN terms.override \subseteq Products
           /\ \A p \in DOMAIN terms.override : terms.override[p] \in Prices \cup {None}
    /\ Feed \in Seq({Feed[i] : i \in DOMAIN Feed})
    /\ FirstWeek \in Int /\ LastWeek \in Int
    /\ \A i \in DOMAIN Feed :
           /\ Feed[i].live \in BOOLEAN /\ Present(Feed[i].obs) # {}
           /\ \A s \in Series : Weeks(Feed[i].obs, s) \subseteq FirstWeek..LastWeek
    /\ Instants \subseteq Int /\ \A t \in Instants : Resolvable(t)
    /\ None \notin Prices \cup [data : Nat, time : Int]
                           \cup [data : Nat, time : Int, terms : Terms]

VARIABLES
    now,
    data,           \* how many of Feed were ingested; the last one is served
    terms,          \* prices and gateway of the running server
    kept,           \* the moment of the manifest the buyer has, or None
    wanted,         \* products it still has to fetch
    has             \* that of the Evidence Pack it has of each product, or None

vars == <<now, data, terms, kept, wanted, has>>

--------------------------------------------------------------------------------
(* Evidence Packs. *)

About(p) == CHOOSE s \in Series : p.series = {s}

(* build_evidence_pack raises ValueError without a report. *)
Buildable(obs, p) ==
    CASE p.kind = "brief"   -> HasBrief(obs, p.series)
      [] p.kind = "delta"   -> HasDelta(obs, p.series)
      [] p.kind = "fact"    -> About(p) \in Present(obs)
      [] p.kind = "balance" -> HasBalance(obs)

Report(obs, p) ==
    CASE p.kind = "brief"   -> Brief(obs, p.series)
      [] p.kind = "delta"   -> Delta(obs, p.series)
      [] p.kind = "fact"    -> Fact(obs, About(p))
      [] p.kind = "balance" -> BalanceWatch(obs)

EvidenceObservation(d, row) ==
    [row   |-> row,
     value |-> Feed[d].obs[row[1]][row[2]],
     hash  |-> Feed[d].obs[row[1]]]

Cited(report) == UNION {claim.cites : claim \in report.claims}

(* The semantic payload of evidence_sha256.  Neither the time it is        *)
(* generated nor the time its source was fetched is in it.                 *)
Evidence(d, freshness, report) ==
    [as_of        |-> report.as_of,
     live         |-> Feed[d].live,
     freshness    |-> freshness,
     claims       |-> report.claims,
     observations |-> {EvidenceObservation(d, row) : row \in Cited(report)}]

FreshnessAt(d, t) == Freshness(Feed[d].live, Feed[d].obs, t)

Packs == [d \in DOMAIN Feed |-> [t \in Instants |-> [p \in Products |->
    IF Buildable(Feed[d].obs, p)
    THEN Evidence(d, FreshnessAt(d, t), Report(Feed[d].obs, p))
    ELSE None]]]

(* The evidence endpoint answers 200, 304 or 402, and nothing but 409 else. *)
Served(d, t, p) == Packs[d][t][p] # None /\ Packs[d][t][p].freshness.status # "stale"

--------------------------------------------------------------------------------
(* Terms. *)

AmountFor(set, p) ==
    IF p \in DOMAIN set.override THEN set.override[p] ELSE set.fallback

CommerceActive(set, p) == set.gateway /\ AmountFor(set, p) # None

(* quote_agent_product knows of no gateway. *)
PriceOf(set, p) ==
    IF AmountFor(set, p) = None THEN None
    ELSE [amount |-> AmountFor(set, p), enforcement |-> "external"]

(* available_for_purchase only says that there is a price. *)
AgentQuote(set, p) ==
    [price       |-> PriceOf(set, p),
     purchase    |-> PriceOf(set, p) # None,
     enforcement |-> IF PriceOf(set, p) # None THEN "external" ELSE "not_configured",
     protocols   |-> {}]

(* agent_quote rewrites what an active gateway changes. *)
Quote(set, p) ==
    IF ~CommerceActive(set, p) THEN AgentQuote(set, p)
    ELSE [AgentQuote(set, p) EXCEPT
             !.price.enforcement = "http_402",
             !.enforcement       = "http_402",
             !.protocols         = {"of the gateway"}]

--------------------------------------------------------------------------------
(* Product states and the change manifest, as of a dataset and an instant. *)

State(d, t, set, p) ==
    [evidence    |-> Packs[d][t][p],
     fetched     |-> d,
     fulfillment |-> Packs[d][t][p].freshness.status # "stale",
     quote       |-> Quote(set, p)]

EntryOfStale(d, t, set, p) ==                                             \* mutant
    IF Packs[d][t][p] = None THEN [availability |-> "unavailable"]
    ELSE [availability |-> "available", state |-> State(d, t, set, p)]
(* unavailable_manifest_entry has no state, no price and no terms; its     *)
(* reason, a text, is left out.                                            *)
Entry(d, t, set, p) ==
    IF Packs[d][t][p] = None THEN [availability |-> "unavailable"]
    ELSE [availability |-> IF State(d, t, set, p).fulfillment THEN "available" ELSE "stale",
          state        |-> State(d, t, set, p)]

CurrentEntry(p) == Entry(data, now, terms, p)
KeptEntry(p)    == Entry(kept.data, kept.time, kept.terms, p)

(* changed_skus_since, or every product without a manifest to compare. *)
ChangedByDate ==                                                          \* mutant
    {p \in Products : kept # None =>
        \/ KeptEntry(p).availability # CurrentEntry(p).availability
        \/ /\ CurrentEntry(p).availability # "unavailable"
           /\ KeptEntry(p).state.evidence.as_of # CurrentEntry(p).state.evidence.as_of}
Changed == {p \in Products : kept # None => KeptEntry(p) # CurrentEntry(p)}

UnchangedClaims ==                                                        \* mutant
    kept # None /\ \A p \in Products :
        /\ KeptEntry(p).availability = "unavailable" <=> CurrentEntry(p).availability = "unavailable"
        /\ KeptEntry(p).availability # "unavailable" =>
              KeptEntry(p).state.evidence.claims = CurrentEntry(p).state.evidence.claims
(* The ETag of the manifest the buyer has is that of the current one. *)
ManifestUnchanged == kept # None /\ \A p \in Products : KeptEntry(p) = CurrentEntry(p)

--------------------------------------------------------------------------------
Init ==
    /\ now \in Instants /\ \A t \in Instants : now <= t
    /\ data = 0
    /\ terms \in Terms
    /\ kept = None
    /\ wanted = {}
    /\ has = [p \in Products |-> None]

Tick ==
    /\ \E t \in Instants :
        /\ t > now
        /\ \A u \in Instants : u > now => t <= u
        /\ now' = t
    /\ UNCHANGED <<data, terms, kept, wanted, has>>

(* SourcePipeline and DatasetStore, seen from here. *)
Ingest ==
    /\ data < Len(Feed)
    /\ data' = data + 1
    /\ UNCHANGED <<now, terms, kept, wanted, has>>

(* The server is started again with other settings. *)
Restart ==
    /\ terms' \in Terms \ {terms}
    /\ UNCHANGED <<now, data, kept, wanted, has>>

(* poll_manifest with the ETag of the manifest the buyer has: 409 without  *)
(* data, 304 when nothing changed.  It wants the products that changed and *)
(* can be fetched, and those it did not get before.                        *)
PollManifest ==
    /\ data # 0
    /\ ~ManifestUnchanged
    /\ kept' = [data |-> data, time |-> now, terms |-> terms]
    /\ wanted' = {p \in wanted \cup Changed : CurrentEntry(p).availability = "available"}
    /\ UNCHANGED <<now, data, terms, has>>

OnOfferUngated(p) == data # 0 /\ Packs[data][now][p] # None               \* mutant
OnOffer(p) == data # 0 /\ Served(data, now, p)
Owned(p)   == has[p] # None /\ Packs[has[p].data][has[p].time][p] = Packs[data][now][p]

(* fetch_evidence: a 304 for what the buyer has, or another pack, paid for *)
(* if it must be.                                                          *)
Fetch(p) ==
    /\ p \in wanted
    /\ OnOffer(p)
    /\ wanted' = wanted \ {p}
    /\ has' = IF Owned(p) THEN has
              ELSE [has EXCEPT ![p] = [data |-> data, time |-> now]]
    /\ UNCHANGED <<now, data, terms, kept>>

Next ==
    \/ Tick \/ Ingest \/ Restart \/ PollManifest
    \/ \E p \in Products : Fetch(p)

Spec == Init /\ [][Next]_vars

(* A buyer that keeps polling and fetching; terms may change for ever. *)
Fairness == SF_vars(PollManifest) /\ \A p \in Products : SF_vars(Fetch(p))

FairSpec == Spec /\ Fairness

--------------------------------------------------------------------------------
(* Properties. *)

Answers == [data : DOMAIN Feed, time : Instants]

TypeOK ==
    /\ now \in Instants /\ data \in 0..Len(Feed) /\ terms \in Terms
    /\ kept \in [data : 1..data, time : Instants, terms : Terms] \cup {None}
    /\ wanted \subseteq Products
    /\ has \in [Products -> Answers \cup {None}]
    /\ wanted # {} => kept # None
    /\ \A p \in Products : has[p] # None => Served(has[p].data, has[p].time, p)

(* The manifest calls available what the evidence endpoint serves, stale   *)
(* or unavailable what it refuses with 409 (docs/agent-manifest.md:        *)
(* "affected product entries report that fulfillment is not available").   *)
AvailabilityIsHonest == data # 0 => \A p \in Products :
    CurrentEntry(p).availability = "available" <=> Served(data, now, p)

(* A buyer whose manifest is current and who has fetched what it was told  *)
(* to has, of everything available, the evidence now served, whatever      *)
(* changed between its polls and its fetches (docs/agent-manifest.md: "the *)
(* buyer can inspect only the affected products").                         *)
OwnsWhatIsCurrent ==
    data # 0 /\ ManifestUnchanged =>
        \A p \in Products \ wanted : OnOffer(p) => Owned(p)

(* What a buyer may rely on that asks for nothing but the manifest: while  *)
(* it is unchanged, what the buyer has of a product called available there *)
(* ends, claim by claim, at the week that is due by now or later, whatever *)
(* time has passed (docs/freshness.md: "OilSignal treats freshness as part *)
(* of evidence validity").  Of a balance this is so when every flow has a  *)
(* row of that week.                                                       *)
Held(p) == Packs[has[p].data][has[p].time][p]

UnchangedIsCurrent ==
    data # 0 /\ ManifestUnchanged /\ Feed[data].live =>
        \A p \in Products \ wanted :
            /\ KeptEntry(p).availability = "available"
            /\ p.kind = "balance" =>
                  \A s \in Flows : ExpectedWeek(now) \in Weeks(Feed[data].obs, s)
            => \A claim \in Held(p).claims : EndOf(claim) >= ExpectedWeek(now)

(* A buyer that keeps at it has, in the end, what can be had. *)
BuyerCatchesUp == \A p \in Products :
    <>[]OnOffer(p) => <>[](OnOffer(p) /\ Owned(p))

(* "Its digest stays stable until the current weekly change event changes" *)
(* (docs/agent-products.md), and a fact's until an observation, source or  *)
(* claim does (docs/agent-fact-products.md): what a buyer gets anew of     *)
(* them differs from what it had in a claim, an observation or the source. *)
Event(answer, p) ==
    LET pack == Packs[answer.data][answer.time][p]
    IN  <<pack.live, pack.claims, pack.observations>>

PaysForChangesOnly == [][\A p \in {q \in Products : q.kind \in {"delta", "fact"}} :
    has[p] # None /\ has'[p] # has[p] => Event(has'[p], p) # Event(has[p], p)]_vars
================================================================================
