# OilSignal in TLA+

OilSignal ingests weekly petroleum data, publishes it as reports and evidence
packs (some of them for sale), judges alert policies on it and delivers the
alerts.  This directory holds TLA+ models of its stateful parts, the TLC runs
that check them, and proofs in TLAPS.  All source paths below are relative to
`src/backend/oilsignal/`.

## Inventory

| Component | State it keeps | Operations | Hard behaviour | What makes it correct |
|---|---|---|---|---|
| Alert outbox and delivery workers (`storage/metadata.py`, `alerts/delivery.py`) | four SQLite tables: outbox rows, leases, retry schedules, dead letters; in each worker a clock reading and a copy of its row | `claim_alert_outbox`, `complete_alert_delivery`, `requeue_alert_dead_letter`, the loop of `flush_alert_outbox`, `send` | workers interleave between transactions, crash, answer late; the provider answers late or not at all; clocks are read before locks are granted | exclusive leases, fenced completions, kept delays, bounded attempts, at-least-once delivery, every alert settles |
| Stateful alert evaluation (`alerts/engine.py`, `storage/metadata.py`) | one state row per policy | `evaluate_policies_with_state` | read, merge and commit are three steps; API threads and cron run it at once; a crash leaves half the policies handled | one alert per activation, no activation without its alert, state follows the newest data |
| Alert rules (`alerts/rules.py`, `alerts/engine.py`) | none | thresholds over snapshots, policies of several conditions | - | an alert says what the reports of the same dataset say |
| Dataset store (`storage/datasets.py`, `storage/catalog.py`) | Parquet files with mtimes, ingestion rows | `latest_parquet`, `load_latest_observations`, `inspect_data` | the latest file is looked up twice per request | observations and provenance of one response come from one ingestion |
| Ingestion (`data_ingestion/*`) | raw files, Parquet file, ingestion row | `ingest_registry`, `ingest_csv`, registry verification | three writes without a transaction, content-addressed reuse | what is latest has provenance; what was verified is what is served |
| Freshness gate (`freshness.py`) | none (a calendar) | `expected_week_ending`, `check_wpsr_freshness`, `require_fresh_wpsr` | delayed releases, week and zone boundaries | stale live evidence is never fulfilled, current evidence is never refused |
| HTTP API (`api/app.py`) | settings; the stores above | evidence, state, manifest, report, alert endpoints | sync handlers run in a thread pool, each reads the stores in several steps | a response is consistent with itself |
| Paid evidence (`agent/commerce.py`, `agent/*gateway*.py`, `storage/commerce.py`) | audit rows; the payment service's own | challenge, verify, record | the payment is settled before the later steps can fail; a restart brings another price | served implies audited and paid, at the amount quoted; a credential for one amount never buys at another; what is paid is received |
| Products, state, manifest, pricing (`agent/products.py`, `state.py`, `manifest.py`, `pricing.py`) | none | digests and quotes over a dataset | data, expected week and prices change between two requests of a buyer | the manifest shows a buyer all it needs to fetch; a digest changes exactly when its meaning does |
| Buyer client (`agent/buyer.py`) | ETags it keeps | poll, fetch | the evidence changes between poll and payment | what is bought is what was seen |
| Commercial discovery (`agent/commercial*.py`) | none | a constant document | - | - |
| Signatures (`agent/signatures.py`, `signing_routes.py`) | a key | sign a digest | - | - |
| Analytics and reports (`analytics/*`, `reports/*`) | none | snapshots, crude balance, brief, delta, facts | series end at different weeks, have gaps | what is said is of one week, cited, and the same in every product |
| Command line, question answering, frontend | none | one call each of the above | - | - |

The parts meet in two places.  The data directory: ingestion writes files and
rows, every reader finds the latest file by itself.  The metadata database:
evaluation inserts outbox rows, workers drain them, the API appends audit rows.
There are no locks but SQLite's and no messages but HTTP.

## Modules

| Module | Role |
|---|---|
| `AlertOutbox` | the outbox tables, the workers, the provider, the operator |
| `NotificationLedger` | what the outbox promises about a notification; `AlertOutbox` implements it |
| `MCAlertOutbox` | an id of its own for every worker |
| `AlertOutboxProofs` | types, table agreement, delays, nobody locked out, lease exclusion, fencing |
| `AlertOutboxRefinement` | the attempt budget, and the refinement of the ledger |
| `AlertEngine` | stateful evaluation over the state and outbox tables |
| `AlertEngineProofs` | types, state and alert together, one alert per rise, active states explained, alerts on edges only |
| `ReleaseCalendar` | release instants and the expected week, to the minute |
| `PetroleumReports` | snapshots, balance, reports, answers, alert rules: functions of a dataset |
| `ReleaseGate` | extends both: the freshness verdict on a dataset |
| `ReleaseGateProofs` | the expected week never goes back; prompt releases resolve; newest rows; at which week each claim of each report ends |
| `SourcePipeline` | EIA over time, its verification and ingestion; the gate and the reports on what was ingested |
| `MCSourcePipeline` | the calendar, series, policies and anomalies TLC looks at |
| `SourcePipelineProofs` | a verified run reaches its week; stale stays stale; the grace is honoured; gated reports are current, of one week, and agree; the ingestion ledger |
| `AgentMarket` | products, states, manifest, prices, and a buyer that polls and fetches |
| `MCAgentMarket` | the catalog, datasets and settings TLC looks at |
| `AgentMarketProofs` | the manifest is enough, honest and, unmodified, current |
| `IngestionLedger` | what the data directory promises about a content; `DatasetStore` and `SourcePipeline` implement it |
| `DatasetStore` | the data directory: releases, ingestions, their files and rows |
| `EvidenceContext` | extends it with a reader and the freshness gate |
| `MCEvidenceContext` | the contents TLC looks at |
| `EvidenceContextProofs` | recorded files can be read; the ledger is kept; undisturbed readers are gated |
| `EvidencePurchase` | buyer, evidence handlers, gateway, audit |
| `MCEvidencePurchase` | the digests, amounts and settings TLC looks at |
| `EvidencePurchaseProofs` | nothing is served unaudited or unpaid, nothing charged but as quoted |

`AlertOutbox!Enqueue` is what `AlertEngine!Commit` does to the outbox: the two
models share that step and are checked apart, because a worker never touches
the state rows and an evaluator never reads the outbox rows.

The path of the data is cut in the same way.  `SourcePipeline` says what a dataset
contains and when; it makes each run of the two commands one step.
`DatasetStore` and `EvidenceContext` say how files and readers interleave, and know
a content only by its name and week.  `AgentMarket` takes datasets as they become
the latest, and answers each request from one moment; `EvidencePurchase` lets the
evidence change inside a request and the price between two, and knows them only by
digest and amount.

### AlertOutbox

*Tables.*  `outbox[r]`, `lease[r]`, `retry[r]` and `deadLetters[r]` are the rows
of `AlertOutboxRow`, `AlertDeliveryLeaseRow`, `AlertRetryScheduleRow` and
`AlertDeadLetterRow` of alert `r`.  The dead letters of a row are counted: those
an operator has requeued and those he has not.  Row numbers are the order of
`created_at, id`, in which a claim scans.

*Transactions.*  `claim_alert_outbox`, `complete_alert_delivery` and
`requeue_alert_dead_letter` each run under `BEGIN IMMEDIATE`, so each outcome is
one action: `ClaimRow`, `ClaimNothing`; `CompleteDelivered`, `CompleteFailed`,
`CompleteDeadLetter`, `CompleteLeaseLost`; `Requeue`.  `ClaimRow` does the whole
scan: it sweeps every expired lease, dead-letters every exhausted row it passes,
drops every schedule that is over, also of a row whose own backoff is not, and
leaves the rows behind the one it takes alone.

*Between the transactions* a worker reads the clock (`ReadClock`, the
`attempted_at` of line 184 of `delivery.py`), sends (`phase = "sending"`), and
reads the clock again (`completed_at`, line 213, part of the actions that return
from `send`).  Its readings then grow old, up to `MaxLag`, while it waits for the
write lock: a claim or completion may run with an instant older than those
other workers have written since.

*The provider* accepts a request while the sender waits (`ProviderAccepts`) or
later (`ProviderAcceptsLate`); a timeout or a crash leaves the request adrift or
loses it (`LeaveRequest`).  `send` returns in every way it has: success, a
transport failure, a retryable status with a `Retry-After`, a permanent one, and
the `OverflowError` of `_bounded_retry_at`, which no handler catches.  A
retryable status without a hint, a hint that cannot be parsed and an adapter that
raises anything else come to the same as a transport failure.

*Crashes.*  `Crash` kills a worker at any step and it forgets its locals.  A
database error, which rolls back and propagates out of `flush_alert_outbox`, has
the same effect.

*Time* is relative: every instant in the state is a distance from now, `Tick`
subtracts one from all of them, and an instant so old that no comparison can
tell it from an older one stops ageing (`Age`).  So the clock is not bounded and
the state is.

### AlertEngine

An evaluation looks at one dataset (`Evaluate`), then handles its policies in
order, each in three steps: `ReadState` (`get_alert_state`, a session of its own),
`MergeState` (the SELECT of `session.merge`) and `Commit`.  pysqlite opens a
transaction only at the first INSERT or UPDATE, so neither SELECT holds a lock.
The UPDATE writes the columns in which the new state differs from the row the
merge loaded (`Update`); the first INSERT of a policy fails when another has
inserted it since (`CommitConflict`).  Which policies a dataset matches is chosen
freely at `Publish`.  Two variables are kept for the properties only: `rises` counts
how often a policy began to match, and `overlapped` remembers whether an evaluation
ever began while another was under way.  Time is the number of datasets published.

### ReleaseCalendar, PetroleumReports and ReleaseGate

These have no variables.  An instant is a minute of the Eastern clock, a week the
number of its Friday: `ReleaseAt`, `Due` and `ExpectedWeek` are `release_at` and the
loop of `expected_week_ending`, a `CHOOSE` of the first candidate that is due among
the 104 it tries.  `Resolvable` is what the `RuntimeError` after the loop would deny.

`obs[s]` maps the weeks that series `s` has an observation for to its value.
`Snapshot` is `build_snapshot`, `CrudeBalance` is `build_crude_balance`; `Brief`,
`Delta`, `Fact`, `BalanceWatch` and `Answer` are the reports and the answers of
`/api/ask`; `Evaluation` is `AlertPolicy.evaluate`.  A claim is the value it says, the
calculation it quotes and the rows it cites: which rows each product takes, by its
own code, is what can go wrong here, the wording cannot.  The distillate and refinery
products are `Brief` with other metrics.  Averages, seasonal ranges and the z-score
are left out; values are integers, and of a rate the numerator is kept (the days are those between its inputs).

`Stale` and `Freshness` are `check_wpsr_freshness`.

### SourcePipeline

EIA publishes each week series by series after its release (`Publish`), and one thing
at a time goes wrong and is repaired (`GoWrong`, `Repair`): a value without a number, a
row that is not there, text, a row reported twice, once with and once without a
value, a revision, a truncated answer.  `Verify` is a passing `eia-verify-registry`: its
`Sample` is the newest rows of each series, each of which must have a number and a
week of its own.  `Ingest` is a successful `ingest-eia` of new content: it skips rows
without a value, refuses a second row of a week, text and truncation, and what is left
are the `rows` of the latest file.  `Reuse` is a run of content ingested before: it
returns the old run and touches nothing.  A verification or run that fails changes
nothing and is no step.  Both commands fetch one series after the other; as every series
is published by itself here, what such a run puts together is also what EIA serves at
some one moment, which is why a run is one step.

### AgentMarket

`Packs[d][t][p]` is the Evidence Pack of product `p` from the `d`-th dataset at
instant `t`, with the digest replaced by the record it is computed from; `State`, `Entry`
and `Quote` are the answers of the API at a moment: `AgentQuote` is
`quote_agent_product`, which knows of no gateway, `Quote` what `agent_quote` rewrites in
it when one is active.  Time passes (`Tick`),
datasets arrive (`Ingest`), the server restarts with other settings (`Restart`).  The
buyer polls with its ETag (`PollManifest`; a 304 changes nothing and is no step), wants
what `changed_skus_since` names and is available, and fetches one product at a time
(`Fetch`), keeping what it has when the answer is a 304.  What it keeps is named by the
moment it was made.

### DatasetStore and EvidenceContext

A *content* is all that one ingestion fetched, known by its hash.  `file[c]` is
the Parquet file of its run, `recorded` the contents with an `IngestionRunRow`,
`latest` the file with the newest mtime: files are never deleted and only the newest
counts, so the other mtimes are not kept.  An ingestion fetches (`Fetch`), ends at
once if it finds the row and the file (`Reuse`), or truncates the file
(`StartWrite`), fills it (`FinishWrite`) and writes the row (`Record`); it may die
between any two of these (`AbortIngestion`, which also stands for every `ValueError`
of a bad payload).  Raw files are written before the Parquet file, never deleted
and never read back, so they decide nothing.  `upstream` is the content EIA serves
and `week` the week the calendar expects; both are free.

A *reader* (`Arrive`) is a handler of the API, which inspects first, or a command,
which loads first.  `Inspect` and `Load` find the latest file each for itself;
`Judge` is `check_wpsr_freshness`, or `require_fresh_wpsr` for the strict kinds.
`inspect_data` is one action although it finds, reads and looks up in turn; the
module comment says why that loses nothing with one ingestion at a time.  The field
`quiet` is kept for the properties only.

### EvidencePurchase

Here evidence is only its digest and `current` changes at any step, to any digest
or to none: what `EvidenceContext` can do to a handler, and more (`MaxChanges` bounds how
often).  `PollState` and `FetchEvidence` are the buyer's calls, `TimeOut` its HTTP timeout; the thread of the
handler goes on, so a retry runs beside it.  The handler of request `r` goes
through `BuildPack` (409, 304 or an offer), `Challenge` (402) or `Settle`,
`RecordFulfillment`, `Respond`; `GatewayFails` ends it before the gateway settles,
`FulfillmentFails` after (lost or invalid receipt, protocol or requirement mismatch,
reserved headers, audit storage).  `Restart` ends all handlers and may bring other
settings: another price, no price, no gateway.

Two places of `api/app.py` decide about payment, and they are two definitions:
`Quoted` is what `agent_quote` (and with it the state) announces as payable over 402,
by `CommerceActive`; `Gated` is the evidence endpoint's own test, whose amount goes
into the `Requirement` that is verified, asked for in the 402 and written to the audit.

The payment service is external.  It is taken as weak as docs/agent-pricing.md
allows: it need know a requirement by nothing but its `ExternalId`, and when the ids are
equal may charge what the credential was obtained for or what it is presented for.  A
second settlement of one requirement charges nothing more, as docs/payment-gateways.md
demands of it.  How the buyer obtains a credential for a challenge is external too.
`charged` remembers with each settlement what the server quoted when it sent the 402,
and `served` what it quoted when it answered; both are there for the properties.

## Properties and runs

| Run | Question | Instance | States |
|---|---|---|---|
| `outbox` | all of one alert's delivery, and that it settles | 1 row, 2 workers, 3 attempts, lease 1 s, backoff 1 then 2 (capped), hints 2 (capped to 1) and 3 (overflows), lag 1, 1 requeue, fair | 343 k |
| `outbox_retry_after` | finding: `Retry-After` overflow | hints 2 and 3, range 2 | violation |
| `engine` | evaluations, overlapping or not | 2 evaluators, 2 policies, 2 datasets, 1 crash, fair | 250 k |
| `engine_duplicate` | finding: two alerts | 1 policy, 1 dataset | violation |
| `engine_lost` | finding: activation without alert | 1 policy, 3 datasets | violation |
| `evidence_store` | files, rows and readers beside dying ingestions | 2 live contents (weeks 0 and 2), 1 fixture, weeks 0 to 2, 3 kinds of readers, fair | 202 k |
| `evidence_stale` | finding: stale live evidence is served | the same | violation |
| `purchase` | paying across changes of evidence and price, retries and failures | 2 digests, 2 amounts, 3 settings, 2 changes, 2 requests, fair | 89 k |
| `pipeline` | from EIA's rows to gated reports and alerts | 3 series, weeks 0 to 3, one delayed release, 8 anomalies, 2 policies, sample of 2, 5 instants | 87 k |
| `pipeline_reuse` | finding: a verified run is not what is served | the same, 2 contents | violation |
| `market` | a buyer across changes of data, time and prices | 3 products, 4 datasets, 4 instants, 2 settings, fair | 73 k |
| `market_grace` | finding: a digest changes with the grace | the same | violation |

What they say:

- `ExclusiveWindow`, `MutualExclusion`: until its lease ends a worker finds its
  own lease in the table, and two workers are never in the window of one row,
  whatever old clock readings the claims run with.
- `OnlyTheLatestAttemptSettles`: a row in flight is settled by the worker of its
  latest attempt only.
- `BothDelaysKept`: a schedule the provider asked for is dropped only when over,
  and a failed row is taken up again only when schedule and backoff both are.
- `SendsPaidFor`: acceptances by the provider, requests still adrift and requests
  under way never exceed the claims counted: crash loops spend the budget.
- `TablesAgree`: leases only on rows in flight, schedules only on failed rows with
  attempts left, exactly one open dead letter per dead-lettered row.
- `ImplementsLedger`: the tables implement `NotificationLedger`.
- `NeverLockedOut`: whatever a dead worker left in the tables, an open row that is left
  alone is claimed or dead-lettered by any worker that looks after the longest lease,
  `Retry-After` or backoff of the policy, which run side by side.
- `EveryAlertSettles`: every open alert ends delivered or dead-lettered.
- `OneAlertPerRise`, `ActiveWasAlerted`: while no two evaluations overlap there are no
  more alerts than there were activations in the data, and each active state
  has its own, crashes between the policies included.
- `EdgeTriggered`: likewise, a step posts an alert exactly when it turns a stored state
  from inactive to active, one alert, of the instant the state then shows.
- `StateAndAlertTogether`: also when they overlap, a trigger time in the state is that
  of a posted alert.
- `StateConverges`: once no new dataset comes, the stored states settle on what
  the newest one says, overlapping or not.
- `RecordedIsReadable`: a content with a row has a whole file, so what is reused can
  be read.
- `ImplementsIngestionLedger`: files and rows implement `IngestionLedger`: a content with a
  row is whole for good, is never written again, and never comes back as the newest;
  a row is written only of the newest file, and only when that is whole.
- `QuietReadersAreGated`: a reader that finds the latest file recorded, and that no
  ingestion disturbs, serves no stale live observations and names the source of
  what it serves.  `StaleLiveNeverServed` says so of every reader, and is false.
- `StoreConverges`: a content EIA settles on, not ingested before, becomes and stays
  the latest file, whole and recorded, unless a fixture is ingested over it.
- `ServedIsAuditedIsPaid`: what left a server that quotes an amount is in the audit at
  that amount, what is in the audit was settled at it.
- `ChargedAsQuoted`: nothing is charged but evidence and amount of a 402 the buyer got
  from a server that quoted that amount then, although the price changes, and changes
  back, between the 402, the payment and its retries.
- `PaidIsReceived`: evidence that was paid for is received by asking again, once evidence
  and settings stop changing.
- `VerifiedIsServed`: a dataset ingested after a passing verification, with no anomaly
  in between, reaches the week the verification expected, although one looks at
  a sample and the other at everything, by other rules.  `VerifiedRunIsServed` says so of
  runs that reuse a content too, and is false.
- `GatedReportsAreCurrent`: of a dataset the gate lets through, every claim of brief,
  delta, facts and answers and every alert evaluation ends at the newest week that is due;
  the balance too when its flows have no gaps.
- `NotStaleWithinGrace`: a dataset with every week that is due is not called stale.
- `StaleUntilIngested`: a dataset called stale is called so until another one is
  ingested.
- `BalanceIsOfOneWeek`: levels, date and calculations of a balance watch are of one
  week, also while EIA has published the next one of some flows only.
- `ProductsAgree`: brief, delta, fact, answer, alert and balance of one dataset never
  give a series two levels or two changes, and a delta is of one week.
- `AvailabilityIsHonest`: the manifest says available exactly where the evidence endpoint
  serves.
- `OwnsWhatIsCurrent`: a buyer that gets a 304 for its manifest and has nothing left to fetch
  has the current evidence of everything on offer, whatever changed, also back and
  forth, between its polls and fetches.
- `UnchangedIsCurrent`: while its manifest is not modified, what a buyer has of a live
  product called available there ends, claim by claim, at the week that is due by now or later.  That
  rests on the digest covering the freshness verdict, the price of which is finding 6.
- `BuyerCatchesUp`: a product that stays on offer is owned in the end, as current.

*Why the bounds are enough.*  The lease protocol relates two workers at a time: a
third can only do what one of the two could have done.  Three attempts show a
backoff below its cap, one at its cap and the exhausted row; a lag of one second is
enough to carry a claim across the end of a lease, a backoff and a schedule, each of
them one or two seconds long.  One requeue starts a second budget.  A claim that scans several rows treats
each by itself but for the order; one row keeps the instance small, and the
proofs are for any set of rows.  For the evaluators, two datasets and two policies
let a condition rise, recover or stay between two policies of one evaluation; a
single policy with four datasets (match, recovery, match again and one more) was
checked in the same way and shows nothing else.  A live content before, one at the
expected week, and a fixture cover every pair of files a reader's two lookups can meet.
Two digests and two amounts let evidence and price change and change back between any
two steps, which two changes suffice for; the third setting has a price and no gateway.  Digests
and amounts are interchangeable, so the run starts with the first of each (`MCInit`).  Two
requests are a late answer and its retry, and buyers share nothing but the evidence.

The pipeline has a release on its Wednesday and one on a Thursday, and looks at
the last minute of the grace of each and the first after.  Production, refinery
input and stocks are the smallest balance; a policy also names a series that is not maintained.
Anomalies hit the newest week but one and the week before, so that they are inside and
outside the sample.  One content is enough for properties of one dataset (`MaxContents`):
what a dataset says depends on it and on the time alone; two are needed for the
reuse.  The market has a demo dataset, the week before a release, the week of it, and
a revision, and instants before the release, inside the grace, after it, and where
the week after is due; its settings price a product by override, by the fallback and
not at all, with and without a gateway.
What does not depend on interleaving depth is also proved, for all values.

*Mutants.*  Beside some definitions stands a wrong version marked "mutant", used
by nothing: put in place of the definition it breaks the property named with it
in `PROJECT.json`, so each property can fail.

## Fairness

`AlertOutbox`: time passes (`Tick`); the scheduler keeps starting workers
(`ReadClock`, `Restart`: cron or a loop, docs/alert-state.md); the adapter's timeout
ends `send` (`Return`); SQLite grants the lock in the end (`Complete`, `Claim`).  A
crash between clock and transaction disables `Claim`, so weak fairness would let
every worker die before its first transaction for ever; strong fairness says that not
all of them do.  Nothing bounds crashes while sending: the attempt counter, written
by the claim, is what ends them.

`AlertEngine`: cron keeps starting evaluations and a started one goes on (`Step`, of each
evaluator); crashes are bounded by `MaxCrashes`.

`DatasetStore`: cron keeps ingesting what EIA serves and not every ingestion dies at
the same step (strong fairness, since a death disables the next step).

`EvidencePurchase`: threads go on (`Serve`); the buyer keeps polling and asking; the
gateway, the audit and the network do not fail for ever, and not every answer of a
step comes after the buyer's timeout (strong fairness of the awaited steps).  That the
changes end is a premise of `PaidIsReceived`, not a fairness assumption.

`AgentMarket`: the buyer keeps polling and fetching, as docs/agent-manifest.md and
docs/agent-buyer.md have it do (strong fairness: settings may change for ever, so that
a changed manifest and a 304, an offer and a 409, alternate).  Nothing is assumed of
time, datasets or restarts.  `SourcePipeline` has no liveness property: nobody promises
when EIA publishes or when an operator verifies.

## What is proved

The theorems about the outbox hold for every set of rows, finite set of workers, policy, set of
provider hints, lag and number of requeues, under the assumptions named in
`AlertOutbox`: the field bounds of `DeliveryPolicy` (`PolicyAssumption`), `None`
outside the other values, finitely many workers, and `BackoffAssumption`, a fact of
arithmetic (`BaseBackoff * 2 ^ (n - 1)` is a natural number) that the provers
cannot derive because they know nothing of `^`.

- `IInvariant` proves `IInv == TypeOK /\ WorkersAgree /\ TablesAgree`.  Types alone
  are not inductive: that `attempts` stays within its budget when a claim adds one
  needs the guard of `Exhausted`; that a completion finds its worker's job needs
  `WorkersAgree`.  `TypeCorrect` and `TablesAlwaysAgree` follow, and `RetriesWait`
  (`BothDelaysKept`) is an action property proved from `IInv`.
- `FencedInvariant`, under `UniqueIds`, adds `ExclusiveWindow` and
  `LeaseOfLatestAttempt`: a lease with the id of a worker at work on its row is the
  lease of that very attempt.  It gives `LeaseWindowExclusive`,
  `LeaseMutualExclusion` and `LateWorkersAreFenced`, which fail without `UniqueIds`.
- `NobodyIsLockedOut` bounds what the tables can hold against a row by the ranges of the
  type invariant, which are part of `IInv`: no lease, schedule or backoff lasts longer than `LongestWait`.
  It is the safety half of `EveryAlertSettles`; that somebody looks is left to TLC.
- `DeliveryInvariant` adds `SendsPaidFor` and `AcceptedIsReceived` to `IInv`; it
  counts the senders of each row, so its proof goes by how each step changes that
  finite set.  `AttemptsArePaidFor` and `OutboxImplementsLedger` follow: each step
  of the outbox is a step of the ledger or a stutter.

- `ReusedCanBeRead` needs to know what the running ingestion did: the file it
  writes has no row (`Reusable` was false and rows belong to whole files), and is
  whole before its row is written.  `GateHoldsUndisturbed` adds `Undisturbed`: what a
  reader no ingestion disturbed has looked up is the source and the data of the
  file that still is the latest.  Both hold for any contents, weeks and kinds of
  readers under `StoreAssumption`; `ContextTypeCorrect` comes with them.
- `StoreImplementsLedger`: each step of a release, an ingestion or its death is a step of
  the ledger or a stutter.  The invariant says for it that from the first write to the row
  the latest file is the one the running ingestion writes.
  `PipelineImplementsLedger` says the same of `SourcePipeline`, whose runs are one step: the
  two views of an ingestion keep one promise.
- `PaidBeforeServed`, `ChargesAreAsQuoted` and `PurchaseTypeCorrect`, for any digests,
  amounts, settings, changes and set of requests: the invariant adds where each handler stands
  (`Sound`: beyond its first step it has a pack and the amount its server quotes, a
  settled one was charged for them, one that answers for an amount is in the audit) and that
  every credential was obtained at the quote of its server (`Honest`).  It needs two facts of
  the code: `GatedIsQuoted`, the endpoint enforces what the quote announces, and
  `ExternalIdIsInjective`, an external id names one requirement.

- About `AlertEngine`, for any number of policies, evaluators, datasets and crashes.
  `EngineTypeCorrect`: `Inv` adds to the types what an evaluation under way has in its
  locals (`Prepared`).  `OneTransaction` adds `ReadTogether`: the trigger time in what an
  evaluation has read is that of an alert posted before, so whichever columns its
  UPDATE writes or leaves out, the row keeps a trigger time of a posted alert.
  `AlertsArePaidByRises` and `ActiveIsExplained` rest on `SerialInv`, which speaks of the
  time before a first overlap: at most one evaluation is under way and what it has read still
  stands (`Alone`); a condition that holds and is not stored as active has a rise no
  alert was posted for (`Counted`); and the same of the older dataset that an evaluation
  under way still judges by (`Pending`), because conditions may fall and rise
  before it commits.
  `AlertsAreEdges` rests on the same invariant: what `Alone` says an evaluation has read is
  the stored row, so a commit sees the edge it acts on.
- About `ReleaseCalendar`, for any overrides and any grace.  `ExpectedNeverGoesBack`: a
  week due stays due, also when a later release is delayed.  `PromptReleasesResolve`:
  releases that come, with their grace, before the next Friday, as all of 2026
  do, always leave an expected week, at most one behind the last Friday.
- About `SourcePipeline`, for any series, weeks, calendar that resolves, sample length and
  anomalies.  `VerifiedRunReaches` needs `StillCovered`: each WPSR series of what EIA serves
  has a row with a value at the verified week or later, which publishing and repairs keep
  and an anomaly ends together with the verification.  `StaleStays` follows from
  `ExpectedNeverGoesBack`; `GraceIsHonoured` from the expected week being due.
  `GatedIsCurrent`, `BalanceKeepsToItsWeek` and `ProductsAlwaysAgree` are about what the
  operators of `PetroleumReports` make of any rows: that the rows are the observations of a
  possible content is all they need of the type invariant.  The newest of the weeks a series has, and the
  newest week common to the flows, are maxima of bounded sets of integers
  (`IntervalHasMax`, by the well-foundedness of the naturals); each product takes its
  rows by its own code, and the lemmas say for each which week that is.
  `PipelineAssumption` has policies that have conditions, as `AlertPolicy` demands.
  `OnlyAcceptedIsServed`: what is served always has a series to report on, which is what
  `AgentMarket` assumes of its datasets.
- About `AgentMarket`, for any catalog, sequence of datasets, instants and settings.
  `ManifestIsEnough` needs `Settled`: of a product that was available when the buyer
  polled and that it no longer wants, it has the pack of some moment since.  That this is the current pack
  when the manifest has not changed is `SameInBetween`: the expected week is in the
  digest and never goes back, so evidence cannot change and change back between two
  moments at which it is the same.  `ManifestIsHonest` and `MarketTypeCorrect` come
  with it.  `UnchangedMeansCurrent` joins the components: what is owned is what is served now
  (the buyer), what is served passed the gate (the endpoint), what passed reaches the expected week in every
  series (the calendar), and every claim ends at the last row of a series or the week of the
  balance (the reports, by the lemmas `SourcePipelineProofs` uses).

Model-checked only: liveness (`EveryAlertSettles`, `StateConverges`,
`StoreConverges`, `PaidIsReceived`, `BuyerCatchesUp`), which is out of the provers' reach.
Every other property of a passing run is a theorem; those of the runs that expect a violation
are false.

## Findings

1. Two evaluations of one dataset can both enqueue an alert (`engine_duplicate`).
2. An overtaken evaluation can make a state active without any alert; the next
   match is then suppressed (`engine_lost`).
3. A `Retry-After` beyond the range of `datetime` ends the worker process before
   the one-day cap is applied (`outbox_retry_after`); each such attempt still
   counts, so the row is dead-lettered in the end.
4. Between `write_parquet` and `save_ingestion_run`, and for as long as a crash there
   lasts, live observations have no provenance and pass the freshness gate as not
   applicable (`evidence_stale`); the two lookups of a reader can do the same.
5. A run that reuses a content ingested before does not make it the latest.  When EIA
   withdraws a value and restores it, and a run ingested what was in between, the registry
   verifies, `ingest-eia` succeeds, and the dataset without the value stays served, or
   refused as stale (`pipeline_reuse`).
6. The evidence digest covers the freshness verdict with its expected week.  A week
   ingested within the API grace gets a new digest when the grace ends, with the
   same claims, observations and source: the manifest reports a change, and the buyer is
   asked to pay again for what it has (`market_grace`).  docs/agent-products.md:214 lists
   the freshness in the digest; :246 there and docs/agent-fact-products.md:107 say that it
   stays: the documents disagree with each other, and the code is with the first.

## Not modelled, and limits

- One ingestion runs at a time, as in the crontab of the repository's README.  The
  code does not enforce it: the second of two overlapping ingestions of one
  content truncates a file the first has recorded.
- A reused content is not touched: after a fixture, or when EIA withdraws a
  revision, the latest file stays the other one.  `StoreConverges` excludes this.
- When the evidence or the price changes after a settlement and before the retry, the paid
  requirement is not offered again, and the buyer pays the new one.  `PaidIsReceived`
  excludes the first and allows the second.  The client compares the pack, not the
  challenge, with the digest it saw in the state, and never the amount: a buyer that polled
  the state before a restart pays what the 402 asks, not what the state quoted.
- The catalog (`agent_catalog`), which repeats the price in its list, keeps nothing and is not
  polled by the loop of docs/agent-manifest.md.
- Each worker process has a worker id of its own, as `default_worker_id` gives it.
  `--worker-id` lets two processes share one, as an example in docs/alert-state.md may suggest;
  the lease check compares the id, not the claim, so a late worker could then settle
  the attempt of its namesake, and the exclusion theorems assume `UniqueIds`.
- A flow with a gap at the week that is due and a row of the next one passes the
  gate, which asks for the newest row only, and moves the crude balance back to an older
  week.  `GatedReportsAreCurrent` excludes flows with gaps.
- A year-ago comparison needs a year of weeks, more than the runs have; `YearAgo` is
  empty in them.
- `AgentMarket` lets datasets arrive in one order, and settings change freely.  A buyer
  that was offered something, then not, then again, is served what is current then.
- The pilot gateway (a fixed key, nothing settled), conditional state polls of the
  buyer, signatures, the commercial discovery document.
- All workers run under one `DeliveryPolicy`; clocks of one host are monotone;
  one SQLite database (the deployment boundary of docs/alert-state.md).
- `limit` of `flush_alert_outbox`: a worker may crash or idle after any turn, so any
  limit is covered.
- Texts (`last_error`, `reason`), payloads, adapter names, receipts, the console
  adapter (a `send` that succeeds), and queries that change nothing.
- `save_alert_state`, `save_alert_outbox` and `save_report_run`, which the program
  never calls.
- Averages, seasonal ranges, z-scores, decimal formatting, renderers, frontend.

## Plan

The components that keep state, and the functions between them that decide what is
served and sold, are modelled.  What would come next:

1. Overlapping ingestions in `DatasetStore`, with the weaker promise they keep.
2. A proof that `EvidencePurchase` abstracts the evidence endpoint over `AgentMarket`.
3. The balance with gaps in its flows: which week the gate would have to ask for.

The project runs its checks as few and broad runs; new questions join the run of
the module they extend.
