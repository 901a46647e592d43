------------------------------ MODULE DatasetStore ------------------------------
(***************************************************************************)
(* The data directory: one Parquet file and one provenance row             *)
(* (IngestionRunRow) per ingested content.  An ingestion, live             *)
(* (ingest_registry in data_ingestion/live.py) or from a fixture           *)
(* (ingest_csv in data_ingestion/fixtures.py), is keyed by the hash of     *)
(* what it fetched; it writes the file in place, then the row, without a   *)
(* transaction around both, and may die at any point.  Readers find the    *)
(* file with the newest mtime by themselves (storage/datasets.py).         *)
(*                                                                         *)
(* Files are never deleted, so of the mtimes only the newest matters:      *)
(* `latest` is the file last touched.  One ingestion runs at a time.       *)
(*                                                                         *)
(* A definition marked "mutant" is a wrong version of the one that follows *)
(* it and is used by nothing: replacing that one by it breaks a property.  *)
(***************************************************************************)
EXTENDS Integers, FiniteSets

CONSTANTS
    Live,           \* bound: the contents EIA serves, in any order
    Fixtures,       \* contents of fixture files
    Covers,         \* the week all live series of a content reach
    LastWeek,       \* bound: weeks that come to be expected
    None            \* no file, no row, no ingestion

Contents == Live \cup Fixtures

ASSUME StoreAssumption ==
    /\ Live # {}
    /\ Live \cap Fixtures = {}
    /\ None \notin Contents
    /\ LastWeek \in Nat
    /\ Covers \in [Contents -> 0..LastWeek]

VARIABLES
    upstream,       \* the content EIA serves now
    week,           \* the week the release calendar expects now
    file,           \* the Parquet file of each content: absent, torn or whole
    latest,         \* the file with the newest mtime, or None
    recorded,       \* contents with an IngestionRunRow
    ingestion       \* content and step of the running ingestion, or None

store == <<upstream, week, file, latest, recorded, ingestion>>

SourceUnversioned(c) == IF c \in Live THEN "eia" ELSE "fixture:eia"        \* mutant
Source(c) == IF c \in Live THEN "eia:v2" ELSE "fixture:eia"
At(step)  == ingestion # None /\ ingestion.step = step

--------------------------------------------------------------------------------
StoreInit ==
    /\ upstream \in Live
    /\ week = 0
    /\ file = [c \in Contents |-> "absent"]
    /\ latest = None
    /\ recorded = {}
    /\ ingestion = None

(* EIA publishes a week or a revision, or takes a revision back. *)
Release ==
    /\ \E c \in Live \ {upstream} : upstream' = c
    /\ UNCHANGED <<week, file, latest, recorded, ingestion>>

(* Time passes the release of a week and its grace. *)
NewWeek ==
    /\ week < LastWeek
    /\ week' = week + 1
    /\ UNCHANGED <<upstream, file, latest, recorded, ingestion>>

(* The payloads are fetched, or the fixture read, and hashed. *)
Fetch(c) ==
    /\ ingestion = None
    /\ ingestion' = [content |-> c, step |-> "fetched"]
    /\ UNCHANGED <<upstream, week, file, latest, recorded>>

ReusableFile(c) == file[c] # "absent"                                     \* mutant
Reusable(c) == c \in recorded /\ file[c] # "absent"

(* The same content again: the result says reused, nothing is touched. *)
Reuse ==
    /\ At("fetched")
    /\ Reusable(ingestion.content)
    /\ ingestion' = None
    /\ UNCHANGED <<upstream, week, file, latest, recorded>>

TouchedFirst(c) == IF latest = None THEN c ELSE latest                    \* mutant
Touched(c) == c

StartWriteRecorded ==                                                     \* mutant
    /\ At("fetched")
    /\ ~Reusable(ingestion.content)
    /\ file' = [file EXCEPT ![ingestion.content] = "torn"]
    /\ latest' = Touched(ingestion.content)
    /\ recorded' = recorded \cup {ingestion.content}
    /\ ingestion' = [ingestion EXCEPT !.step = "writing"]
    /\ UNCHANGED <<upstream, week>>
StartWriteAnyway ==                                                       \* mutant
    /\ At("fetched")
    /\ file' = [file EXCEPT ![ingestion.content] = "torn"]
    /\ latest' = Touched(ingestion.content)
    /\ ingestion' = [ingestion EXCEPT !.step = "writing"]
    /\ UNCHANGED <<upstream, week, recorded>>
(* write_parquet truncates the file ... *)
StartWrite ==
    /\ At("fetched")
    /\ ~Reusable(ingestion.content)
    /\ file' = [file EXCEPT ![ingestion.content] = "torn"]
    /\ latest' = Touched(ingestion.content)
    /\ ingestion' = [ingestion EXCEPT !.step = "writing"]
    /\ UNCHANGED <<upstream, week, recorded>>

(* ... fills it and touches it last when it closes it. *)
FinishWrite ==
    /\ At("writing")
    /\ file' = [file EXCEPT ![ingestion.content] = "whole"]
    /\ latest' = Touched(ingestion.content)
    /\ ingestion' = [ingestion EXCEPT !.step = "written"]
    /\ UNCHANGED <<upstream, week, recorded>>

(* save_ingestion_run *)
Record ==
    /\ At("written")
    /\ recorded' = recorded \cup {ingestion.content}
    /\ ingestion' = None
    /\ UNCHANGED <<upstream, week, file, latest>>

(* The command is killed, or a write fails: what is on disk stays. *)
AbortIngestion ==
    /\ ingestion # None
    /\ ingestion' = None
    /\ UNCHANGED <<upstream, week, file, latest, recorded>>

FetchAny == Fetch(upstream) \/ \E c \in Fixtures : Fetch(c)

StoreNext ==
    \/ Release \/ NewWeek
    \/ FetchAny \/ Reuse \/ StartWrite \/ FinishWrite \/ Record
    \/ AbortIngestion

(* Cron keeps ingesting what EIA serves, and not every ingestion dies. *)
StoreFairness ==
    /\ SF_store(Fetch(upstream))
    /\ WF_store(Reuse)
    /\ SF_store(StartWrite) /\ SF_store(FinishWrite) /\ SF_store(Record)

--------------------------------------------------------------------------------
(* Properties. *)

Steps == {"fetched", "writing", "written"}

StoreTypeOK ==
    /\ upstream \in Live
    /\ week \in 0..LastWeek
    /\ file \in [Contents -> {"absent", "torn", "whole"}]
    /\ latest \in Contents \cup {None}
    /\ recorded \subseteq Contents
    /\ ingestion \in [content : Contents, step : Steps] \cup {None}

(* A run with a provenance row has a whole file, whatever dies when: what  *)
(* a later ingestion reuses can be read (ingest_registry: "if existing and *)
(* raw_dir.exists() and parquet_path.exists()").                           *)
RecordedIsReadable == \A c \in recorded : file[c] = "whole"

(* The directory as who comes later relies on it: whatever dies when, a    *)
(* content with a row is never written or made the newest again, and a row *)
(* is written only for the newest file and only when that is whole         *)
(* (docs/data-provenance.md: "Re-ingesting the same payload reuses the     *)
(* existing normalized artifact instead of duplicating rows").             *)
Ledger == INSTANCE IngestionLedger WITH
    newest <- latest,
    whole <- {c \in Contents : file[c] = "whole"}

ImplementsIngestionLedger == Ledger!Spec

(* Once EIA settles on a content that was not ingested before, and no      *)
(* fixture is ingested over it, the latest file becomes and stays that     *)
(* content, whole and with its provenance, although ingestions die and     *)
(* leave torn or unrecorded files as the latest.  A content ingested       *)
(* before is reused without being touched and need not become the latest   *)
(* again (docs/eia-setup.md: "If the same registry and source payloads are *)
(* seen again, the normalized dataset is reused deterministically").       *)
StoreConverges == \A c \in Live :
    (/\ <>[](upstream = c)
     /\ [](latest \notin Fixtures /\ (c \in recorded => upstream = c)))
        => <>[](latest = c /\ c \in recorded /\ file[c] = "whole")
================================================================================
