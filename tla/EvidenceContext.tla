----------------------------- MODULE EvidenceContext ----------------------------
(***************************************************************************)
(* A reader of the data directory while ingestions run: the API's          *)
(* current_evidence_context and its state, manifest and readiness handlers *)
(* (api/app.py), the report, freshness and alerts-evaluate commands        *)
(* (cli.py).  A reader finds the latest file twice, once for its           *)
(* provenance (inspect_data) and once for its observations                 *)
(* (load_latest_observations), and judges their freshness (freshness.py).  *)
(*                                                                         *)
(* Readers write nothing, so one at a time is enough.  Inside inspect_data *)
(* the file is found, read and its row looked up in turn; with one         *)
(* ingestion at a time every outcome of that is also the outcome of some   *)
(* instant, because a file is the latest at every step of its ingestion.   *)
(*                                                                         *)
(* A definition marked "mutant" is a wrong version of the one that follows *)
(* it and is used by nothing: replacing that one by it breaks a property.  *)
(***************************************************************************)
EXTENDS DatasetStore

CONSTANTS
    InspectFirst,   \* kinds of readers that inspect first (the API's)
    LoadFirst,      \* kinds of readers that load first (the commands)
    Strict          \* those that refuse stale observations

ASSUME ReaderAssumption ==
    /\ InspectFirst \cap LoadFirst = {}
    /\ Strict \subseteq InspectFirst \cup LoadFirst

VARIABLE reader     \* the reader, or None

vars == <<store, reader>>

Kinds  == InspectFirst \cup LoadFirst
Unread == "unread"

Init == StoreInit /\ reader = None

(* `quiet`, which the code does not keep, says that the latest file had    *)
(* its provenance when the reader came and no ingestion wrote since.       *)
Arrive(kind) ==
    /\ reader = None
    /\ reader' = [kind |-> kind, source |-> Unread, data |-> Unread,
                  verdict |-> Unread, week |-> None, quiet |-> latest \in recorded]
    /\ UNCHANGED store

Reading == reader # None /\ reader.verdict = Unread

Provenance == IF latest \in recorded THEN Source(latest) ELSE None

InspectsNext ==
    /\ Reading
    /\ reader.source = Unread
    /\ reader.kind \in LoadFirst => reader.data # Unread

LoadsNext ==
    /\ Reading
    /\ reader.data = Unread
    /\ reader.kind \in InspectFirst => reader.source # Unread

Torn == latest # None /\ file[latest] = "torn"

(* inspect_data: without files there is no source, and no error yet. *)
Inspect ==
    /\ InspectsNext
    /\ ~Torn
    /\ reader' = [reader EXCEPT !.source = Provenance]
    /\ UNCHANGED store

(* load_latest_observations *)
Load ==
    /\ LoadsNext
    /\ latest # None
    /\ ~Torn
    /\ reader' = [reader EXCEPT !.data = latest]
    /\ UNCHANGED store

(* read_parquet raises on a torn file, latest_parquet without any file: *)
(* the request or the command fails.                                    *)
FailReading ==
    /\ \/ (InspectsNext \/ LoadsNext) /\ Torn
       \/ LoadsNext /\ latest = None
    /\ reader' = None
    /\ UNCHANGED store

StaleWhenOlderThanLast(c) == Covers[c] < week - 1                         \* mutant
(* Some weekly series of the content ends before the expected week. *)
Stale(c) == Covers[c] < week

(* check_wpsr_freshness: the gate is for live provenance only.  Fixtures   *)
(* cite api.eia.gov too, so their rows would be judged like live ones.     *)
Verdict(source, c) ==
    IF source # "eia:v2" THEN "not_applicable"
    ELSE IF Stale(c) THEN "stale" ELSE "fresh"

(* require_fresh_wpsr raises for strict readers. *)
Judge ==
    /\ Reading
    /\ Unread \notin {reader.source, reader.data}
    /\ LET verdict == Verdict(reader.source, reader.data)
       IN  reader' = IF verdict = "stale" /\ reader.kind \in Strict
                     THEN None
                     ELSE [reader EXCEPT !.verdict = verdict, !.week = week]
    /\ UNCHANGED store

(* The response, the report or the alert evaluation is made of it. *)
Leave ==
    /\ reader # None
    /\ reader.verdict # Unread
    /\ reader' = None
    /\ UNCHANGED store

Read == (\E kind \in Kinds : Arrive(kind)) \/ Inspect \/ Load \/ FailReading
        \/ Judge \/ Leave

(* What an ingestion writes is what a reader may be surprised by. *)
Ingest ==
    /\ StoreNext
    /\ reader' = IF reader # None /\ <<file, latest, recorded>>' # <<file, latest, recorded>>
                 THEN [reader EXCEPT !.quiet = FALSE]
                 ELSE reader

Next == Ingest \/ Read

Spec == Init /\ [][Next]_vars /\ StoreFairness

--------------------------------------------------------------------------------
(* Properties. *)

TypeOK ==
    /\ StoreTypeOK
    /\ reader \in {None} \cup
        [kind    : Kinds,
         source  : {Unread, None, "eia:v2", "fixture:eia"},
         data    : {Unread} \cup Contents,
         verdict : {Unread, "not_applicable", "fresh", "stale"},
         week    : {None} \cup 0..LastWeek,
         quiet   : BOOLEAN]

Served == reader # None /\ reader.verdict # Unread /\ reader.kind \in Strict

(* The freshness gate fails closed (README.md: "report, Q&A, alert, and    *)
(* agent Evidence Pack paths fail closed when the latest weekly evidence   *)
(* trails the expected WPSR week"): live observations that trail the week  *)
(* expected when they were judged are never served.                        *)
StaleLiveNeverServed ==
    Served /\ reader.data \in Live => Covers[reader.data] >= reader.week

(* The same for readers that no ingestion disturbs and that come when the  *)
(* latest file has its provenance; and these name the source of what they  *)
(* serve, in whichever order they look it up.                              *)
QuietReadersAreGated ==
    Served /\ reader.quiet =>
        /\ StaleLiveNeverServed
        /\ reader.source = Source(reader.data)
================================================================================
