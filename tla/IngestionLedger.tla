---------------------------- MODULE IngestionLedger ----------------------------
(***************************************************************************)
(* What the data directory promises about the contents ingested into it,   *)
(* without the steps of an ingestion, its death or what EIA serves         *)
(* meanwhile.  A content whose run is recorded is ingested for good: its   *)
(* file is whole, is never written again and, once another is newer, never *)
(* becomes the newest again.  A run is recorded only of the newest file    *)
(* and only when that is whole (docs/data-provenance.md: "Re-ingesting the *)
(* same payload reuses the existing normalized artifact").  Nothing is     *)
(* promised of a file without a recorded run.                              *)
(* DatasetStore and SourcePipeline implement this specification.           *)
(***************************************************************************)
CONSTANTS
    Contents,   \* what can be ingested
    None        \* no file yet

VARIABLES
    newest,     \* the content of the newest file, or None
    whole,      \* contents whose file is complete
    recorded    \* contents whose run is recorded

vars == <<newest, whole, recorded>>

Init ==
    /\ newest = None
    /\ whole = {}
    /\ recorded = {}

(* An ingestion opens the file of its content. *)
Open(c) ==
    /\ c \notin recorded
    /\ newest' = c
    /\ whole' = whole \ {c}
    /\ UNCHANGED recorded

Complete ==
    /\ newest \in Contents \ recorded
    /\ whole' = whole \cup {newest}
    /\ UNCHANGED <<newest, recorded>>

Record ==
    /\ newest \in whole
    /\ recorded' = recorded \cup {newest}
    /\ UNCHANGED <<newest, whole>>

(* The three as one, for who looks only between the ingestions. *)
Ingest(c) ==
    /\ c \notin recorded
    /\ newest' = c
    /\ whole' = whole \cup {c}
    /\ recorded' = recorded \cup {c}

Next == Complete \/ Record \/ \E c \in Contents : Open(c) \/ Ingest(c)

Spec == Init /\ [][Next]_vars
================================================================================
