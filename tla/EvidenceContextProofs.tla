-------------------------- MODULE EvidenceContextProofs -------------------------
(***************************************************************************)
(* For any contents, weeks and kinds of readers, and whatever dies when: a *)
(* run with a provenance row has a whole file, and a reader no ingestion   *)
(* disturbs is gated.  The first invariant says what the running ingestion *)
(* may have done to the file it writes: it is torn only before its row is  *)
(* there, whole before the row is written, and the latest from the first   *)
(* write on; with it the directory implements IngestionLedger.  The second *)
(* says what a reader undisturbed so far knows: the source and the data of *)
(* the one file that is still the latest.                                  *)
(***************************************************************************)
EXTENDS EvidenceContext, TLAPS

IngestionInPlace ==
    /\ At("writing") => ingestion.content \notin recorded
    /\ At("written") => file[ingestion.content] = "whole"
    /\ At("writing") \/ At("written") => latest = ingestion.content

IInv == StoreTypeOK /\ RecordedIsReadable /\ IngestionInPlace

LEMMA InitInPlace == StoreInit => IInv
BY StoreAssumption
   DEF StoreInit, IInv, StoreTypeOK, RecordedIsReadable, IngestionInPlace, At, Contents

(* A content being written is not reusable, so it has no row. *)
LEMMA WrittenAnew ==
    ASSUME IInv, NEW c \in Contents, ~Reusable(c)
    PROVE  c \notin recorded
BY DEF IInv, RecordedIsReadable, Reusable

LEMMA NextInPlace == IInv /\ [StoreNext]_store => IInv'
<1> SUFFICES ASSUME IInv, [StoreNext]_store PROVE IInv'
  OBVIOUS
<1> USE StoreAssumption DEF IInv, StoreTypeOK
<1>0. ingestion # None =>
        ingestion \in [content : Contents, step : Steps]
  OBVIOUS
<1>1. CASE UNCHANGED store
  BY <1>1 DEF RecordedIsReadable, IngestionInPlace, At, store
<1>2. CASE Release \/ NewWeek
  BY <1>2 DEF Release, NewWeek, RecordedIsReadable, IngestionInPlace, At
<1>3. CASE FetchAny
  <2>1. PICK c \in Contents : Fetch(c)
    BY <1>3 DEF FetchAny, Contents
  <2>2. QED
    BY <2>1 DEF Fetch, RecordedIsReadable, IngestionInPlace, At, Steps
<1>4. CASE Reuse \/ AbortIngestion
  BY <1>4 DEF Reuse, AbortIngestion, RecordedIsReadable, IngestionInPlace, At
<1>5. CASE StartWrite
  <2>1. ingestion.content \in Contents /\ ingestion.content \notin recorded
    BY <1>0, <1>5, WrittenAnew DEF StartWrite, At
  <2>2. StoreTypeOK'
    BY <1>0, <1>5, <2>1 DEF StartWrite, At, Touched, Steps
  <2>3. RecordedIsReadable'
    BY <1>5, <2>1 DEF StartWrite, RecordedIsReadable
  <2>4. IngestionInPlace'
    BY <1>0, <1>5, <2>1 DEF StartWrite, IngestionInPlace, At, Touched
  <2>5. QED
    BY <2>2, <2>3, <2>4
<1>6. CASE FinishWrite
  <2>1. ingestion.content \in Contents
    BY <1>0, <1>6 DEF FinishWrite, At
  <2>2. StoreTypeOK'
    BY <1>0, <1>6, <2>1 DEF FinishWrite, At, Touched, Steps
  <2>3. RecordedIsReadable'
    BY <1>6, <2>1 DEF FinishWrite, RecordedIsReadable
  <2>4. IngestionInPlace'
    BY <1>0, <1>6, <2>1 DEF FinishWrite, IngestionInPlace, At, Touched
  <2>5. QED
    BY <2>2, <2>3, <2>4
<1>7. CASE Record
  <2>1. ingestion.content \in Contents /\ file[ingestion.content] = "whole"
    BY <1>0, <1>7 DEF Record, At, IngestionInPlace
  <2>2. QED
    BY <1>7, <2>1 DEF Record, RecordedIsReadable, IngestionInPlace, At
<1>8. QED
  BY <1>1, <1>2, <1>3, <1>4, <1>5, <1>6, <1>7 DEF StoreNext

LEMMA ReadersWriteNothing == [Next]_vars => [StoreNext]_store
BY DEF Next, Ingest, Read, Arrive, Inspect, Load, FailReading, Judge, Leave, vars, store

(* What a later ingestion reuses can be read: a row is written only after  *)
(* its file, and a file with a row is not written again                    *)
(* (ingest_registry and ingest_csv).                                       *)
THEOREM ReusedCanBeRead == Spec => []RecordedIsReadable
<1>1. Init => IInv
  BY InitInPlace DEF Init
<1>2. IInv /\ [Next]_vars => IInv'
  BY NextInPlace, ReadersWriteNothing
<1>3. IInv => RecordedIsReadable
  BY DEF IInv
<1>4. QED
  BY <1>1, <1>2, <1>3, PTL DEF Spec

--------------------------------------------------------------------------------
(* The ledger. *)

Whole == {c \in Contents : file[c] = "whole"}

LEMMA LedgerInit == Init => Ledger!Init
BY StoreAssumption DEF Init, StoreInit, Ledger!Init

(* What the two writes of a file do to the set of whole files. *)
LEMMA WholeWithout ==
    ASSUME StoreTypeOK, NEW c \in Contents, file' = [file EXCEPT ![c] = "torn"]
    PROVE  Whole' = Whole \ {c}
BY DEF Whole, StoreTypeOK

LEMMA WholeWith ==
    ASSUME StoreTypeOK, NEW c \in Contents, file' = [file EXCEPT ![c] = "whole"]
    PROVE  Whole' = Whole \cup {c}
BY DEF Whole, StoreTypeOK

LEMMA LedgerStep == IInv /\ [StoreNext]_store => [Ledger!Next]_(Ledger!vars)
<1> SUFFICES ASSUME IInv, [StoreNext]_store PROVE [Ledger!Next]_(Ledger!vars)
  OBVIOUS
<1>0. ASSUME ingestion # None PROVE ingestion.content \in Contents
  BY <1>0 DEF IInv, StoreTypeOK
<1>1. CASE UNCHANGED <<file, latest, recorded>>
  BY <1>1 DEF Ledger!vars
<1>2. CASE StartWrite
  <2>1. PICK c \in Contents : c = ingestion.content
    BY <1>0, <1>2 DEF StartWrite, At
  <2>2. c \notin recorded
    BY <1>2, <2>1, WrittenAnew DEF StartWrite
  <2>3. Whole' = Whole \ {c}
    BY <1>2, <2>1, WholeWithout DEF StartWrite, IInv
  <2>4. Ledger!Open(c)
    BY <1>2, <2>1, <2>2, <2>3 DEF StartWrite, Touched, Ledger!Open, Whole
  <2> QED BY <2>4 DEF Ledger!Next
<1>3. CASE FinishWrite
  <2> DEFINE c == ingestion.content
  <2>1. c \in Contents /\ c \notin recorded /\ latest = c
    BY <1>0, <1>3 DEF FinishWrite, At, IInv, IngestionInPlace
  <2>2. Whole' = Whole \cup {c}
    BY <1>3, <2>1, WholeWith DEF FinishWrite, IInv
  <2>3. Ledger!Complete
    BY <1>3, <2>1, <2>2 DEF FinishWrite, Touched, Ledger!Complete, Whole
  <2> QED BY <2>3 DEF Ledger!Next
<1>4. CASE Record
  <2> DEFINE c == ingestion.content
  <2>1. c \in Contents /\ latest = c /\ file[c] = "whole"
    BY <1>0, <1>4 DEF Record, At, IInv, IngestionInPlace
  <2>2. Ledger!Record
    BY <1>4, <2>1 DEF Record, Ledger!Record
  <2> QED BY <2>2 DEF Ledger!Next
<1> QED BY <1>1, <1>2, <1>3, <1>4
        DEF StoreNext, Release, NewWeek, FetchAny, Fetch, Reuse, AbortIngestion, store

(* For any contents and whatever ingestions die at which step, the data    *)
(* directory keeps the ledger: who finds a row can rely on its file for    *)
(* good, and a row is written only for the newest file, whole              *)
(* (ingest_registry and ingest_csv).                                       *)
THEOREM StoreImplementsLedger == Spec => ImplementsIngestionLedger
<1>1. Init => IInv
  BY InitInPlace DEF Init
<1>2. IInv /\ [Next]_vars => IInv'
  BY NextInPlace, ReadersWriteNothing
<1>3. IInv /\ [Next]_vars => [Ledger!Next]_(Ledger!vars)
  BY LedgerStep, ReadersWriteNothing
<1>4. QED
  BY LedgerInit, <1>1, <1>2, <1>3, PTL DEF Spec, ImplementsIngestionLedger, Ledger!Spec

--------------------------------------------------------------------------------
(* The reader. *)

Undisturbed ==
    reader # None /\ reader.quiet =>
        /\ latest \in recorded
        /\ reader.source \in {Unread, Source(latest)}
        /\ reader.data \in {Unread, latest}
        /\ reader.verdict # Unread =>
            /\ reader.source = Source(latest) /\ reader.data = latest
            /\ reader.kind \in Strict /\ latest \in Live =>
                Covers[latest] >= reader.week

RInv == IInv /\ TypeOK /\ Undisturbed

LEMMA IngestUndisturbed == RInv /\ Ingest => (TypeOK /\ Undisturbed)'
<1> SUFFICES ASSUME RInv, Ingest PROVE (TypeOK /\ Undisturbed)'
  OBVIOUS
<1>1. StoreTypeOK'
  BY NextInPlace DEF RInv, Ingest, IInv
<1>2. CASE reader' = reader
  <2>1. reader # None /\ reader.quiet => <<latest, recorded>>' = <<latest, recorded>>
    BY <1>2 DEF Ingest, RInv, TypeOK
  <2>2. QED
    BY <1>1, <1>2, <2>1 DEF RInv, TypeOK, Undisturbed, Source
<1>3. CASE reader # None /\ reader' = [reader EXCEPT !.quiet = FALSE]
  BY <1>1, <1>3 DEF RInv, TypeOK, Undisturbed
<1>4. QED
  BY <1>2, <1>3 DEF Ingest

LEMMA ReadUndisturbed == RInv /\ Read => (TypeOK /\ Undisturbed)'
<1> SUFFICES ASSUME RInv, Read PROVE (TypeOK /\ Undisturbed)'
  OBVIOUS
<1>1. UNCHANGED store /\ StoreTypeOK /\ StoreTypeOK'
  BY DEF RInv, TypeOK, Read, Arrive, Inspect, Load, FailReading, Judge, Leave,
         store, StoreTypeOK
<1>2. ASSUME NEW kind \in Kinds, Arrive(kind) PROVE (TypeOK /\ Undisturbed)'
  <2> DEFINE quiet == latest \in recorded
  <2>1. quiet \in BOOLEAN
    OBVIOUS
  <2> HIDE DEF quiet
  <2>2. reader' = [kind |-> kind, source |-> Unread, data |-> Unread,
                   verdict |-> Unread, week |-> None, quiet |-> quiet]
    BY <1>2 DEF Arrive, quiet
  <2>3. TypeOK'
    BY <1>1, <1>2, <2>1, <2>2 DEF TypeOK
  <2>4. reader'.quiet = quiet /\ reader'.source = Unread
        /\ reader'.data = Unread /\ reader'.verdict = Unread
    BY <2>2
  <2>5. quiet => latest' \in recorded'
    BY <1>1 DEF quiet, store
  <2>6. Undisturbed'
    BY <2>4, <2>5 DEF Undisturbed
  <2>7. QED
    BY <2>3, <2>6
<1>3. CASE Inspect
  <2>1. Provenance \in {None, "eia:v2", "fixture:eia"}
    BY DEF Provenance, Source
  <2>2. TypeOK'
    BY <1>1, <1>3, <2>1 DEF Inspect, InspectsNext, Reading, TypeOK, RInv
  <2>3. Undisturbed'
    BY <1>1, <1>3 DEF Inspect, InspectsNext, Reading, Undisturbed, Provenance,
                      RInv, TypeOK, Source, store
  <2>4. QED
    BY <2>2, <2>3
<1>4. CASE Load
  <2>1. latest \in Contents
    BY <1>1, <1>4 DEF Load, StoreTypeOK
  <2>2. TypeOK'
    BY <1>1, <1>4, <2>1 DEF Load, LoadsNext, Reading, TypeOK, RInv
  <2>3. Undisturbed'
    BY <1>1, <1>4 DEF Load, LoadsNext, Reading, Undisturbed, RInv, TypeOK, Source, store
  <2>4. QED
    BY <2>2, <2>3
<1>5. CASE FailReading \/ Leave
  BY <1>1, <1>5 DEF FailReading, Leave, TypeOK, Undisturbed
<1>6. CASE Judge
  <2> DEFINE verdict == Verdict(reader.source, reader.data)
  <2>1. CASE reader' = None
    BY <1>1, <2>1 DEF TypeOK, Undisturbed
  <2>2. CASE /\ ~(verdict = "stale" /\ reader.kind \in Strict)
             /\ reader' = [reader EXCEPT !.verdict = verdict, !.week = week]
    <3>1. TypeOK'
      BY <1>1, <1>6, <2>2
         DEF Judge, Reading, Verdict, TypeOK, StoreTypeOK, RInv
    <3>2. ASSUME reader.quiet
          PROVE  /\ reader.source = Source(latest) /\ reader.data = latest
                 /\ latest \in recorded
      BY <1>6, <3>2 DEF Judge, Reading, RInv, Undisturbed
    <3>3. ASSUME reader.quiet, reader.kind \in Strict, latest \in Live
          PROVE  Covers[latest] >= week
      <4>1. ~Stale(latest)
        BY <2>2, <3>2, <3>3 DEF Verdict, Source
      <4>2. Covers[latest] \in Nat /\ week \in Nat
        BY <1>1, <3>3, StoreAssumption DEF StoreTypeOK, Contents
      <4>3. QED
        BY <4>1, <4>2 DEF Stale
    <3>4. /\ reader'.quiet = reader.quiet /\ reader'.source = reader.source
          /\ reader'.data = reader.data /\ reader'.kind = reader.kind
          /\ reader'.week = week
      BY <1>6, <2>2 DEF Judge, Reading, RInv, TypeOK
    <3>5. Undisturbed'
      BY <1>1, <3>2, <3>3, <3>4 DEF Undisturbed, Source, store
    <3>6. QED
      BY <3>1, <3>5
  <2>3. QED
    BY <1>6, <2>1, <2>2 DEF Judge
<1>7. QED
  BY <1>2, <1>3, <1>4, <1>5, <1>6 DEF Read

LEMMA InitUndisturbed == Init => RInv
BY InitInPlace DEF Init, RInv, TypeOK, Undisturbed, IInv

LEMMA NextUndisturbed == RInv /\ [Next]_vars => RInv'
<1> SUFFICES ASSUME RInv, [Next]_vars PROVE RInv'
  OBVIOUS
<1>1. IInv'
  BY NextInPlace, ReadersWriteNothing DEF RInv
<1>2. CASE UNCHANGED vars
  BY <1>1, <1>2 DEF RInv, TypeOK, Undisturbed, Source, IInv, vars, store
<1>3. CASE Next
  BY <1>1, <1>3, IngestUndisturbed, ReadUndisturbed DEF RInv, Next
<1>4. QED
  BY <1>2, <1>3

(* The freshness gate holds for a reader that finds the latest file with   *)
(* its provenance and that no ingestion disturbs: it serves no live        *)
(* observations that trail the expected week, and names their own source,  *)
(* in either order of the two lookups (require_fresh_wpsr).                *)
THEOREM GateHoldsUndisturbed == Spec => []QuietReadersAreGated
<1>1. RInv => QuietReadersAreGated
  BY DEF RInv, Undisturbed, QuietReadersAreGated, StaleLiveNeverServed, Served
<1>2. QED
  BY InitUndisturbed, NextUndisturbed, <1>1, PTL DEF Spec

(* Store and reader stay in their ranges: a source is one of the two the   *)
(* ingestions write or none, and what was loaded is a content              *)
(* (inspect_data, load_latest_observations).                               *)
THEOREM ContextTypeCorrect == Spec => []TypeOK
<1>1. RInv => TypeOK
  BY DEF RInv
<1>2. QED
  BY InitUndisturbed, NextUndisturbed, <1>1, PTL DEF Spec
================================================================================
