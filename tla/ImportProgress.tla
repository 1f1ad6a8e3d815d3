--------------------------- MODULE ImportProgress ---------------------------
(***************************************************************************)
(* The import progress ledger (RecordImportProgress and FailLog in         *)
(* src/compose/service/record.go).  The import driver that processes the   *)
(* rows lives outside src/ and is modelled from the specification: one     *)
(* row at a time, in order, each either stored or failed with a message.   *)
(* A failed row's zero-based index is kept in FailLog.Records until the    *)
(* list would exceed the cap, after which RecordsTruncated is set.  The    *)
(* code of src/ is ErrorIndex.Add and RecordIndex.MarshalJSON, the         *)
(* compression of the index list into [start, end] ranges.                 *)
(***************************************************************************)
EXTENDS Naturals, Integers, Sequences, SequencesExt

CONSTANTS
    Rows,          \* number of input rows of the import
    Messages,      \* error messages a failing row may produce
    MaxIndexCount  \* IMPORT_ERROR_MAX_INDEX_COUNT

ASSUME Rows \in Nat /\ MaxIndexCount \in Nat

VARIABLES
    onError,                        \* the session's OnError: "SKIP" or "FAIL"
    entryCount, completed, failed,  \* RecordImportProgress counters
    failReason,                     \* "" or the message that stopped the import
    finished,                       \* FinishedAt is set
    records, truncated, errors      \* FailLog

vars == <<onError, entryCount, completed, failed, failReason, finished,
          records, truncated, errors>>

(***************************************************************************)
(* ErrorIndex.Add: count one more occurrence of err.                       *)
(***************************************************************************)
(* Mutant of ErrorIndexAdd: a repeated message is reset to one.            *)
ErrorIndexAddReset(ei, err) ==
    IF err \in DOMAIN ei THEN [ei EXCEPT ![err] = 1] ELSE ei @@ (err :> 1)

ErrorIndexAdd(ei, err) ==
    IF err \in DOMAIN ei THEN [ei EXCEPT ![err] = @ + 1] ELSE ei @@ (err :> 1)

(***************************************************************************)
(* RecordIndex.MarshalJSON: sort, then walk the indexes with start and crt *)
(* (both -1 before the first one), closing a range whenever the next index *)
(* is more than one above crt; the last range is appended unconditionally. *)
(***************************************************************************)
(* Mutant of MarshalStep: a range is closed at every step of one.          *)
MarshalStepEveryGap(acc, x) ==
    IF acc.start = -1
    THEN [acc EXCEPT !.start = x, !.crt = x]
    ELSE IF x - acc.crt > 0
         THEN [rr |-> Append(acc.rr, <<acc.start, acc.crt>>), start |-> x, crt |-> x]
         ELSE [acc EXCEPT !.crt = x]

MarshalStep(acc, x) ==
    IF acc.start = -1
    THEN [acc EXCEPT !.start = x, !.crt = x]
    ELSE IF x - acc.crt > 1
         THEN [rr |-> Append(acc.rr, <<acc.start, acc.crt>>), start |-> x, crt |-> x]
         ELSE [acc EXCEPT !.crt = x]

MarshalJSON(ri) ==
    LET acc == FoldLeft(MarshalStep, [rr |-> <<>>, start |-> -1, crt |-> -1],
                        SortSeq(ri, <))
    IN Append(acc.rr, <<acc.start, acc.crt>>)

(* The index set a serialized list of ranges stands for.                   *)
Decompress(rr) == UNION {rr[i][1]..rr[i][2] : i \in DOMAIN rr}

(***************************************************************************)
(* The driver (outside src/): a row is stored, or fails with a message.    *)
(***************************************************************************)
Init ==
    /\ onError \in {"SKIP", "FAIL"}
    /\ entryCount = 0 /\ completed = 0 /\ failed = 0
    /\ failReason = "" /\ finished = FALSE
    /\ records = <<>> /\ truncated = FALSE /\ errors = <<>>

RowStored ==
    /\ ~finished /\ entryCount < Rows
    /\ entryCount' = entryCount + 1
    /\ completed' = completed + 1
    /\ UNCHANGED <<onError, failed, failReason, finished, records, truncated, errors>>

(* Mutant of RecordFailedIndex: the index is kept while the list is at the *)
(* cap.                                                                    *)
RecordFailedIndexAtCap(row) ==
    IF Len(records) <= MaxIndexCount
    THEN records' = Append(records, row) /\ UNCHANGED truncated
    ELSE truncated' = TRUE /\ UNCHANGED records

RecordFailedIndex(row) ==
    IF Len(records) < MaxIndexCount
    THEN records' = Append(records, row) /\ UNCHANGED truncated
    ELSE truncated' = TRUE /\ UNCHANGED records

RowFailed ==
    /\ ~finished /\ entryCount < Rows
    /\ \E msg \in Messages :
        /\ errors' = ErrorIndexAdd(errors, msg)
        /\ IF onError = "FAIL"
           THEN failReason' = msg /\ finished' = TRUE
           ELSE UNCHANGED <<failReason, finished>>
    /\ RecordFailedIndex(entryCount)
    /\ entryCount' = entryCount + 1
    /\ failed' = failed + 1
    /\ UNCHANGED <<onError, completed>>

(* Every row has been processed: FinishedAt is set.                        *)
ImportFinished ==
    /\ ~finished /\ entryCount = Rows
    /\ finished' = TRUE
    /\ UNCHANGED <<onError, entryCount, completed, failed, failReason, records,
                   truncated, errors>>

(* Once FinishedAt is set the import takes no further step.                *)
Next == RowStored \/ RowFailed \/ ImportFinished

Spec == Init /\ [][Next]_vars

-----------------------------------------------------------------------------
TypeOK ==
    /\ onError \in {"SKIP", "FAIL"}
    /\ {entryCount, completed, failed} \subseteq 0..Rows
    /\ failReason \in Messages \cup {""}
    /\ finished \in BOOLEAN /\ truncated \in BOOLEAN
    /\ records \in Seq(0..Rows - 1) /\ Len(records) <= MaxIndexCount
    /\ DOMAIN errors \subseteq Messages /\ \A m \in DOMAIN errors : errors[m] \in 1..Rows

(***************************************************************************)
(* The counters agree: every processed row is counted once as completed or *)
(* failed, the error table counts every failure, and the index list holds  *)
(* every failure until the cap, after which it is full and marked          *)
(* truncated.                                                              *)
(***************************************************************************)
LedgerConsistent ==
    /\ completed + failed = entryCount
    /\ SumFunction(errors) = failed
    /\ IF truncated THEN Len(records) = MaxIndexCount /\ failed > MaxIndexCount
                    ELSE Len(records) = failed

(***************************************************************************)
(* MarshalJSON of a non-empty index list is the shortest list of ascending *)
(* ranges that decompresses to exactly the failed rows kept: each range is *)
(* ordered and separated from the next by a gap of at least one row.       *)
(***************************************************************************)
FailLogCompressed ==
    records # <<>> =>
        LET rr == MarshalJSON(records) IN
        /\ Decompress(rr) = ToSet(records)
        /\ \A i \in DOMAIN rr : rr[i][1] <= rr[i][2]
        /\ \A i \in 1..Len(rr) - 1 : rr[i][2] + 1 < rr[i + 1][1]

(***************************************************************************)
(* Spec: the serialized FailLog decompresses to the exact set of failed    *)
(* positions whenever their number is within the cap, no failures included. *)
(***************************************************************************)
FailLogRoundTrip ==
    ~truncated => Decompress(MarshalJSON(records)) = ToSet(records)

=============================================================================
