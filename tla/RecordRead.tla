------------------------------ MODULE RecordRead ------------------------------
(***************************************************************************)
(* The read side of src/compose/service/record.go over RecordService's    *)
(* store: FindByID (through lookup) and Find, and the record that a       *)
(* successful create or update hands back to its caller.                   *)
(*                                                                         *)
(* A read is one store query (the spec's reads observe the state before   *)
(* or after a transaction, never a part of it), so each read is one step. *)
(* Which records a search filter and the record-level read check admit,   *)
(* and whether a lookup is denied or label.Load fails, are environment    *)
(* choices.  Readable is the answer of CanReadRecordValue per field.      *)
(* The last answer the service gave is kept in shown (history).          *)
(***************************************************************************)
EXTENDS RecordService, TLC

CONSTANTS
    Readable     \* fields f with ac.CanReadRecordValue(ctx, f)

ASSUME Readable \subseteq Fields

VARIABLES
    shown        \* the records the service last returned, and by which call

readVars == <<vars, shown>>

Vias     == {"none", "read", "create", "update"}
NoAnswer == [via |-> "none", recs |-> <<>>]

(* ComposeRecordFilterAC: the values of every field the caller may not    *)
(* read are removed; readableFields is computed once per module.          *)
ComposeRecordFilterAC(vals) == [f \in Fields |-> IF f \in Readable THEN vals[f] ELSE NoValue]

Answer(via, recs) == [via |-> via, recs |-> recs]

-----------------------------------------------------------------------------
ReadInit == Init /\ shown = NoAnswer

(***************************************************************************)
(* FindByID -> lookup: loadModuleWithNamespace, the store lookup (a       *)
(* soft-deleted record is found too), CanReadRecord, the value filter,    *)
(* label.Load, RunXSS.  A missing record, a denied read or a failed       *)
(* label.Load is an error; the caller gets no record.                     *)
(***************************************************************************)
Lookup(c) ==
    /\ pc[c] = "idle"
    /\ \E id \in RecIds :
        \/ /\ TRUE               \* not found, !CanReadRecord or a label.Load error
           /\ shown' = Answer("read", <<>>)
        \/ /\ db[id] # NoRecord
           /\ shown' = Answer("read", id :> ComposeRecordFilterAC(db[id].vals))
    /\ UNCHANGED vars

(***************************************************************************)
(* Find: loadModule and CanSearchRecordsOnModule (an error), the label    *)
(* search (no labeled record: an empty set), SearchComposeRecords with    *)
(* ComposeRecordFilterChecker as filter.Check (CanReadRecord per record), *)
(* label.Load and RunXSS, then ComposeRecordFilterAC on the whole set.    *)
(***************************************************************************)
Find(c) ==
    /\ pc[c] = "idle"
    /\ \E found \in SUBSET {i \in RecIds : db[i] # NoRecord} :
        shown' = Answer("read", [i \in found |-> ComposeRecordFilterAC(db[i].vals)])
    /\ UNCHANGED vars

(***************************************************************************)
(* A create or update that commits returns the record it wrote: new, or   *)
(* upd with its merged values after GetClean.  No value filter runs on it. *)
(***************************************************************************)
Replied(c) ==
    IF pc[c] = "commit" /\ pc'[c] = "idle" /\ res'[c] = "ok" /\ ctx[c].op \in {"create", "update"}
    THEN shown' = Answer(ctx[c].op, ctx[c].id :> ctx[c].new.vals)
    ELSE UNCHANGED shown

ReadNext ==
    \/ \E c \in Clients : Lookup(c) \/ Find(c)
    \/ \E c \in Clients : ClientStep(c) /\ Replied(c)

ReadSpec == ReadInit /\ [][ReadNext]_readVars

-----------------------------------------------------------------------------
ReadTypeOK ==
    /\ TypeOK
    /\ shown.via \in Vias
    /\ DOMAIN shown.recs \subseteq RecIds
    /\ \A i \in DOMAIN shown.recs : shown.recs[i] \in Values

(***************************************************************************)
(* The same rule for every record the service returns (spec 4.2: "for    *)
(* any record set returned to a caller"), the records create and update   *)
(* hand back included.                                                     *)
(***************************************************************************)
RepliesRedacted ==
    \A i \in DOMAIN shown.recs : \A f \in Fields \ Readable : shown.recs[i][f] = NoValue

=============================================================================
