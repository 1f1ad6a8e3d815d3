----------------------------- MODULE RecordBatch -----------------------------
(***************************************************************************)
(* The batch entry points of src/compose/service/record.go over the store *)
(* of RecordService, interleaved with the single-record calls of the      *)
(* other clients:                                                          *)
(*   Bulk       runs a list of operations, one after the other, through   *)
(*              the same create / update / delete calls (the request      *)
(*              BulkClient runs them with RecordService's actions);       *)
(*   DeleteByID runs delete for each of several IDs;                      *)
(*   Iterator   searches the module once and, per record found, calls a   *)
(*              per-record hook and then clones, updates or deletes the   *)
(*              record with its own procCreate / procUpdate and store.Tx. *)
(* The link-by field of Bulk is kept apart from the record's values: the  *)
(* reference each operation received is recorded in bulk.links.           *)
(***************************************************************************)
EXTENDS RecordService, SequencesExt

CONSTANTS
    BulkClient,   \* the request running Bulk or DeleteByID
    BulkInputs,   \* operation lists a Bulk call may receive
    IterInvoker,  \* the identity the Iterator runs as
    IterActions,  \* the action argument of Iterator
    MaxBatchCalls \* bound on Bulk, DeleteByID and Iterator calls together

ASSUME BulkClient \in Clients /\ IterInvoker \in Clients
ASSUME IterActions \subseteq {"clone", "update", "delete", "none"}
ASSUME MaxBatchCalls \in Nat

VARIABLES
    bulk,  \* the Bulk / DeleteByID call: its cursor, results and report
    it,    \* the Iterator call: its action, the records left of its search
    calls  \* batch calls made

batchVars == <<bulk, it, calls>>
allVars   == <<vars, batchVars>>

BulkOps == {"create", "update", "delete"}
NoBulk  == [pc |-> "idle", call |-> "none", oo |-> <<>>, i |-> 0, rr |-> <<>>,
            rves |-> {}, links |-> <<>>, out |-> <<>>, cur |-> 0, result |-> "none"]
NoIter  == [pc |-> "idle", action |-> "none", set |-> <<>>, result |-> "none"]

(* The per-record hook: a soft abort (corredor.ScriptExecAborted), any   *)
(* other error, or a return with the record's values as the script left   *)
(* them.                                                                   *)
IterHookOutcomes ==
    {[kind |-> "abort"], [kind |-> "error"]} \cup [kind : {"continue"}, vals : Values]

-----------------------------------------------------------------------------
(***************************************************************************)
(* Bulk: every operation is pre-verified to be create, update or delete;  *)
(* an unknown one fails the whole call before any work.                   *)
(***************************************************************************)
BulkCall ==
    /\ bulk.pc \in {"idle", "done"} /\ pc[BulkClient] = "idle"
    /\ calls < MaxBatchCalls /\ calls' = calls + 1
    /\ \E oo \in BulkInputs :
        IF \A k \in 1..Len(oo) : oo[k].op \in BulkOps
        THEN bulk' = [NoBulk EXCEPT !.pc = "loop", !.call = "bulk", !.oo = oo, !.i = 1]
        ELSE bulk' = [NoBulk EXCEPT !.pc = "done", !.call = "bulk", !.oo = oo,
                                    !.result = "error"]
    /\ UNCHANGED <<vars, it>>

(* DeleteByID(recordIDs...): isBulkDelete when more than one ID is given.  *)
(* A zero namespace or module ID, or a failed module load, returns first.  *)
DeleteByIDCall ==
    /\ bulk.pc \in {"idle", "done"} /\ pc[BulkClient] = "idle"
    /\ calls < MaxBatchCalls /\ calls' = calls + 1
    /\ \E n \in 1..2 :
        LET oo == [k \in 1..n |-> [op |-> "delete", link |-> FALSE]] IN
        \/ bulk' = [NoBulk EXCEPT !.pc = "loop", !.call = "deleteByID", !.i = 1, !.oo = oo]
        \/ bulk' = [NoBulk EXCEPT !.pc = "done", !.call = "deleteByID", !.oo = oo,
                                  !.result = "error"]
    /\ UNCHANGED <<vars, it>>

(* The reference a link-by operation receives: the ID of rr[0], the first *)
(* record that succeeded, or an empty value while none has.               *)
(* Mutant of LinkRef: the reference is never injected.                    *)
LinkRefNone(rr) == 0

LinkRef(rr) == IF rr # <<>> THEN rr[1] ELSE 0

(* The ID of the record the call of c works on, once it has one.          *)
TrackCur(c) == bulk' = [bulk EXCEPT !.cur = IF ctx'[c] # NoCtx THEN ctx'[c].id ELSE @]

(* The next operation: inject the link, then create, update or delete.    *)
BulkDispatch ==
    /\ bulk.pc = "loop" /\ bulk.i <= Len(bulk.oo) /\ pc[BulkClient] = "idle"
    /\ StartStep(BulkClient, bulk.oo[bulk.i].op)
    /\ LET ref == IF bulk.oo[bulk.i].link THEN LinkRef(bulk.rr) ELSE 0 IN
       bulk' = [bulk EXCEPT !.pc = "wait", !.links = Append(@, ref),
                            !.cur = IF ctx'[BulkClient] # NoCtx THEN ctx'[BulkClient].id ELSE 0]
    /\ UNCHANGED <<it, calls>>

(* Steps of the create / update / delete the batch request has in flight. *)
BulkCallStep ==
    /\ bulk.pc = "wait"
    /\ ContinueStep(BulkClient)
    /\ TrackCur(BulkClient)
    /\ UNCHANGED <<it, calls>>

(* Bulk tags a value error set with the operation that returned it.        *)
(* Mutant of TagValueErrors: the errors are tagged with the next operation. *)
TagValueErrorsNext(b, r) ==
    IF r = "rve" /\ b.call = "bulk" THEN b.rves \cup {b.i + 1} ELSE b.rves

TagValueErrors(b, r) ==
    IF r = "rve" /\ b.call = "bulk" THEN b.rves \cup {b.i} ELSE b.rves

(* A hard error ends the loop, except in a DeleteByID of several IDs,     *)
(* which goes on past every failed delete.                                 *)
StopsOn(b, r) == r = "error" /\ ~(b.call = "deleteByID" /\ Len(b.oo) > 1)

(***************************************************************************)
(* The operation returned.  Bulk: a value error set is tagged with the    *)
(* operation and collected, and the loop goes on; any other error ends    *)
(* the call at once; a success appends the record to rr.  DeleteByID      *)
(* ignores a failed delete when it deletes several records.               *)
(***************************************************************************)
BulkCollect ==
    /\ bulk.pc = "wait" /\ pc[BulkClient] = "idle"
    /\ LET r    == res[BulkClient]
           stop == StopsOn(bulk, r)
       IN bulk' = [bulk EXCEPT !.pc     = IF stop THEN "done" ELSE "loop",
                               !.i      = @ + 1,
                               !.out    = Append(@, [r |-> r, id |-> bulk.cur]),
                               !.rves   = TagValueErrors(bulk, r),
                               !.rr     = IF r = "ok" THEN Append(@, bulk.cur) ELSE @,
                               !.result = IF stop THEN "error" ELSE @]
    /\ UNCHANGED <<vars, it, calls>>

(* After the loop: the collected value errors, if any, are the result.     *)
BulkReturn ==
    /\ bulk.pc = "loop" /\ bulk.i > Len(bulk.oo)
    /\ bulk' = [bulk EXCEPT !.pc = "done",
                            !.result = IF bulk.rves # {} THEN "valueError" ELSE "ok"]
    /\ UNCHANGED <<vars, it, calls>>

-----------------------------------------------------------------------------
(***************************************************************************)
(* Iterator: load the module and search it once; the records found are    *)
(* copies, in the search's order (ID ascending here).                      *)
(***************************************************************************)
IterCall ==
    /\ it.pc \in {"idle", "done"}
    /\ calls < MaxBatchCalls /\ calls' = calls + 1
    /\ \E action \in IterActions :
        \/ it' = [NoIter EXCEPT !.pc = "done", !.action = action, !.result = "error"]
        \/ LET found == SetToSortSeq({i \in RecIds : Live(i)}, <)
           IN it' = [NoIter EXCEPT !.pc = "loop", !.action = action,
                                   !.set = [k \in DOMAIN found |->
                                               [id |-> found[k], rec |-> db[found[k]]]]]
    /\ UNCHANGED <<vars, bulk>>

IterNext == it' = [it EXCEPT !.set = Tail(@)]
IterFail == it' = [it EXCEPT !.pc = "done", !.result = "error"]

(***************************************************************************)
(* procUpdate(ctx, invokerID, m, rec, rec): the record copy is both upd   *)
(* and old.  SetUpdatedFlag(true) marks every value of that shared set,   *)
(* the audit fields are copied from the record itself, and the merge of   *)
(* the set with itself keeps it as it is, every kept value still marked.  *)
(* So RecordValueUpdateOpCheck sees each field holding a value, and a     *)
(* field the invoker may not update is denied whenever it holds one.      *)
(***************************************************************************)
ProcUpdateAliased(c, id, rec) ==
    LET upd    == UpdatedRecord(c, rec.vals, rec.ownedBy, rec)
        denied == RecordValueUpdateOpCheck({f \in Fields : rec.vals[f] # NoValue})
    IN [id  |-> id, rec |-> upd,
        rve |-> IF denied # {} THEN denied ELSE RecordPreparer(upd.vals, Others(id))]

(* The access checks of one iteration fail: the Iterator returns.          *)
IterDenied ==
    /\ it.pc = "loop" /\ it.set # <<>>
    /\ IterFail
    /\ UNCHANGED <<vars, bulk, calls>>

(***************************************************************************)
(* One record: the hook runs on the record copy; a soft abort skips the   *)
(* record; any other hook error is dropped and the iteration goes on as if *)
(* the hook had returned.  Then the action, each in its own store.Tx:     *)
(* clone applies defaults and procCreate; update runs procUpdate(rec,     *)
(* rec), the copy as both the update and the old record; delete stamps    *)
(* DeletedAt on the copy.  The copy is written whole.  A value error or a *)
(* failed transaction ends the Iterator with an error.                     *)
(***************************************************************************)
IterStep ==
    /\ it.pc = "loop" /\ it.set # <<>>
    /\ LET e == Head(it.set) IN
       \E h \in IterHookOutcomes :
        LET v   == IF h.kind = "continue" THEN h.vals ELSE e.rec.vals
            old == [e.rec EXCEPT !.vals = v]
        IN
        \/ /\ h.kind = "abort" \/ it.action = "none"
           /\ IterNext
           /\ UNCHANGED vars
        \/ /\ h.kind # "abort" /\ it.action = "clone"
           /\ lastID < MaxID /\ clock < MaxClock
           /\ LET p == ProcCreate(IterInvoker, RecordValueDefaults(v), e.rec.ownedBy) IN
              \/ /\ p.rve = {}
                 /\ db' = [db EXCEPT ![p.id] = p.rec]
                 /\ IterNext
              \/ /\ p.rve # {} \/ "txError" \in CommitFaults
                 /\ IterFail /\ UNCHANGED db
           /\ lastID' = lastID + 1 /\ clock' = clock + 1
           /\ UNCHANGED <<pc, ctx, res>>
        \/ /\ h.kind # "abort" /\ it.action = "update"
           /\ clock < MaxClock
           /\ LET p == ProcUpdateAliased(IterInvoker, e.id, old) IN
              \/ /\ p.rve = {}
                 /\ db' = [db EXCEPT ![e.id] = p.rec]
                 /\ IterNext
              \/ /\ p.rve # {} \/ "txError" \in CommitFaults
                 /\ IterFail /\ UNCHANGED db
           /\ clock' = clock + 1
           /\ UNCHANGED <<lastID, pc, ctx, res>>
        \/ /\ h.kind # "abort" /\ it.action = "delete"
           /\ clock < MaxClock
           /\ \/ /\ db' = [db EXCEPT ![e.id] = SoftDeleted(old)]
                 /\ IterNext
              \/ /\ "txError" \in CommitFaults
                 /\ IterFail /\ UNCHANGED db
           /\ clock' = clock + 1
           /\ UNCHANGED <<lastID, pc, ctx, res>>
    /\ UNCHANGED <<bulk, calls>>

IterReturn ==
    /\ it.pc = "loop" /\ it.set = <<>>
    /\ it' = [it EXCEPT !.pc = "done", !.result = "ok"]
    /\ UNCHANGED <<vars, bulk, calls>>

-----------------------------------------------------------------------------
(* The bound on calls is reached and every call has returned.            *)
BatchDone ==
    /\ calls = MaxBatchCalls /\ bulk.pc \in {"idle", "done"} /\ it.pc \in {"idle", "done"}
    /\ UNCHANGED allVars

BatchInit == Init /\ bulk = NoBulk /\ it = NoIter /\ calls = 0

BatchNext ==
    \/ BulkCall \/ DeleteByIDCall \/ BulkDispatch \/ BulkCallStep \/ BulkCollect \/ BulkReturn
    \/ IterCall \/ IterDenied \/ IterStep \/ IterReturn
    \/ BatchDone

BatchSpec == BatchInit /\ [][BatchNext]_allVars


-----------------------------------------------------------------------------
Outcome == [r : Results, id : 0..MaxID]

BatchTypeOK ==
    /\ TypeOK
    /\ bulk.pc \in {"idle", "loop", "wait", "done"}
    /\ bulk.call \in {"none", "bulk", "deleteByID"}
    /\ bulk.i \in 0..Len(bulk.oo) + 1 /\ bulk.cur \in 0..MaxID
    /\ bulk.rr \in Seq(RecIds) /\ bulk.links \in Seq(0..MaxID)
    /\ bulk.out \in Seq(Outcome) /\ bulk.rves \subseteq DOMAIN bulk.oo
    /\ bulk.result \in {"none", "ok", "valueError", "error"}
    /\ it.pc \in {"idle", "loop", "done"} /\ it.action \in IterActions \cup {"none"}
    /\ it.set \in Seq([id : RecIds, rec : Record])
    /\ it.result \in {"none", "ok", "error"}

(***************************************************************************)
(* What a finished Bulk reports (spec, Bulk Coordinator): no operation is *)
(* attempted after one that failed with a hard error, which is then the   *)
(* result; otherwise every operation was attempted, the value errors are  *)
(* tagged with exactly the operations that returned them and make the     *)
(* result a value error; rr holds the records of the operations that      *)
(* succeeded, in order; and every link-by operation received the ID of    *)
(* the first record that succeeded before it, or no reference at all.     *)
(* A finished DeleteByID that got past its checks tried every ID, and     *)
(* reports an error only when it was given one ID and that delete failed.  *)
(***************************************************************************)
DeleteByIDReport ==
    (bulk.pc = "done" /\ bulk.call = "deleteByID" /\ bulk.out # <<>>) =>
        /\ Len(bulk.out) = Len(bulk.oo)
        /\ (bulk.result = "error") <=>
              (Len(bulk.oo) = 1 /\ bulk.out[1].r = "error")

BulkReport ==
  /\ DeleteByIDReport
  /\ (bulk.pc = "done" /\ bulk.call = "bulk") =>
        LET out == bulk.out
            n   == Len(out)
            ok  == {k \in 1..n : out[k].r = "ok"}
        IN /\ \A k \in 1..n - 1 : out[k].r # "error"
           /\ (bulk.result = "error") <=>
                 \/ n > 0 /\ out[n].r = "error"
                 \/ \E k \in DOMAIN bulk.oo : bulk.oo[k].op \notin BulkOps
           /\ bulk.result # "error" => n = Len(bulk.oo)
           /\ bulk.result # "error" =>
                 /\ bulk.rves = {k \in 1..n : out[k].r = "rve"}
                 /\ (bulk.result = "valueError") <=> (bulk.rves # {})
           /\ bulk.rr = [j \in 1..Cardinality(ok) |->
                           out[CHOOSE k \in ok : Cardinality({x \in ok : x <= k}) = j].id]
           /\ \A k \in 1..n : bulk.oo[k].link =>
                 bulk.links[k] = IF \E x \in ok : x < k
                                 THEN out[CHOOSE x \in ok : \A y \in ok : x <= y].id ELSE 0

=============================================================================
