---------------------------- MODULE RecordService ----------------------------
(***************************************************************************)
(* The mutation orchestrator of src/compose/service/record.go: create,     *)
(* update and delete of records of one module, run by several concurrent   *)
(* requests (Clients) against one shared store, with no in-process lock.   *)
(*                                                                         *)
(* Each mutation is split where the code gives up control:                 *)
(*   Start      load, access checks, staleness check, raw sanitization and *)
(*              the first procCreate/procUpdate (the validator reads the   *)
(*              store here), up to the before-hook (eventbus.WaitFor);     *)
(*   HookReturn the before-hook's result and the second proc pass;         *)
(*   Commit     the store.Tx write (and, for create, label.Create).        *)
(* Without events (optEmitEvents off) Start goes straight to Commit.       *)
(* Access-control answers and hook results are chosen by the environment.  *)
(***************************************************************************)
EXTENDS RecordPipeline

CONSTANTS
    Clients,      \* concurrent requests, one invoker identity each
    Nobody,       \* OwnedBy = 0
    NoRecord,     \* no record stored under this ID
    MaxID,        \* bound on nextID()
    MaxClock,     \* bound on now()
    EmitEvents,   \* svc.optEmitEvents, as EventEmitting set it at start-up
    CommitFaults  \* failures the store may return: "txError", "labelError"

ASSUME EmitEvents \in BOOLEAN /\ CommitFaults \subseteq {"txError", "labelError"}
ASSUME MaxID \in Nat /\ MaxClock \in Nat

VARIABLES
    db,       \* the store: record ID -> stored record or NoRecord
    lastID,   \* last ID handed out by nextID()
    clock,    \* last time handed out by now(); 0 stands for a nil time
    pc,       \* per request: "idle", "hook" (in the before-hook), "commit"
    ctx,      \* per request: the mutation in flight
    res       \* per request: result of its last mutation

vars == <<db, lastID, clock, pc, ctx, res>>

RecIds  == 1..MaxID
Owners  == Clients \cup {Nobody}
Record  == [vals : Values, ownedBy : Clients, createdAt : Nat,
            createdBy : Clients, updatedAt : Nat, deletedAt : Nat]
NoCtx   == [op |-> "none", id |-> 0, old |-> NoRecord, new |-> NoRecord]
Ctx     == [op : {"create", "update", "delete"}, id : RecIds,
            old : Record \cup {NoRecord}, new : Record] \cup {NoCtx}
Results == {"none", "ok", "rve", "error"}

(* A before-hook either aborts, appends a value error, or returns with the *)
(* record's values as it left them.                                        *)
HookOutcomes == {[kind |-> "abort"], [kind |-> "rve"]} \cup [kind : {"return"}, vals : Values]

(* The concurrency stamp compared against the client's claim.              *)
Stamp(r) == IF r.updatedAt # 0 THEN r.updatedAt ELSE r.createdAt

(* isStale (outside src/): the claimed stamp differs from the stored one. *)
IsStale(claim, old) == claim # Stamp(old)

(* Value sets of the other live records, as the validator's store lookups *)
(* see them.                                                               *)
Others(id) == {db[i].vals : i \in {j \in RecIds \ {id} :
                                    db[j] # NoRecord /\ db[j].deletedAt = 0}}

(* Mutant of RecordUpdateOwner: a new record keeps an unset owner.         *)
RecordUpdateOwnerNoInvoker(invoker, owner, old) ==
    IF owner # Nobody \/ old = NoRecord THEN owner
    ELSE IF old.ownedBy # Nobody THEN old.ownedBy
    ELSE invoker

RecordUpdateOwner(invoker, owner, old) ==
    IF owner # Nobody THEN owner
    ELSE IF old # NoRecord /\ old.ownedBy # Nobody THEN old.ownedBy
    ELSE invoker

(***************************************************************************)
(* procCreate: flag values that differ from defaults, reset identity and   *)
(* audit fields (ID from nextID(), CreatedAt from now()), resolve the      *)
(* owner, check field update permission, run RecordPreparer.               *)
(***************************************************************************)
(* Mutant of ProcCreate: the RecordValueUpdateOpCheck call is dropped.    *)
ProcCreateNoFieldCheck(c, vals, owner) ==
    LET id  == lastID + 1
        rec == [vals |-> vals, ownedBy |-> RecordUpdateOwner(c, owner, NoRecord),
                createdAt |-> clock + 1, createdBy |-> c,
                updatedAt |-> 0, deletedAt |-> 0]
    IN [id |-> id, rec |-> rec, rve |-> RecordPreparer(vals, Others(id))]

ProcCreate(c, vals, owner) ==
    LET id  == lastID + 1
        rec == [vals |-> vals, ownedBy |-> RecordUpdateOwner(c, owner, NoRecord),
                createdAt |-> clock + 1, createdBy |-> c,
                updatedAt |-> 0, deletedAt |-> 0]
        denied == RecordValueUpdateOpCheck(CreateUpdatedFields(vals))
    IN [id  |-> id, rec |-> rec,
        rve |-> IF denied # {} THEN denied ELSE RecordPreparer(vals, Others(id))]

(***************************************************************************)
(* procUpdate: flag all values updated, copy audit fields from the old     *)
(* record, stamp UpdatedAt with now(), resolve the owner, merge onto the   *)
(* old values, check field update permission, run RecordPreparer.         *)
(***************************************************************************)
UpdatedRecord(c, vals, owner, old) ==
    [vals |-> MergeValues(old.vals, vals),
     ownedBy |-> RecordUpdateOwner(c, owner, old),
     createdAt |-> old.createdAt, createdBy |-> old.createdBy,
     updatedAt |-> clock + 1, deletedAt |-> old.deletedAt]

(* Mutant of ProcUpdate: RecordPreparer is not run after the merge.       *)
ProcUpdateNoPreparer(c, id, vals, owner, old) ==
    LET rec    == UpdatedRecord(c, vals, owner, old)
        denied == RecordValueUpdateOpCheck(MergeUpdatedFields(old.vals, vals))
    IN [id |-> id, rec |-> rec, rve |-> denied]

ProcUpdate(c, id, vals, owner, old) ==
    LET rec    == UpdatedRecord(c, vals, owner, old)
        denied == RecordValueUpdateOpCheck(MergeUpdatedFields(old.vals, vals))
    IN [id  |-> id, rec |-> rec,
        rve |-> IF denied # {} THEN denied ELSE RecordPreparer(rec.vals, Others(id))]

-----------------------------------------------------------------------------
Init ==
    /\ db = [i \in RecIds |-> NoRecord]
    /\ lastID = 0
    /\ clock = 0
    /\ pc = [c \in Clients |-> "idle"]
    /\ ctx = [c \in Clients |-> NoCtx]
    /\ res = [c \in Clients |-> "none"]

(* The mutation of c returns r to its caller.                              *)
Return(c, r) ==
    /\ pc' = [pc EXCEPT ![c] = "idle"]
    /\ ctx' = [ctx EXCEPT ![c] = NoCtx]
    /\ res' = [res EXCEPT ![c] = r]

(* A proc pass p of c either returns its value errors or moves on to next *)
(* with op in flight; it used one ID (create) and one now() tick.         *)
AfterProc(c, op, old, p, next) ==
    /\ clock' = clock + 1
    /\ IF p.rve # {}
       THEN Return(c, "rve")
       ELSE /\ pc' = [pc EXCEPT ![c] = next]
            /\ ctx' = [ctx EXCEPT ![c] = [op |-> op, id |-> p.id, old |-> old, new |-> p.rec]]
            /\ UNCHANGED res

NextAfterStart == IF EmitEvents THEN "hook" ELSE "commit"

(***************************************************************************)
(* create up to the before-create hook.  Denied, or the raw payload fails *)
(* RecordValueSanitization: a hard error.  With events, procCreate runs on *)
(* the payload as sent; without, defaults are applied first.               *)
(***************************************************************************)
CreateRejected(c) ==
    /\ pc[c] = "idle"
    /\ \/ TRUE                                               \* !CanCreateRecordOnModule
       \/ \E p \in Payloads : ~RecordValueSanitization(p)
    /\ Return(c, "error")
    /\ UNCHANGED <<db, lastID, clock>>

CreateStart(c) ==
    /\ pc[c] = "idle"
    /\ lastID < MaxID /\ clock < MaxClock
    /\ \E p \in Payloads, owner \in Owners :
        /\ RecordValueSanitization(p)
        /\ LET vals == IF EmitEvents THEN PayloadValues(p)
                       ELSE RecordValueDefaults(PayloadValues(p))
           IN AfterProc(c, "create", NoRecord, ProcCreate(c, vals, owner), NextAfterStart)
    /\ lastID' = lastID + 1
    /\ UNCHANGED db

(***************************************************************************)
(* The before-create hook returns: an abort is a hard error, an appended   *)
(* value error is returned; otherwise defaults are applied to the values   *)
(* the script left and procCreate runs again (new ID, new CreatedAt).     *)
(***************************************************************************)
CreateHookReturn(c) ==
    /\ pc[c] = "hook" /\ ctx[c].op = "create"
    /\ \E h \in HookOutcomes :
        \/ /\ h.kind = "abort"
           /\ Return(c, "error")
           /\ UNCHANGED <<db, lastID, clock>>
        \/ /\ h.kind = "rve"
           /\ Return(c, "rve")
           /\ UNCHANGED <<db, lastID, clock>>
        \/ /\ h.kind = "return"
           /\ lastID < MaxID /\ clock < MaxClock
           /\ AfterProc(c, "create", NoRecord,
                        ProcCreate(c, RecordValueDefaults(h.vals), ctx[c].new.ownedBy), "commit")
           /\ lastID' = lastID + 1
           /\ UNCHANGED db

(***************************************************************************)
(* update up to the before-update hook: zero ID, record not found (lookup  *)
(* of an ID never stored), update denied, stale claim, malformed payload: *)
(* hard errors.  Otherwise the first procUpdate pass.                      *)
(***************************************************************************)
UpdateRejected(c) ==
    /\ pc[c] = "idle"
    /\ \E id \in 0..lastID, p \in Payloads, claim \in 0..clock :
        \/ id = 0                                            \* RecordErrInvalidID
        \/ id # 0 /\ db[id] = NoRecord                       \* not found
        \/ id # 0 /\ db[id] # NoRecord                       \* !CanUpdateRecord
        \/ id # 0 /\ db[id] # NoRecord /\ IsStale(claim, db[id])
        \/ id # 0 /\ db[id] # NoRecord /\ ~IsStale(claim, db[id])
                  /\ ~RecordValueSanitization(p)
    /\ Return(c, "error")
    /\ UNCHANGED <<db, lastID, clock>>

UpdateStart(c) ==
    /\ pc[c] = "idle"
    /\ clock < MaxClock
    /\ \E id \in 1..lastID, p \in Payloads, owner \in Owners :
        /\ db[id] # NoRecord
        /\ ~IsStale(Stamp(db[id]), db[id])       \* the client claims the stamp it read
        /\ RecordValueSanitization(p)
        /\ AfterProc(c, "update", db[id],
                     ProcUpdate(c, id, PayloadValues(p), owner, db[id]), NextAfterStart)
    /\ UNCHANGED <<db, lastID>>

(***************************************************************************)
(* The before-update hook returns; procUpdate runs again on the values the *)
(* script left, against the old record loaded at Start.                    *)
(***************************************************************************)
UpdateHookReturn(c) ==
    /\ pc[c] = "hook" /\ ctx[c].op = "update"
    /\ \E h \in HookOutcomes :
        \/ /\ h.kind = "abort"
           /\ Return(c, "error")
           /\ UNCHANGED <<db, lastID, clock>>
        \/ /\ h.kind = "rve"
           /\ Return(c, "rve")
           /\ UNCHANGED <<db, lastID, clock>>
        \/ /\ h.kind = "return"
           /\ clock < MaxClock
           /\ AfterProc(c, "update", ctx[c].old,
                        ProcUpdate(c, ctx[c].id, h.vals, ctx[c].new.ownedBy, ctx[c].old), "commit")
           /\ UNCHANGED <<db, lastID>>

(***************************************************************************)
(* delete up to the before-delete hook: zero ID, not found, denied: hard  *)
(* errors.  Without events DeletedAt is set at once.                       *)
(***************************************************************************)
DeleteRejected(c) ==
    /\ pc[c] = "idle"
    /\ \E id \in 0..lastID :
        \/ id = 0
        \/ id # 0 /\ db[id] = NoRecord
        \/ id # 0 /\ db[id] # NoRecord                       \* !CanDeleteRecord
    /\ Return(c, "error")
    /\ UNCHANGED <<db, lastID, clock>>

SoftDeleted(old) == [old EXCEPT !.deletedAt = clock + 1]

DeleteStart(c) ==
    /\ pc[c] = "idle"
    /\ \E id \in 1..lastID :
        /\ db[id] # NoRecord
        /\ \/ /\ EmitEvents
              /\ pc' = [pc EXCEPT ![c] = "hook"]
              /\ ctx' = [ctx EXCEPT ![c] = [op |-> "delete", id |-> id,
                                            old |-> db[id], new |-> db[id]]]
              /\ UNCHANGED clock
           \/ /\ ~EmitEvents /\ clock < MaxClock
              /\ pc' = [pc EXCEPT ![c] = "commit"]
              /\ ctx' = [ctx EXCEPT ![c] = [op |-> "delete", id |-> id,
                                            old |-> db[id], new |-> SoftDeleted(db[id])]]
              /\ clock' = clock + 1
    /\ UNCHANGED <<db, lastID, res>>

(* The before-delete hook returns: abort, or DeletedAt = now() on the     *)
(* record as it was loaded at Start.                                       *)
DeleteHookReturn(c) ==
    /\ pc[c] = "hook" /\ ctx[c].op = "delete"
    /\ \/ /\ Return(c, "error")
          /\ UNCHANGED <<db, lastID, clock>>
       \/ /\ clock < MaxClock
          /\ pc' = [pc EXCEPT ![c] = "commit"]
          /\ ctx' = [ctx EXCEPT ![c].new = SoftDeleted(ctx[c].old)]
          /\ clock' = clock + 1
          /\ UNCHANGED <<db, lastID, res>>

(***************************************************************************)
(* store.Tx writes the prepared record whole (CreateComposeRecord or      *)
(* UpdateComposeRecord) or fails and rolls back.  After a create commits, *)
(* label.Create runs outside the transaction and may fail, returning an   *)
(* error for a record that is already stored.  The after-hooks' results   *)
(* are discarded.                                                          *)
(***************************************************************************)
(* The write of the record under ctx[c], or a failed store.Tx.            *)
Stored(c) == db' = [db EXCEPT ![ctx[c].id] = ctx[c].new]
TxFailed(c) == "txError" \in CommitFaults /\ Return(c, "error") /\ UNCHANGED db

(* create: CreateComposeRecord in store.Tx, then label.Create outside it:  *)
(* a label failure reports an error for a record that stays stored.        *)
CommitCreate(c) ==
    /\ ctx[c].op = "create"
    /\ \/ Stored(c) /\ Return(c, "ok")
       \/ TxFailed(c)
       \/ "labelError" \in CommitFaults /\ Stored(c) /\ Return(c, "error")

(* update: label.Update and UpdateComposeRecord in one store.Tx.           *)
CommitUpdate(c) ==
    /\ ctx[c].op = "update"
    /\ \/ Stored(c) /\ Return(c, "ok")
       \/ TxFailed(c)

(* delete: UpdateComposeRecord of the soft-deleted record in store.Tx.     *)
CommitDelete(c) ==
    /\ ctx[c].op = "delete"
    /\ \/ Stored(c) /\ Return(c, "ok")
       \/ TxFailed(c)

Commit(c) ==
    /\ pc[c] = "commit"
    /\ CommitCreate(c) \/ CommitUpdate(c) \/ CommitDelete(c)
    /\ UNCHANGED <<lastID, clock>>

(* The first step of a create, update or delete call of c.                *)
StartStep(c, op) ==
    \/ op = "create" /\ (CreateRejected(c) \/ CreateStart(c))
    \/ op = "update" /\ (UpdateRejected(c) \/ UpdateStart(c))
    \/ op = "delete" /\ (DeleteRejected(c) \/ DeleteStart(c))

(* A later step of the call c has in flight.                               *)
ContinueStep(c) ==
    CreateHookReturn(c) \/ UpdateHookReturn(c) \/ DeleteHookReturn(c) \/ Commit(c)

ClientStep(c) == \E op \in {"create", "update", "delete"} : StartStep(c, op) \/ ContinueStep(c)

Next == \E c \in Clients : ClientStep(c)

Spec == Init /\ [][Next]_vars

-----------------------------------------------------------------------------
TypeOK ==
    /\ db \in [RecIds -> Record \cup {NoRecord}]
    /\ lastID \in 0..MaxID /\ clock \in 0..MaxClock
    /\ pc \in [Clients -> {"idle", "hook", "commit"}]
    /\ ctx \in [Clients -> Ctx]
    /\ res \in [Clients -> Results]


Live(i) == db[i] # NoRecord /\ db[i].deletedAt = 0

(***************************************************************************)
(* A field the invoker may not update only ever holds its default in the  *)
(* store: procCreate rejects a non-default value on it (before and after  *)
(* the before-create hook), defaults fill it, and procUpdate's merge keeps *)
(* the old value whatever the payload or the before-update hook put there. *)
(***************************************************************************)
DeniedFieldsKeepDefault ==
    \A i \in RecIds : db[i] # NoRecord =>
        \A f \in Fields \ Updatable : db[i].vals[f] = Default[f]

(***************************************************************************)
(* Every stored record passed the validator: the second proc pass, after  *)
(* the before-hook rewrote the values, validates what is committed.       *)
(***************************************************************************)
StoredRecordsValid ==
    \A i \in RecIds : db[i] # NoRecord =>
        \A f \in Required : db[i].vals[f] # NoValue

(***************************************************************************)
(* An update or delete only overwrites the version of the record it loaded *)
(* and checked for staleness (spec: an update against a stale stamp is    *)
(* rejected and no store write occurs).                                    *)
(***************************************************************************)
NoStaleOverwrite ==
    [][\A c \in Clients :
         (pc[c] = "commit" /\ ctx[c].op \in {"update", "delete"}
          /\ db'[ctx[c].id] # db[ctx[c].id])
            => db[ctx[c].id] = ctx[c].old]_vars

(***************************************************************************)
(* No two live records hold the same value in a unique field.             *)
(***************************************************************************)
UniqueValuesDistinct ==
    \A i, j \in RecIds : (i # j /\ Live(i) /\ Live(j)) =>
        \A f \in Unique : db[i].vals[f] # NoValue => db[i].vals[f] # db[j].vals[f]

(***************************************************************************)
(* A create that reports an error leaves the store as it was (spec: no    *)
(* partial writes are ever committed).                                     *)
(***************************************************************************)
FailedCreateWritesNothing ==
    [][\A c \in Clients :
         (pc[c] = "commit" /\ ctx[c].op = "create" /\ res'[c] = "error"
          /\ pc'[c] = "idle")
            => db' = db]_vars

=============================================================================
