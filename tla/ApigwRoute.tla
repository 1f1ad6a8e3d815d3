----------------------------- MODULE ApigwRoute -----------------------------
(***************************************************************************)
(* The API gateway route service (src/system/service/apigw_route.go):      *)
(* Create, Update, DeleteByID and UndeleteByID of routes by concurrent     *)
(* requests, and the gateway's route table, which each of them reloads     *)
(* from the store when the change touches an enabled route.                *)
(*                                                                         *)
(* The service takes no lock and opens no transaction: the lookup, the    *)
(* store write and the reload are separate steps another request can run  *)
(* between.  apigw.Service().Reload is outside src/ and modelled from its *)
(* use here: it loads the enabled, not deleted routes into the gateway,   *)
(* or fails and leaves the gateway as it was.                              *)
(***************************************************************************)
EXTENDS Naturals

CONSTANTS
    Clients,       \* concurrent requests (and their identities)
    RouteIds,      \* IDs nextID() may hand out
    Endpoints,     \* route endpoints
    Nobody,        \* identity 0
    NoRoute,       \* no route with this ID in the store
    Off,           \* the gateway serves nothing under this ID
    MaxOps,        \* bound on requests
    StoreFaults,   \* store.CreateApigwRoute / UpdateApigwRoute may fail
    ReloadFaults   \* apigw.Service().Reload may fail

ASSUME MaxOps \in Nat /\ StoreFaults \in BOOLEAN /\ ReloadFaults \in BOOLEAN

VARIABLES
    store,         \* RouteIds -> stored route
    active,        \* the gateway's table: RouteIds -> served endpoint or Off
    reloadFailed,  \* the last Reload failed (history)
    pc,            \* per request: "idle", "write" or "reload"
    req,           \* per request: operation, ID, route as loaded, route to write
    res,           \* per request: result of its last call
    ops            \* requests started

vars == <<store, active, reloadFailed, pc, req, res, ops>>

Route == [endpoint : Endpoints, enabled : BOOLEAN, deleted : BOOLEAN,
          createdBy : Clients \cup {Nobody}]
NoReq == [op |-> "none", id |-> 0, qq |-> NoRoute, upd |-> NoRoute]
Req   == [op : {"update", "delete", "undelete"}, id : RouteIds,
          qq : Route, upd : Route] \cup {NoReq}

(* The gateway's table as a successful Reload builds it from the store.   *)
Snapshot(st) ==
    [i \in RouteIds |-> IF st[i] # NoRoute /\ st[i].enabled /\ ~st[i].deleted
                        THEN st[i].endpoint ELSE Off]

(* Mutant of LookupApigwRouteByID: the lookup error is not checked.       *)
LookupIgnoringError(id) == TRUE

(* store.LookupApigwRouteByID finds the route (deleted ones included).     *)
LookupApigwRouteByID(id) == store[id] # NoRoute

(* new.ID = nextID(): an ID no stored route has.                           *)
NextIDs == {i \in RouteIds : store[i] = NoRoute}

(* Mutant of UpdateReloads: reload only when Enabled changes.             *)
UpdateReloadsOnToggle(qq, upd) == qq.enabled # upd.enabled

(* Update: qq.Enabled != upd.Enabled || qq.Enabled && upd.Enabled          *)
UpdateReloads(qq, upd) == qq.enabled # upd.enabled \/ (qq.enabled /\ upd.enabled)

(* After the store write: reload (Update's condition, or q.Enabled of the *)
(* route as written by Delete and Undelete) or return.                     *)
ReloadNeeded(r) ==
    IF r.op = "update" THEN UpdateReloads(r.qq, r.upd) ELSE r.upd.enabled

(* The route the request writes: Update's payload, or q with DeletedAt     *)
(* set (DeleteByID) or cleared (UndeleteByID).                             *)
Written(r) ==
    IF r.op = "update" THEN r.upd ELSE [r.upd EXCEPT !.deleted = (r.op = "delete")]

Return(c, r) ==
    /\ pc' = [pc EXCEPT ![c] = "idle"]
    /\ req' = [req EXCEPT ![c] = NoReq]
    /\ res' = [res EXCEPT ![c] = r]

-----------------------------------------------------------------------------
Init ==
    /\ store = [i \in RouteIds |-> NoRoute]
    /\ active = Snapshot(store)
    /\ reloadFailed = FALSE
    /\ pc = [c \in Clients |-> "idle"]
    /\ req = [c \in Clients |-> NoReq]
    /\ res = [c \in Clients |-> "none"]
    /\ ops = 0

Start == ops' = ops + 1

(***************************************************************************)
(* Create: access check, a fresh ID, CreatedBy the invoker, the store     *)
(* write, then a reload when the new route is enabled.                     *)
(***************************************************************************)
Create(c) ==
    /\ pc[c] = "idle" /\ ops < MaxOps
    /\ \E id \in NextIDs, e \in Endpoints, en \in BOOLEAN :
        \/ /\ StoreFaults
           /\ Return(c, "error")
           /\ UNCHANGED store
        \/ /\ store' = [store EXCEPT ![id] = [endpoint |-> e, enabled |-> en,
                                              deleted |-> FALSE, createdBy |-> c]]
           /\ IF en THEN pc' = [pc EXCEPT ![c] = "reload"] /\ UNCHANGED <<req, res>>
                    ELSE Return(c, "ok")
    /\ Start
    /\ UNCHANGED <<active, reloadFailed>>

(***************************************************************************)
(* The first step of Update, DeleteByID and UndeleteByID: ID 0, a failed  *)
(* lookup or a denied access check return an error.                       *)
(***************************************************************************)
Rejected(c) ==
    /\ pc[c] = "idle" /\ ops < MaxOps
    /\ Return(c, "error")
    /\ Start
    /\ UNCHANGED <<store, active, reloadFailed>>

(***************************************************************************)
(* Update loads qq, then builds the route to write from the payload:       *)
(* CreatedAt is copied from qq, UpdatedBy set; every other field, the      *)
(* CreatedBy and DeletedAt included, is the caller's.                      *)
(***************************************************************************)
UpdateLookup(c) ==
    /\ pc[c] = "idle" /\ ops < MaxOps
    /\ \E id \in RouteIds, upd \in Route :
        /\ LookupApigwRouteByID(id)
        /\ req' = [req EXCEPT ![c] = [op |-> "update", id |-> id, qq |-> store[id], upd |-> upd]]
    /\ pc' = [pc EXCEPT ![c] = "write"]
    /\ Start
    /\ UNCHANGED <<store, active, reloadFailed, res>>

(* DeleteByID / UndeleteByID load q; DeletedAt is set or cleared on it    *)
(* when it is written.                                                     *)
DeleteLookup(c) ==
    /\ pc[c] = "idle" /\ ops < MaxOps
    /\ \E id \in RouteIds, op \in {"delete", "undelete"} :
        /\ LookupApigwRouteByID(id)
        /\ req' = [req EXCEPT ![c] = [op |-> op, id |-> id, qq |-> store[id], upd |-> store[id]]]
    /\ pc' = [pc EXCEPT ![c] = "write"]
    /\ Start
    /\ UNCHANGED <<store, active, reloadFailed, res>>

(* store.UpdateApigwRoute with the whole route built from what was loaded. *)
Write(c) ==
    /\ pc[c] = "write"
    /\ \/ /\ StoreFaults
          /\ Return(c, "error")
          /\ UNCHANGED store
       \/ /\ store' = [store EXCEPT ![req[c].id] = Written(req[c])]
          /\ IF ReloadNeeded(req[c])
             THEN pc' = [pc EXCEPT ![c] = "reload"] /\ UNCHANGED <<req, res>>
             ELSE Return(c, "ok")
    /\ UNCHANGED <<active, reloadFailed, ops>>

(* apigw.Service().Reload: load the routes, or fail with an error.         *)
Reload(c) ==
    /\ pc[c] = "reload"
    /\ \/ /\ active' = Snapshot(store)
          /\ Return(c, "ok")
          /\ reloadFailed' = FALSE
       \/ /\ ReloadFaults
          /\ reloadFailed' = TRUE
          /\ Return(c, "error")
          /\ UNCHANGED active
    /\ UNCHANGED <<store, ops>>

Done == ops = MaxOps /\ \A c \in Clients : pc[c] = "idle"
Finished == Done /\ UNCHANGED vars

Next ==
    \/ \E c \in Clients : Create(c) \/ Rejected(c) \/ UpdateLookup(c)
                          \/ DeleteLookup(c) \/ Write(c) \/ Reload(c)
    \/ Finished

Spec == Init /\ [][Next]_vars

-----------------------------------------------------------------------------
TypeOK ==
    /\ store \in [RouteIds -> Route \cup {NoRoute}]
    /\ active \in [RouteIds -> Endpoints \cup {Off}]
    /\ reloadFailed \in BOOLEAN
    /\ pc \in [Clients -> {"idle", "write", "reload"}]
    /\ req \in [Clients -> Req]
    /\ res \in [Clients -> {"none", "ok", "error"}]
    /\ ops \in 0..MaxOps

(***************************************************************************)
(* The reload signal: whenever no request is in flight the gateway serves *)
(* exactly the enabled, not deleted routes of the store, with their       *)
(* stored endpoints, unless the last Reload failed.  A failed Reload      *)
(* leaves the table behind the store (the change is stored, the caller    *)
(* gets an error); the next successful Reload, whichever request runs it, *)
(* must bring it back in step, however many changes came in between.      *)
(***************************************************************************)
GatewayInSync ==
    (~reloadFailed /\ \A c \in Clients : pc[c] = "idle") => active = Snapshot(store)

(***************************************************************************)
(* An Update never changes who created a route nor whether it is deleted  *)
(* (DeleteByID and UndeleteByID do that).                                  *)
(***************************************************************************)
UpdateKeepsAuditFields ==
    [][\A c \in Clients :
        (pc[c] = "write" /\ pc'[c] # "write" /\ req[c].op = "update"
         /\ store' # store) =>
            LET id == req[c].id IN
            /\ store'[id].createdBy = store[id].createdBy
            /\ store'[id].deleted = store[id].deleted]_vars

=============================================================================
