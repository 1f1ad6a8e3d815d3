------------------------------ MODULE Profiler ------------------------------
(***************************************************************************)
(* The API gateway profiler (src/pkg/apigw/profiler/profiler.go) as the    *)
(* helperProfiler middleware (src/pkg/apigw/helpers.go) drives it, and     *)
(* the Hits aggregation of apigwRoute (src/system/service/apigw_route.go), *)
(* called by the List and Aggregated REST endpoints (src/system/rest).     *)
(*                                                                         *)
(* Every profiled request records a Hit when it arrives, is served, and   *)
(* then Pushes the hit: p.l[id] = append(p.l[id], h) on a map shared by   *)
(* all requests, with no lock.  The read of p.l[id] and the write back    *)
(* are separate steps; two requests between them race.  The race is       *)
(* undefined behaviour: one append may be lost, or the Go runtime may     *)
(* detect the concurrent map writes and abort the process.  A Hits call   *)
(* ranges over the same map, and a Push meanwhile may abort it too.        *)
(* Times and durations are whole seconds; ContentLength may be -1.         *)
(***************************************************************************)
EXTENDS Integers, Sequences, SequencesExt

CONSTANTS
    Reqs,      \* profiled requests
    Paths,     \* request URL paths (the profiler's keys)
    Durs,      \* how long serving a request may take
    Sizes,     \* request ContentLength values
    Hour,      \* time.Hour in seconds
    MaxInt64,  \* math.MaxInt64
    NoDur,     \* h.D == nil: the hit is not finished
    AllPaths,  \* the Hits filter has no path
    Malformed, \* a path filter that is not valid base64 (and, decoded,
               \* a path that no hit has)
    NoTime     \* the Hits filter has no Before time

VARIABLES
    l,        \* the profiler's Hits map: path -> hits in push order
    pc,       \* per request: "idle", "serving", "appending", "done"
    hit,      \* per request: its Hit
    slice,    \* per request: p.l[id] as read by its append
    clock,    \* time.Now() in seconds
    crashed,  \* the runtime aborted on concurrent map writes
    query,    \* the last List/Aggregated call: path and before filters,
              \* and the hits map it read (history)
    status,   \* the last call's outcome: "none", "ok" or "error"
    report    \* the last call's aggregation

vars == <<l, pc, hit, slice, clock, crashed, query, status, report>>

Hit   == [path : Paths, ts : Nat, d : Durs \cup {NoDur}, size : Sizes]
NoHit == [path |-> AllPaths, ts |-> 0, d |-> NoDur, size |-> 0]

(* p.Hit: a new hit of the request, stamped with the start time.          *)
NewHit(path, size) == [path |-> path, ts |-> clock, d |-> NoDur, size |-> size]

(* p.id: the key of a hit in the map is its request's URL path.            *)
ProfilerId(h) == h.path

(***************************************************************************)
(* Push: when Tf is nil, stamp the finish time and D = Tf - Ts.            *)
(***************************************************************************)
(* Mutant of Finish: the duration is not stamped.                          *)
FinishUnstamped(h, d) == h

Finish(h, d) == IF h.d = NoDur THEN [h EXCEPT !.d = d] ELSE h

(***************************************************************************)
(* Dump(Sort{Path, Before}) through Hits.Filter: the hits of the path (all *)
(* paths when it is empty) that did not start before Before, keyed by path *)
(* and only for paths with a hit left.  The Hits call decodes the path     *)
(* filter from base64 first and ignores a decoding error: DecodeString     *)
(* then returns the bytes it decoded before the bad character, so a       *)
(* malformed filter becomes "" (every path), the text of a real path, or  *)
(* text naming no path (Malformed itself stands for that text).           *)
(***************************************************************************)
DecodedPaths(f) == IF f = Malformed THEN {AllPaths, Malformed} \cup Paths ELSE {f}

Keep(h, path, before) ==
    /\ path = AllPaths \/ h.path = path
    /\ before = NoTime \/ ~(h.ts < before)

Dump(hits, path, before) ==
    LET kept(p) == SelectSeq(hits[p], LAMBDA h : Keep(h, path, before))
    IN [p \in {q \in Paths : kept(q) # <<>>} |-> kept(p)]

(***************************************************************************)
(* The aggregation of Hits for one path: tmin starts at time.Hour, smin at *)
(* MaxInt64, the maxima and sums at 0; Tavg is the mean truncated to whole *)
(* seconds.                                                                *)
(***************************************************************************)
AggStart == [count |-> 0, tmin |-> Hour, tmax |-> 0, tsum |-> 0,
             smin |-> MaxInt64, smax |-> 0]

AggStep(a, h) ==
    [count |-> a.count + 1,
     tmin  |-> IF h.d < a.tmin THEN h.d ELSE a.tmin,
     tmax  |-> IF h.d > a.tmax THEN h.d ELSE a.tmax,
     tsum  |-> a.tsum + h.d,
     smin  |-> IF h.size < a.smin THEN h.size ELSE a.smin,
     smax  |-> IF h.size > a.smax THEN h.size ELSE a.smax]

AggOut(a) == [count |-> a.count, tmin |-> a.tmin, tmax |-> a.tmax,
              tavg |-> a.tsum \div a.count, smin |-> a.smin, smax |-> a.smax]

(* Mutant of Aggregate: the accumulators are reset once, before the loop  *)
(* over paths, instead of once per path.                                   *)
AggregateNoReset(list) ==
    LET order == SetToSeq(DOMAIN list)
        run[i \in 0..Len(order)] ==
            IF i = 0 THEN AggStart ELSE FoldLeft(AggStep, run[i - 1], list[order[i]])
    IN [p \in DOMAIN list |-> AggOut(run[CHOOSE i \in 1..Len(order) : order[i] = p])]

Aggregate(list) == [p \in DOMAIN list |-> AggOut(FoldLeft(AggStep, AggStart, list[p]))]

-----------------------------------------------------------------------------
NoQuery == [path |-> AllPaths, before |-> NoTime, at |-> [p \in Paths |-> <<>>]]

Init ==
    /\ l = [p \in Paths |-> <<>>]
    /\ pc = [r \in Reqs |-> "idle"]
    /\ hit = [r \in Reqs |-> NoHit]
    /\ slice = [r \in Reqs |-> <<>>]
    /\ clock = 0
    /\ crashed = FALSE
    /\ query = NoQuery
    /\ status = "none"
    /\ report = <<>>

(* helperProfiler: h.NewRequest, then p.Hit: a hit stamped with the start  *)
(* time.                                                                   *)
Arrive(r) ==
    /\ ~crashed /\ pc[r] = "idle"
    /\ \E p \in Paths, s \in Sizes :
        hit' = [hit EXCEPT ![r] = NewHit(p, s)]
    /\ pc' = [pc EXCEPT ![r] = "serving"]
    /\ clock' = clock + 1
    /\ UNCHANGED <<l, slice, crashed, query, status, report>>

(* hf.ServeHTTP returns after d seconds; p.Push stamps the hit and reads   *)
(* p.l[id] to append to it.                                                *)
PushRead(r) ==
    /\ ~crashed /\ pc[r] = "serving"
    /\ \E d \in Durs : hit' = [hit EXCEPT ![r] = Finish(hit[r], d)]
    /\ slice' = [slice EXCEPT ![r] = l[ProfilerId(hit[r])]]
    /\ pc' = [pc EXCEPT ![r] = "appending"]
    /\ UNCHANGED <<l, clock, crashed, query, status, report>>

(* p.Push writes the appended slice back into the map.                     *)
PushWrite(r) ==
    /\ ~crashed /\ pc[r] = "appending"
    /\ l' = [l EXCEPT ![ProfilerId(hit[r])] = Append(slice[r], hit[r])]
    /\ pc' = [pc EXCEPT ![r] = "done"]
    /\ UNCHANGED <<hit, slice, clock, crashed, query, status, report>>

(* Two requests writing the map at once: the runtime may abort.            *)
ConcurrentWriteAbort ==
    /\ ~crashed
    /\ \E r1, r2 \in Reqs : r1 # r2 /\ pc[r1] = "appending" /\ pc[r2] = "appending"
    /\ crashed' = TRUE
    /\ UNCHANGED <<l, pc, hit, slice, clock, query, status, report>>

(* apigwRoute.Hits: decode the path filter, Dump, aggregate per path.      *)
Hits(path, before) == Aggregate(Dump(l, path, before))

(***************************************************************************)
(* The REST endpoints List and Aggregated (src/system/rest): Fill parses  *)
(* the before parameter as an ISO date, List also parses sort (Aggregated  *)
(* ignores it); a parse error is returned before Hits runs.  Hits walks   *)
(* the shared map with Dump; a request writing the map meanwhile may make  *)
(* the runtime abort (concurrent map iteration and map write).             *)
(***************************************************************************)
(* Fill: the before parameter is not an ISO date.                          *)
FillFails(parse) == parse = "badBefore"

(* List: filter.NewSorting rejects the sort parameter (Aggregated has the *)
(* sorting commented out).                                                  *)
SortingFails(ep, parse) == ep = "list" /\ parse = "badSort"

ProfilerList ==
    /\ ~crashed
    /\ \E ep \in {"list", "aggregated"}, f \in Paths \cup {AllPaths, Malformed},
          before \in {NoTime} \cup 0..clock, parse \in {"ok", "badBefore", "badSort"} :
        \/ /\ FillFails(parse) \/ SortingFails(ep, parse)
           /\ status' = "error" /\ report' = <<>>
           /\ UNCHANGED <<query, crashed>>
        \/ /\ ~FillFails(parse) /\ ~SortingFails(ep, parse)
           /\ \E path \in DecodedPaths(f) :
                /\ query' = [path |-> path, before |-> before, at |-> l]
                /\ status' = "ok" /\ report' = Hits(path, before)
           /\ UNCHANGED crashed
        \/ /\ \E r \in Reqs : pc[r] = "appending"
           /\ crashed' = TRUE
           /\ UNCHANGED <<query, status, report>>
    /\ UNCHANGED <<l, pc, hit, slice, clock>>

Terminated == (crashed \/ \A r \in Reqs : pc[r] = "done") /\ UNCHANGED vars

Next ==
    \/ \E r \in Reqs : Arrive(r) \/ PushRead(r) \/ PushWrite(r)
    \/ ConcurrentWriteAbort
    \/ ProfilerList
    \/ Terminated

Spec == Init /\ [][Next]_vars

-----------------------------------------------------------------------------
TypeOK ==
    /\ l \in [Paths -> Seq(Hit)]
    /\ \A p \in Paths : \A i \in DOMAIN l[p] : l[p][i].d \in Durs
    /\ pc \in [Reqs -> {"idle", "serving", "appending", "done"}]
    /\ hit \in [Reqs -> Hit \cup {NoHit}]
    /\ clock \in Nat /\ crashed \in BOOLEAN
    /\ status \in {"none", "ok", "error"}

(* The smallest and greatest of a non-empty set of integers.              *)
Least(S) == CHOOSE x \in S : \A y \in S : x <= y
Most(S)  == CHOOSE x \in S : \A y \in S : x >= y

(* What a call should report for the hits map hits: for every path with a *)
(* hit that matches the decoded path filter and did not start before      *)
(* before, the number of those hits, their least, greatest and mean        *)
(* duration and their least and greatest ContentLength.                    *)
Expected(hits, path, before) ==
    LET sel(p) == {i \in DOMAIN hits[p] :
                      /\ path \in {AllPaths, p}
                      /\ before = NoTime \/ hits[p][i].ts >= before}
        ds(p)  == {hits[p][i].d : i \in sel(p)}
        ss(p)  == {hits[p][i].size : i \in sel(p)}
    IN [p \in {q \in Paths : sel(q) # {}} |->
          [count |-> Cardinality(sel(p)),
           tmin  |-> Least(ds(p)), tmax |-> Most(ds(p)),
           tavg  |-> MapThenSumSet(LAMBDA i : hits[p][i].d, sel(p)) \div Cardinality(sel(p)),
           smin  |-> Least(ss(p)), smax |-> Most(ss(p))]]

(***************************************************************************)
(* A List or Aggregated call that succeeds reports exactly the profile of *)
(* the hits the map held when it ran: the path filter, the Before cut-off  *)
(* (a hit starting at Before is kept), the per-path count, minima, maxima  *)
(* and mean.  This is Dump's filter and Hits' aggregation together.        *)
(***************************************************************************)
HitsReportProfile ==
    status = "ok" => report = Expected(query.at, query.path, query.before)

=============================================================================
