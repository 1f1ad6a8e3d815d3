---------------------------- MODULE OrderedGroups ----------------------------
(***************************************************************************)
(* What record.Organize promises its callers, with positions abstracted   *)
(* away: every group is an ordered list of its records, and one call      *)
(* takes one record out of its list and inserts it into one list (its own *)
(* or another group's) right after the lo records that precede the place  *)
(* the caller asked for, or after lo + 1 when one record held that place  *)
(* already (hi = lo + 1).  Every other record keeps its group and its     *)
(* order relative to the records of its list.  target is the last request.*)
(* Calls that name no ordering field are outside this promise.            *)
(***************************************************************************)
EXTENDS Naturals, Sequences, SequencesExt, FiniteSets

CONSTANTS Recs, Groups

VARIABLES
    order,   \* group -> the records of that group, in order
    target   \* the last call: record, group, lo, hi, whether it moved

Counts == 0..Cardinality(Recs)

(* Each record is in exactly one list, once.                               *)
IsArrangement(o) ==
    /\ DOMAIN o = Groups
    /\ \A g \in Groups : IsInjective(o[g])
    /\ \A r \in Recs : \E g \in Groups : r \in ToSet(o[g])
    /\ \A g, h \in Groups : g # h => ToSet(o[g]) \cap ToSet(o[h]) = {}
    /\ \A g \in Groups : ToSet(o[g]) \subseteq Recs

Init ==
    /\ IsArrangement(order)
    /\ target \in [rec : Recs, grp : Groups, lo : {0}, hi : {0}, moved : {FALSE}]

(* Take r out of its list, insert it at place k of g's list.               *)
Move(r, g, k) ==
    LET rest == [h \in Groups |-> SelectSeq(order[h], LAMBDA x : x # r)]
    IN /\ k \in 1..Len(rest[g]) + 1
       /\ order' = [rest EXCEPT ![g] = InsertAt(@, k, r)]

(* A call that asks for r at the place after lo (or hi) records of g.     *)
MoveTo(r, g, lo, hi) ==
    /\ hi \in {lo, lo + 1}
    /\ \E k \in lo + 1..hi + 1 : Move(r, g, k)
    /\ target' = [rec |-> r, grp |-> g, lo |-> lo, hi |-> hi, moved |-> TRUE]

(* A call that is rejected or fails changes no list.                      *)
Unmoved(r, g) ==
    /\ UNCHANGED order
    /\ target' = [rec |-> r, grp |-> g, lo |-> 0, hi |-> 0, moved |-> FALSE]

Next ==
    \E r \in Recs, g \in Groups, lo, hi \in Counts :
        MoveTo(r, g, lo, hi) \/ Unmoved(r, g)

Spec == Init /\ [][Next]_<<order, target>>

=============================================================================
