--------------------------- MODULE RecordOrganize ---------------------------
(***************************************************************************)
(* record.Organize (src/compose/service/record.go): move one record to a  *)
(* position of a numeric ordering field, optionally into another group    *)
(* (the value of a grouping field), and shift every record of the window  *)
(* at or after that position by one, all in one store transaction.        *)
(*                                                                         *)
(* The caller's filter is either empty (the whole module is the window)   *)
(* or selects the target's group after the move, as a board view sends it. *)
(* The position arrives as text: a sequence of characters, digits being   *)
(* 0..9, so that the regular expression, the value stored by the partial  *)
(* update and strconv.ParseUint(position, 0, 64) are modelled by what     *)
(* they do.  Every call is one transaction, so calls do not interleave.   *)
(***************************************************************************)
EXTENDS Naturals, Sequences, SequencesExt, FiniteSets

CONSTANTS
    Recs,            \* the module's (live) records
    Groups,          \* values of the grouping field
    InitPositions,   \* positions the records may hold initially
    PositionInputs,  \* position strings callers send
    NonDigit,        \* a character other than 0..9
    NoGroup,         \* grpField = "": the group is not changed
    MaxCalls,        \* bound on Organize calls
    PosFieldOptional \* callers may send posField = "" (group change only)

ASSUME InitPositions \subseteq Nat /\ MaxCalls \in Nat /\ PosFieldOptional \in BOOLEAN

VARIABLES
    pos,     \* record -> value of the ordering field
    grp,     \* record -> value of the grouping field
    calls,   \* Organize calls made
    last     \* the last call: record, decimal position sent, reordered, and
             \* how many of its target group's other records were below and
             \* at most at that position before the call (history)

vars == <<pos, grp, calls, last>>

IsDigit(ch) == ch \in 0..9

(* regexp ^[0-9]+$                                                         *)
IsNumeric(s) == Len(s) > 0 /\ \A i \in 1..Len(s) : IsDigit(s[i])

(* The numeric value of the decimal text, as the store compares it.      *)
DecimalValue(s) == FoldLeft(LAMBDA acc, d : acc * 10 + d, 0, s)

(***************************************************************************)
(* strconv.ParseUint(s, 0, 64) on a digit string: a leading "0" selects   *)
(* base 8 and a digit 8 or 9 is then a syntax error.                       *)
(***************************************************************************)
ParseError == -1
ParseUintBase0(s) ==
    IF Len(s) > 1 /\ s[1] = 0
    THEN IF \A i \in 1..Len(s) : s[i] < 8
         THEN FoldLeft(LAMBDA acc, d : acc * 8 + d, 0, s)
         ELSE ParseError
    ELSE DecimalValue(s)

(* The records the shift query returns: in the window and at or after    *)
(* the parsed position (filter "(<filter>) AND (pos >= <place>)").        *)
(* Mutant of ShiftSet: "pos > place" instead of "pos >= place".          *)
ShiftSetStrict(window, p, position) == {x \in window : position[x] > p}

ShiftSet(window, p, position) == {x \in window : position[x] >= p}

(* Orders the store may return the shift set in (sorted by the ordering  *)
(* field ascending; ties in any order).                                    *)
(* Mutant of SortedOrders: the shift query sorted descending.             *)
SortedOrdersDescending(S, position) ==
    {s \in SetToSeqs(S) : \A i, j \in 1..Len(s) : i < j => position[s[i]] >= position[s[j]]}

SortedOrders(S, position) ==
    {s \in SetToSeqs(S) : \A i, j \in 1..Len(s) : i < j => position[s[i]] <= position[s[j]]}

(* Walk the sorted set assigning place + 1, place + 2, ...                 *)
Renumber(position, order, p) ==
    [x \in DOMAIN position |->
        IF \E i \in 1..Len(order) : order[i] = x
        THEN p + CHOOSE i \in 1..Len(order) : order[i] = x
        ELSE position[x]]

(* The grouping field is set only when grpField != "".                   *)
(* Mutant of MovedGroups: the group value is set without that check.      *)
MovedGroupsUnchecked(groups, r, g) == [groups EXCEPT ![r] = g]

MovedGroups(groups, r, g) == IF g = NoGroup THEN groups ELSE [groups EXCEPT ![r] = g]

(* last for a call that moved nothing.                                     *)
NoMove(r) == [rec |-> r, at |-> 0, ok |-> FALSE, lo |-> 0, hi |-> 0]

-----------------------------------------------------------------------------
Init ==
    /\ pos \in {f \in [Recs -> InitPositions] :
                    \A x, y \in Recs : x # y => f[x] # f[y]}
    /\ grp \in [Recs -> Groups]
    /\ calls = 0
    /\ last = NoMove(CHOOSE r \in Recs : TRUE)

(* The records of group g other than r that sit below, or at most at,     *)
(* place p: where the caller asks r to go.                                  *)
Below(g, r, p)   == Cardinality({x \in Recs \ {r} : grp[x] = g /\ pos[x] < p})
AtMost(g, r, p)  == Cardinality({x \in Recs \ {r} : grp[x] = g /\ pos[x] <= p})

Fail(r) ==
    /\ last' = NoMove(r)
    /\ UNCHANGED <<pos, grp>>

(***************************************************************************)
(* Checks before the transaction: CanUpdateRecord, the position format,   *)
(* CanUpdateRecordValue on the ordering and grouping fields.  Field       *)
(* existence, type and multi-value checks are fixed by the module's       *)
(* schema and assumed to pass.                                            *)
(***************************************************************************)
OrganizeRejected ==
    /\ calls < MaxCalls
    /\ \E r \in Recs, in \in PositionInputs :
        /\ \/ TRUE                       \* !CanUpdateRecord / !CanUpdateRecordValue
           \/ ~IsNumeric(in)
        /\ Fail(r)
    /\ calls' = calls + 1

(***************************************************************************)
(* The transaction: the partial update writes the position text (and the  *)
(* group); then the position is parsed; on a parse error everything rolls *)
(* back; otherwise the shift set is searched (it sees the partial update) *)
(* and renumbered with one more partial update.                           *)
(***************************************************************************)
Organize ==
    /\ calls < MaxCalls
    /\ \E r \in Recs, in \in PositionInputs, g \in Groups \cup {NoGroup},
          filterOn \in BOOLEAN :
        /\ IsNumeric(in)
        /\ LET grp1   == MovedGroups(grp, r, g)
               pos1   == [pos EXCEPT ![r] = DecimalValue(in)]
               p      == ParseUintBase0(in)
               window == IF filterOn THEN {x \in Recs : grp1[x] = grp1[r]} ELSE Recs
           IN \/ /\ p = ParseError
                 /\ Fail(r)
              \/ /\ p # ParseError
                 /\ \E order \in SortedOrders(ShiftSet(window, p, pos1), pos1) :
                        pos' = Renumber(pos1, order, p)
                 /\ grp' = grp1
                 /\ last' = [rec |-> r, at |-> DecimalValue(in), ok |-> TRUE,
                             lo |-> Below(grp1[r], r, DecimalValue(in)),
                             hi |-> AtMost(grp1[r], r, DecimalValue(in))]
    /\ calls' = calls + 1

(* The bound on calls is reached: the model stops calling.                *)
Done == calls = MaxCalls /\ UNCHANGED vars

(* posField = "": no reordering, only the grouping field is written (or   *)
(* nothing, when grpField is "" as well).                                   *)
OrganizeGroupOnly ==
    /\ PosFieldOptional
    /\ calls < MaxCalls
    /\ \E r \in Recs, g \in Groups \cup {NoGroup} :
        /\ grp' = MovedGroups(grp, r, g)
        /\ last' = NoMove(r)
    /\ UNCHANGED pos
    /\ calls' = calls + 1

Next == Organize \/ OrganizeGroupOnly \/ OrganizeRejected \/ Done

Spec == Init /\ [][Next]_vars

-----------------------------------------------------------------------------
TypeOK ==
    /\ pos \in [Recs -> Nat]
    /\ grp \in [Recs -> Groups]
    /\ calls \in 0..MaxCalls
    /\ last \in [rec : Recs, at : Nat, ok : BOOLEAN, lo : Nat, hi : Nat]

(***************************************************************************)
(* No two records of one group share a position, however many moves,     *)
(* group changes and filters have been applied.                            *)
(***************************************************************************)
PositionsDistinct ==
    \A x, y \in Recs : (x # y /\ grp[x] = grp[y]) => pos[x] # pos[y]

(***************************************************************************)
(* A successful move keeps the relative order of every two other records  *)
(* of one group.                                                           *)
(***************************************************************************)
RelativeOrderPreserved ==
    [][last'.ok =>
        \A x, y \in Recs \ {last'.rec} :
            (grp[x] = grp[y] /\ pos[x] < pos[y]) => pos'[x] < pos'[y]]_vars

(***************************************************************************)
(* After a successful move the record sits at the position requested      *)
(* (spec: moving the record at 5 to 2 leaves it at 2).                     *)
(***************************************************************************)
MovedRecordAtTarget ==
    [][last'.ok => pos'[last'.rec] = last'.at]_vars


(***************************************************************************)
(* Refinement: read the records of every group in ascending position, and *)
(* every call is a move in OrderedGroups to the place it asked for: the   *)
(* moved record follows exactly the records of its group that were below  *)
(* the requested position (and perhaps the one that held it), and the     *)
(* rest keep their order; a call that moves nothing changes no list.      *)
(* Positions within a group are distinct wherever PositionsDistinct holds, *)
(* so the order is well defined there.                                     *)
(***************************************************************************)
GroupOrder(g) == SetToSortSeq({x \in Recs : grp[x] = g}, LAMBDA a, b : pos[a] < pos[b])

Abstract == INSTANCE OrderedGroups WITH
    order  <- [g \in Groups |-> GroupOrder(g)],
    target <- [rec |-> last.rec, grp |-> grp[last.rec], lo |-> last.lo,
               hi |-> last.hi, moved |-> last.ok]

(* Every Organize call either leaves every group's list as it was or      *)
(* moves one record to the rank its requested position names.            *)
OrganizeRefinesMove == Abstract!Spec

=============================================================================
