--------------------------- MODULE RecordPipeline ---------------------------
(***************************************************************************)
(* The value pipeline and the field-level access gate of the record        *)
(* service (src/compose/service/record.go): the stateless helpers that     *)
(* create, update, Bulk and Iterator all run a record's values through.    *)
(*                                                                         *)
(* A record's value set is abstracted to one value per field (place 0):    *)
(* a function from the module's fields to Vals \cup {NoValue}.  A raw      *)
(* payload, as a client sends it, is a set of <<name, value>> pairs and    *)
(* may name a field the module does not have or give a field two values.  *)
(* Values are natural numbers standing for their decimal text, so the     *)
(* reference-format regular expression can be modelled by what it does.   *)
(***************************************************************************)
EXTENDS Naturals, FiniteSets

CONSTANTS
    Fields,        \* m.Fields: the module's (single-valued) fields
    RefFields,     \* fields whose IsRef() holds (record/user/file refs)
    Updatable,     \* fields f with ac.CanUpdateRecordValue(ctx, f)
    Required,      \* fields the validator requires a value for
    Unique,        \* fields the validator requires distinct values for
    Default,       \* f.DefaultValue at place 0, NoValue when there is none
    Vals,          \* values a client or a script may submit (naturals)
    NoValue,       \* no value at (field, place 0)
    UnknownField   \* a value name that m.Fields.FindByName does not find

ASSUME RefFields \subseteq Fields /\ Updatable \subseteq Fields
ASSUME Required \subseteq Fields /\ Unique \subseteq Fields
ASSUME Vals \subseteq Nat /\ NoValue \notin Vals /\ UnknownField \notin Fields
ASSUME Default \in [Fields -> Vals \cup {NoValue}]

FieldVals == Vals \cup {NoValue}
Values    == [Fields -> FieldVals]
Names     == Fields \cup {UnknownField}

(* Raw payloads of at most two values: enough for an unknown name and for *)
(* two values on one single-valued field.                                  *)
Payloads == {p \in SUBSET (Names \X Vals) : Cardinality(p) <= 2}

(* A record value error (types.RecordValueError): its kind and field.     *)
ValueError == [kind : {"updateDenied", "required", "unique"}, field : Fields]

(***************************************************************************)
(* RecordValueSanitization: the structural check on raw input.  The       *)
(* regular expression ^[1-9](\d+)$ matches the decimal text of v exactly   *)
(* when that text has at least two digits, i.e. v >= 10; "" (no value)    *)
(* and "0" pass before it.                                                 *)
(***************************************************************************)
RefFormatOK(v) == v = 0 \/ v >= 10

RecordValueSanitization(p) ==
    /\ \A pr \in p : pr[1] \in Fields                         \* FieldNotFound
    /\ \A pr \in p : pr[1] \in RefFields => RefFormatOK(pr[2]) \* InvalidReferenceFormat
    /\ \A f \in Fields : Cardinality({pr \in p : pr[1] = f}) <= 1 \* InvalidValueStructure

(* The value set of a payload that passed sanitization.                    *)
PayloadValues(p) ==
    [f \in Fields |-> IF \E pr \in p : pr[1] = f
                      THEN (CHOOSE pr \in p : pr[1] = f)[2]
                      ELSE NoValue]

(***************************************************************************)
(* RecordValueUpdateOpCheck: one updateDenied error for every value marked *)
(* updated on a field the invoker cannot update.                           *)
(***************************************************************************)
RecordValueUpdateOpCheck(updated) ==
    {[kind |-> "updateDenied", field |-> f] : f \in updated \ Updatable}

(***************************************************************************)
(* The validator (values.Validator().Run), outside src/: a required field  *)
(* must have a value, a unique field's value must not be held by another   *)
(* live record of the module (others: their value sets).                   *)
(***************************************************************************)
ValidatorRun(vals, others) ==
    {[kind |-> "required", field |-> f] : f \in {g \in Required : vals[g] = NoValue}}
    \cup
    {[kind |-> "unique", field |-> f] :
        f \in {g \in Unique : vals[g] # NoValue /\ \E o \in others : o[g] = vals[g]}}

(***************************************************************************)
(* RecordPreparer: sanitize, evaluate expressions, validate, clean up and  *)
(* format.  Content sanitization, expression fields, GetClean and the      *)
(* formatter change only the text of values, which this abstraction does   *)
(* not represent; what remains is the validation verdict.                  *)
(***************************************************************************)
RecordPreparer(vals, others) == ValidatorRun(vals, others)

(***************************************************************************)
(* RecordValueDefaults: a default is appended for every (field, place)     *)
(* that has no value.                                                      *)
(***************************************************************************)
RecordValueDefaults(vals) ==
    [f \in Fields |-> IF vals[f] = NoValue THEN Default[f] ELSE vals[f]]

(* procCreate marks a value updated unless it equals the field's default  *)
(* at its place (d == nil || d.Value != v.Value).                          *)
CreateUpdatedFields(vals) ==
    {f \in Fields : vals[f] # NoValue /\ vals[f] # Default[f]}

(***************************************************************************)
(* RecordValueSet.Merge (compose/types, outside src/): field by field, a   *)
(* field the invoker may update takes the new values (flagged updated by   *)
(* SetUpdatedFlag), any other field keeps the old values, whose flags are  *)
(* not set.                                                                *)
(***************************************************************************)
MergeValues(old, upd) ==
    [f \in Fields |-> IF f \in Updatable THEN upd[f] ELSE old[f]]

MergeUpdatedFields(old, upd) ==
    {f \in Updatable : upd[f] # NoValue}

=============================================================================
