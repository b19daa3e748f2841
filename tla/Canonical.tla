------------------------------- MODULE Canonical -------------------------------
(***************************************************************************)
(* From an uploaded file to the rows of a dataset version: canonicalize    *)
(* (data.py), check by check, in the order of the code.                    *)
(*                                                                         *)
(* A row has the two key columns, the target, and one column each for the  *)
(* weights and for an attribute that the manifest may declare static.  A   *)
(* value that is absent, or cannot be parsed, is Null, and NaN stands for  *)
(* any number that is not finite.                                          *)
(***************************************************************************)
EXTENDS Integers, Sequences, FiniteSetsExt, SequencesExt

CONSTANTS
    Tables,      \* contents of files: sequences of rows
    Attributes,  \* values of the attribute
    Single,      \* the item of every row when the manifest names no item column
    Null, NaN

FileRows ==
    [item : Int, time : Int \cup {Null}, target : Int \cup {Null, NaN},
     weight : Int \cup {Null, NaN}, attribute : Attributes]

ASSUME CanonicalAssumption ==
    /\ Tables \subseteq Seq(FileRows)
    /\ Single \in Int
    /\ Null \notin Int /\ NaN \notin Int /\ Null # NaN

Columns == {"item", "time", "target", "weight", "attribute"}
Policies == {"reject", "sum", "mean", "last"}

VARIABLES
    table,      \* the file
    manifest,   \* what the client has confirmed about it
    check,      \* the next check, then "done" or "rejected" (an exception)
    data        \* the rows so far

canonicalVars == <<table, manifest, check, data>>

\* `declared' are the columns with a key, the target or a role.
Manifests ==
    [policy : Policies, nonNegative : BOOLEAN,
     declared : {cols \in SUBSET Columns : {"time", "target"} \subseteq cols}]

CanonicalInit ==
    /\ table \in Tables
    /\ manifest \in Manifests
    /\ check = "columns"
    /\ data = << >>

-----------------------------------------------------------------------------
(* Operations on columns *)

Values(column, rows) == {rows[i][column] : i \in DOMAIN rows}

IsNumber(x) == x \notin {Null, NaN}

KeyOf(row) == <<row.item, row.time>>

KeysOf(rows) == {KeyOf(rows[i]) : i \in DOMAIN rows}

\* The rows of a key, by their positions.
Of(rows, key) == {i \in DOMAIN rows : KeyOf(rows[i]) = key}

HasDuplicates(rows) == \E i, j \in DOMAIN rows : i # j /\ KeyOf(rows[i]) = KeyOf(rows[j])

Before(a, b) == a.item < b.item \/ (a.item = b.item /\ a.time < b.time)

\* sum and mean pass over absent values; the sum of none is zero.  A mean is
\* rounded down to the integers of the model.
Present(rows, at) == {i \in at : rows[i].target # Null}

Total(rows, at) == SumFunction([i \in Present(rows, at) |-> rows[i].target])

Mean(rows, at) ==
    IF Present(rows, at) = {} THEN Null
    ELSE Total(rows, at) \div Cardinality(Present(rows, at))

Combined(policy, rows, at) ==
    CASE policy = "sum" -> Total(rows, at)
      [] policy = "mean" -> Mean(rows, at)
      [] OTHER -> rows[Max(at)].target

Merged(policy, rows, at) == [rows[Max(at)] EXCEPT !.target = Combined(policy, rows, at)]

\* Mistake: an absent target is counted as an observation.
AggregateMissing(policy, rows) ==
    SetToSeq({
        IF policy = "mean"
        THEN [rows[Max(at)] EXCEPT !.target = Total(rows, at) \div Cardinality(at)]
        ELSE Merged(policy, rows, at) : at \in {Of(rows, key) : key \in KeysOf(rows)}})

\* group_by(keys).agg(...): one row per key, in no particular order.  All columns
\* but the target keep their last value.
Aggregate(policy, rows) ==
    SetToSeq({Merged(policy, rows, Of(rows, key)) : key \in KeysOf(rows)})

\* The rows in the order of their keys, of which no two are the same.
Sorted(rows) ==
    [n \in DOMAIN rows |->
        CHOOSE row \in Range(rows) : Cardinality({r \in Range(rows) : Before(r, row)}) = n - 1]

-----------------------------------------------------------------------------
(* canonicalize *)

Check(here, ok, next, rows) ==
    /\ check = here
    /\ IF ok THEN check' = next /\ data' = rows
             ELSE check' = "rejected" /\ UNCHANGED data
    /\ UNCHANGED <<table, manifest>>

\* The file has all columns the manifest declares.  Without an item column
\* there is a single series.
ReadColumns(columns) ==
    Check("columns", manifest.declared \subseteq columns, "values",
        IF "item" \in manifest.declared THEN table
        ELSE [i \in DOMAIN table |-> [table[i] EXCEPT !.item = Single]])

\* A comparison with an absent target is itself absent and counts for nothing.
CheckValues ==
    Check("values", Null \notin Values("time", data) /\ NaN \notin Values("target", data),
        "weights", data)

CheckWeights ==
    Check("weights",
        "weight" \in manifest.declared =>
            /\ \A w \in Values("weight", data) : IsNumber(w) /\ w >= 0
            /\ \E w \in Values("weight", data) : w > 0,
        "attributes", data)

\* A static column has one value per item, and being absent is a value.
CheckAttributes ==
    Check("attributes",
        "attribute" \in manifest.declared =>
            \A i, j \in DOMAIN data :
                data[i].item = data[j].item => data[i].attribute = data[j].attribute,
        "keys", data)

\* One duplicate key has the whole frame aggregated.
MergeDuplicates ==
    Check("keys", HasDuplicates(data) => manifest.policy # "reject", "sign",
        IF HasDuplicates(data) THEN Aggregate(manifest.policy, data) ELSE data)

SignOK ==
    LET present == Present(data, DOMAIN data) IN
    manifest.nonNegative => present # {} /\ \A i \in present : data[i].target >= 0

\* Mistake: the rows are left in the order of the file.
SortUnsorted == Check("sign", SignOK, "done", data)

\* The smallest target of none is absent, and comparing it raises.
CheckSignAndSort == Check("sign", SignOK, "done", Sorted(data))

CanonicalNext ==
    \/ \E missing \in {{}} \cup {{c} : c \in Columns} : ReadColumns(Columns \ missing)
    \/ CheckValues
    \/ CheckWeights
    \/ CheckAttributes
    \/ MergeDuplicates
    \/ CheckSignAndSort

CanonicalSpec == CanonicalInit /\ [][CanonicalNext]_canonicalVars

-----------------------------------------------------------------------------
(* Properties *)

\* The rows of the file as the version sees them.
Source ==
    [i \in DOMAIN table |->
        [table[i] EXCEPT !.item = IF "item" \in manifest.declared THEN @ ELSE Single]]

\* The version has exactly the keys of the file, in strictly ascending order,
\* which the models rely on; and a row whose key occurs once comes out as it
\* went in, whatever happens to other keys.  The absent target of a row under
\* `sum' is what MissingTargetsKept is about: here no more is asked of it than
\* that it is the sum of nothing, and that the rest of its row is kept.
RowsKept ==
    check = "done" =>
        /\ \A i, j \in DOMAIN data : i < j => Before(data[i], data[j])
        /\ KeysOf(data) = KeysOf(Source)
        /\ \A i \in DOMAIN Source :
            Of(Source, KeyOf(Source[i])) = {i} =>
                \/ Source[i] \in Range(data)
                \/ /\ HasDuplicates(Source) /\ manifest.policy = "sum"
                   /\ Source[i].target = Null
                   /\ [Source[i] EXCEPT !.target = 0] \in Range(data)

\* A target merged from several rows stays within the range of those of them
\* that have one, or is their sum; it is absent only if all of them are, or the
\* last is and the policy asks for the last.
TargetInRange(row) ==
    LET at == Of(Source, KeyOf(row))
        targets == {Source[i].target : i \in Present(Source, at)}
    IN  IF row.target = Null
        THEN targets = {} \/ (manifest.policy = "last" /\ Source[Max(at)].target = Null)
        ELSE \/ \E low, high \in targets : low <= row.target /\ row.target <= high
             \/ manifest.policy = "sum" /\ row.target = Total(Source, at)

\* The values a version is trained on: targets in range, and a positive weight
\* among the weights, unless duplicates were merged: weights are checked before,
\* and only the last weight of a key survives.
ValuesUsable ==
    check = "done" =>
        /\ \A i \in DOMAIN data : TargetInRange(data[i])
        /\ "weight" \in manifest.declared /\ ~HasDuplicates(Source) =>
            \E w \in Values("weight", data) : w > 0

\* "Preserve missing targets as missingness, not automatic zeros"
\* (docs/forecasting-system-plan.md:94): a key none of whose rows has a target
\* has none in the version.
MissingTargetsKept ==
    check = "done" =>
        \A i \in DOMAIN data :
            Present(Source, Of(Source, KeyOf(data[i]))) = {} => data[i].target = Null

\* "timestamp and target values must be parseable, finite, and non-null"
\* (data.py:121).
TargetsPresent ==
    check = "done" => Null \notin Values("target", data)

=============================================================================
