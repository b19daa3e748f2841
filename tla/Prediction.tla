------------------------------ MODULE Prediction ------------------------------
(***************************************************************************)
(* A forecast from a LightGBM artifact: forecast_lightgbm (modeling.py).   *)
(* First the items of the frame, then the totals of the hierarchy, then an *)
(* item that has no history.                                               *)
(*                                                                         *)
(* Time is counted in periods of the data.  A value is abstracted to where *)
(* it comes from: a total is the set of the items it adds up, a prediction *)
(* for a new item the set of the observations its profile was made of.     *)
(* The data an artifact was trained on and the frame it is applied to need *)
(* not be the same: a forecast may name another version of the dataset.    *)
(***************************************************************************)
EXTENDS Integers, FiniteSets, FiniteSetsExt

CONSTANTS
    N,               \* the items are 1..N, in the order of their identifiers
    TrainedLengths,  \* lengths of the training series
    Periods,         \* seasonal periods of an artifact
    Horizon,         \* the horizon of the artifact
    Ends,            \* times a series may end at
    Gaps,            \* periods between the last two observations of a series
    Day,             \* periods of a day, which is the gap of a single observation
    Kinds,           \* values of the one column with metadata
    Limit,           \* neighbours of a new item (5 in the code)
    NotGiven         \* no metadata, or no number of steps

ASSUME PredictionAssumption ==
    /\ N \in Nat \ {0} /\ Horizon \in Nat
    /\ TrainedLengths \subseteq Nat \ {0} /\ Periods \subseteq Nat \ {0}
    /\ Ends \subseteq Int /\ Gaps \subseteq Nat \ {0}

Items == 1..N

VARIABLES
    artifact,  \* the series it was trained on (`flat' are all zero), and the season
    frame,     \* end and gap of the series to forecast
    steps,     \* requested steps
    part,      \* the next part, then "done" or "failed"
    rows,      \* the rows of the items
    totals,    \* those of the hierarchy
    cold       \* those of the new item, and what they come from

forecastVars == <<artifact, frame, steps, part, rows, totals, cold>>

Artifacts ==
    {trained \in
        [length : [Items -> TrainedLengths], end : [Items -> Ends], gap : [Items -> Gaps],
         kind : [Items -> Kinds \cup {NotGiven}], flat : SUBSET Items, season : Periods] :
        \A i \in Items : trained.length[i] = 1 => trained.gap[i] = Day}

\* Either the frame trained on, or one with another observation of each series.
Frames(trained) ==
    {[end |-> trained.end, gap |-> trained.gap]} \cup
    {[end |-> [i \in Items |-> trained.end[i] + later], gap |-> [i \in Items |-> later]] :
        later \in Gaps}

ForecastInit ==
    /\ artifact \in Artifacts
    /\ frame \in Frames(artifact)
    /\ steps \in {NotGiven} \cup 1..(Horizon + 1)
    /\ part = "horizon"
    /\ rows = {} /\ totals = {} /\ cold = {}

-----------------------------------------------------------------------------
(* The items of the frame *)

\* No horizon asks for that of the artifact, which is also the longest.
CheckHorizon ==
    /\ part = "horizon"
    /\ steps' = IF steps = NotGiven THEN Horizon ELSE steps
    /\ part' = IF steps' > Horizon THEN "failed" ELSE "items"
    /\ UNCHANGED <<artifact, frame, rows, totals, cold>>

\* Mistake: the first step is the last observation.
FutureTimeEarly(i, step) == frame.end[i] + frame.gap[i] * (step - 1)

\* The distance of the last two observations is carried on.
FutureTime(i, step) == frame.end[i] + frame.gap[i] * step

\* A value is given for every item and step.
Covered(given) == \A i \in Items, step \in 1..steps : <<i, FutureTime(i, step)>> \in given

\* `given' are the items and times for which the request has a value in every
\* known-future column; a gap anywhere fails the forecast as a whole.
ForecastItems(known, given) ==
    /\ part = "items"
    /\ IF known /\ ~Covered(given)
       THEN part' = "failed" /\ UNCHANGED rows
       ELSE /\ part' = "totals"
            /\ rows' = {[item |-> i, step |-> step, time |-> FutureTime(i, step),
                         covered |-> ~known \/ <<i, FutureTime(i, step)>> \in given] :
                            i \in Items, step \in 1..steps}
    /\ UNCHANGED <<artifact, frame, steps, totals, cold>>

-----------------------------------------------------------------------------
(* _hierarchy_rows *)

KindsOf(rs) == {artifact.kind[r.item] : r \in rs} \ {NotGiven}

\* Mistake: rows are added up by step, not by time.
HierarchyByStep ==
    {[kind |-> k, time |-> r.time,
      members |-> {s.item : s \in {s \in rows : s.step = r.step /\ artifact.kind[s.item] = k}}] :
        k \in KindsOf(rows), r \in rows}

\* A total for each value and each time at which an item of that value has a row.
HierarchyRows ==
    {total \in
        {[kind |-> k, time |-> t,
          members |-> {r.item : r \in {r \in rows : r.time = t /\ artifact.kind[r.item] = k}}] :
            k \in KindsOf(rows), t \in {r.time : r \in rows}} :
        total.members # {}}

AddTotals ==
    /\ part = "totals"
    /\ part' = "cold"
    /\ totals' = HierarchyRows
    /\ UNCHANGED <<artifact, frame, steps, rows, cold>>

-----------------------------------------------------------------------------
(* _cold_start_rows *)

\* The profile of a series: its last season, or what there is of it.
ProfileLength(i) == Min({artifact.season, artifact.length[i]})

\* Items that agree with the metadata come first, then those that do not, each
\* in the order of the items; those without metadata are not considered.
NearestPeers(metadata) ==
    LET peers == {i \in Items : metadata # NotGiven /\ artifact.kind[i] # NotGiven}
        far(i) == IF artifact.kind[i] = metadata THEN 0 ELSE 1
        nearer(i, j) == far(i) < far(j) \/ (far(i) = far(j) /\ i < j)
    IN  {i \in peers : Cardinality({j \in peers : nearer(j, i)}) < Limit}

\* Without neighbours all items whose level is not zero.
ProfilePeers(metadata) ==
    IF NearestPeers(metadata) # {} THEN NearestPeers(metadata) ELSE Items \ artifact.flat

Width(peers) == IF peers = {} THEN 1 ELSE Min({ProfileLength(i) : i \in peers})

\* The time of target[-k] in the series of an item.
TimeOf(i, k) == artifact.end[i] - (IF k = 1 THEN 0 ELSE artifact.gap[i] + k - 2)

\* Mistake: the profile begins with its second value.
ProfileValueLate(peers, index) ==
    {TimeOf(i, Width(peers) - ((index + 1) % Width(peers))) : i \in peers \ artifact.flat}

\* When the observations were made whose mean is the value number `index',
\* counted from 0, of the profile of `peers': the last ones of each, over and
\* over again.  A series that is zero throughout has a profile of ones.
ProfileValue(peers, index) ==
    {TimeOf(i, Width(peers) - (index % Width(peers))) : i \in peers \ artifact.flat}

\* The times go on from the last row of the frame, which is of the last item,
\* at the distance of the last two of its first item.
ColdStart(metadata) ==
    /\ part = "cold"
    /\ part' = "done"
    /\ LET peers == ProfilePeers(metadata) IN
       cold' = {[time |-> frame.end[N] + frame.gap[1] * (index + 1),
                 width |-> Width(peers), from |-> ProfileValue(peers, index)] :
                    index \in 0..(steps - 1)}
    /\ UNCHANGED <<artifact, frame, steps, rows, totals>>

-----------------------------------------------------------------------------

\* Where a covariate may be missing.
Cells == {<<i, FutureTime(i, step)>> : i \in Items, step \in 1..steps}

ForecastNext ==
    \/ CheckHorizon
    \/ /\ part = "items"
       /\ \E known \in BOOLEAN, missing \in {{}} \cup {{c} : c \in Cells} :
            ForecastItems(known, Cells \ missing)
    \/ AddTotals
    \/ \E metadata \in Kinds \cup {NotGiven} : ColdStart(metadata)

ForecastSpec == ForecastInit /\ [][ForecastNext]_forecastVars

-----------------------------------------------------------------------------
(* Properties *)

\* A forecast has each item at each of the `steps' periods that follow its last
\* observation, and none of them was made without the covariates of that very
\* period.  Unless the last two observations are further apart than the
\* others: the distance is carried on, and periods are left out.
RowsContinue ==
    part = "done" =>
        /\ \A r \in rows : r.covered
        /\ \A i \in Items :
            frame.gap[i] = 1 =>
                {r.time : r \in {r \in rows : r.item = i}} =
                    (frame.end[i] + 1)..(frame.end[i] + steps)

\* "Hierarchy outputs sum exactly": totals and rows agree, and while series
\* end together and go on alike a total has all the items of its value, so that
\* totals at different times compare.  The new item is never part of them.
TotalsComplete ==
    part = "done" =>
        \A total \in totals :
            LET alike == {i \in Items : artifact.kind[i] = total.kind} IN
            /\ \A i \in alike :
                i \in total.members <=> \E r \in rows : r.item = i /\ r.time = total.time
            /\ (\A i, j \in alike : frame.end[i] = frame.end[j] /\ frame.gap[i] = frame.gap[j]) =>
                total.members = alike

\* A prediction for a new item is made of observations of the same phase of
\* the season.  That takes peers with a full season of history, series without
\* a gap that end together, and a frame that ends where the training data did:
\* the profile is aligned with the end of the one, the times with the other.
ColdStartInPhase ==
    part = "done" =>
        \A r \in cold :
            (/\ r.width = artifact.season
             /\ \A i \in Items : artifact.end[i] = frame.end[N] /\ artifact.gap[i] = 1) =>
                \A time \in r.from : (r.time - time) % artifact.season = 0

=============================================================================
