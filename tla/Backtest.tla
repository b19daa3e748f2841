------------------------------- MODULE Backtest -------------------------------
(***************************************************************************)
(* The rolling backtest of train_lightgbm (modeling.py): fold by fold,     *)
(* train on the beginning of every series and compare the predictions for  *)
(* the horizon that follows, and those of a seasonal-naive baseline, with  *)
(* what was observed.                                                      *)
(*                                                                         *)
(* Values are abstracted to where they come from: an observation is its    *)
(* position in its series, counted from 0, and a computation is the set of *)
(* positions it reads.  A position a Python list does not have raises.     *)
(***************************************************************************)
EXTENDS Integers, Sequences, FiniteSetsExt

CONSTANTS
    Series,        \* the series of the dataset
    Lengths,       \* lengths a series may have
    Horizons,      \* steps to forecast
    WindowCounts,  \* validation_windows
    Seasons        \* seasonal_periods[0]: any integer, the manifest does not restrict it

ASSUME BacktestAssumption ==
    /\ IsFiniteSet(Series) /\ Series # {}
    /\ Lengths \subseteq Nat \ {0}
    /\ Horizons \subseteq Nat \ {0}
    /\ WindowCounts \subseteq Nat \ {0}
    /\ Seasons \subseteq Int

VARIABLES
    length, horizon, requested, season,  \* the input
    pc,         \* "start", "folds", then "done" or "failed" (an exception)
    windows,    \* how many observations each window leaves after it
    fold,       \* the folds that have been scored
    residuals,  \* one record per prediction that was scored
    seen        \* the positions of each series the latest fold has read

input == <<length, horizon, requested, season>>
vars == <<input, pc, windows, fold, residuals, seen>>

Init ==
    /\ length \in [Series -> Lengths]
    /\ horizon \in Horizons
    /\ requested \in WindowCounts
    /\ season \in Seasons
    /\ pc = "start"
    /\ windows = << >>
    /\ fold = 0
    /\ residuals = {}
    /\ seen = [i \in Series |-> {}]

-----------------------------------------------------------------------------
(* Python lists *)

\* Where list[index] is, in a list of n elements.
Index(n, index) == IF index < 0 THEN n + index ELSE index

\* Mistake: one observation too many is kept.
TrimmedLess(n, count) == IF count = 0 THEN n ELSE n - count + 1

\* The length of list[:n - count], which a negative bound cuts from its end.
Trimmed(n, count) ==
    IF count = 0 THEN n
    ELSE IF count <= n THEN n - count
    ELSE Max({0, 2 * n - count})

\* The positions of list[-min(k, n):].
LastOf(n, k) == IF k > 0 THEN (n - Min({k, n}))..(n - 1) ELSE (-k)..(n - 1)

\* The remainder takes the sign of the divisor.
PyMod(a, b) == IF b > 0 THEN a % b ELSE -((-a) % (-b))

-----------------------------------------------------------------------------
(* Windows, features and the baseline *)

MinLength == Min({length[i] : i \in Series})

\* Mistake: the windows overlap.
WindowsByOne ==
    LET count == Max({0, Min({requested, MinLength \div horizon - 1})})
    IN  IF count = 0 THEN <<0>> ELSE [k \in 1..count |-> k - 1]

ValidWindows ==
    LET count == Max({0, Min({requested, MinLength \div horizon - 1})})
    IN  IF count = 0 THEN <<0>> ELSE [k \in 1..count |-> (k - 1) * horizon]

Lags == {1, 2, 3, season, 2 * season}

\* The targets _features reads when the history is the first n observations.
TargetReads(n) ==
    {Index(n, -lag) : lag \in {l \in Lags : n >= l}} \cup LastOf(n, 3) \cup LastOf(n, season)

\* All that _features reads of a series of n observations for a prediction
\* from `cutoff': static columns in the last row, past-only columns at the
\* cutoff, known-future columns at the step if the series goes that far.
Reads(n, cutoff, step) ==
    TargetReads(cutoff + 1) \cup {n - 1, cutoff} \cup ({cutoff + step} \cap 0..(n - 1))

\* The training rows of a series: from each cutoff, for each step, the label
\* that is `step' later.
Rows(n) == {row \in (0..n) \X (1..horizon) : row[1] + row[2] < n}
FitReads(n) == UNION {Reads(n, row[1], row[2]) \cup {row[1] + row[2]} : row \in Rows(n)}
FitRaises(n) == \E row \in Rows(n) : ~(TargetReads(row[1] + 1) \subseteq 0..row[1])

\* _predict_series forecasts from the last observation it is given.  It raises
\* for no series for which the fit has not.
PredictReads(n) == UNION {Reads(n, n - 1, step) : step \in 1..horizon}

\* Mistake: the season starts a step late.
SeasonalNaiveLate(n, step) ==
    IF n < season THEN n - 1
    ELSE IF season = 0 THEN -1
    ELSE Index(n, -season + PyMod(step, season))

\* The observation the baseline repeats, -1 if there is none (modulo by zero).
SeasonalNaive(n, step) ==
    IF n < season THEN n - 1
    ELSE IF season = 0 THEN -1
    ELSE Index(n, -season + PyMod(step - 1, season))

NaiveRaises(n) == \E step \in 1..horizon : SeasonalNaive(n, step) \notin 0..(n - 1)

-----------------------------------------------------------------------------
(* train_lightgbm *)

\* Series must be longer than the horizon.
Start ==
    /\ pc = "start"
    /\ IF MinLength <= horizon
       THEN pc' = "failed" /\ UNCHANGED windows
       ELSE pc' = "folds" /\ windows' = ValidWindows
    /\ UNCHANGED <<input, fold, residuals, seen>>

\* Mistake: the truth begins one observation late.
TruthLate(cutoff, step) == cutoff + step

\* The observation a prediction is compared with.
Truth(cutoff, step) == cutoff + step - 1

\* Windows are taken from the last, which leaves most of the series, to the
\* first; a series without history is passed over.
Fold ==
    LET trim == windows[Len(windows) - fold]
        cutoff(i) == length[i] - trim - horizon
        training(i) == Trimmed(length[i], trim + horizon)
        scored == {i \in Series : cutoff(i) >= 1}
    IN
    /\ pc = "folds" /\ fold < Len(windows)
    /\ IF \/ \E i \in Series : FitRaises(training(i))
          \/ \E i \in scored : NaiveRaises(training(i))
       THEN pc' = "failed" /\ UNCHANGED <<fold, residuals, seen>>
       ELSE /\ fold' = fold + 1
            /\ residuals' = residuals \cup
                   {[fold |-> fold + 1, item |-> i, step |-> step,
                     origin |-> training(i) - 1,
                     truth |-> Truth(cutoff(i), step),
                     naive |-> SeasonalNaive(training(i), step)] :
                        i \in scored, step \in 1..horizon}
            /\ seen' = [i \in Series |-> FitReads(training(i)) \cup
                   (IF i \in scored THEN PredictReads(training(i)) ELSE {})]
            /\ UNCHANGED pc
    /\ UNCHANGED <<input, windows>>

\* The estimators that are kept are fitted on all there is.
Finish ==
    /\ pc = "folds" /\ fold = Len(windows)
    /\ pc' = IF \E i \in Series : FitRaises(length[i]) THEN "failed" ELSE "done"
    /\ UNCHANGED <<input, windows, fold, residuals, seen>>

Next == Start \/ Fold \/ Finish

Spec == Init /\ [][Next]_vars

-----------------------------------------------------------------------------
(* Properties *)

Scores ==
    [fold : Nat \ {0}, item : Series, step : Nat \ {0}, origin : Nat, truth : Nat, naive : Nat]

TypeOK ==
    /\ length \in [Series -> Lengths]
    /\ horizon \in Horizons /\ requested \in WindowCounts /\ season \in Seasons
    /\ pc \in {"start", "folds", "done", "failed"}
    /\ windows \in Seq(Nat) /\ fold \in 0..Len(windows)
    /\ residuals \subseteq Scores
    /\ \A r \in residuals : {r.origin, r.truth, r.naive} \subseteq 0..(length[r.item] - 1)
    /\ seen \in [Series -> SUBSET Int]

\* "Nothing may calculate across the fold cutoff": what a fold read of a
\* series, to fit or to predict, lies before everything it was scored on, and
\* a prediction for step s is compared with the observation s after its origin.
NoLookahead ==
    \A r \in residuals :
        /\ r.truth = r.origin + r.step
        /\ r.fold = fold => \A p \in seen[r.item] : 0 <= p /\ p <= r.origin

\* After k of n folds every series has been scored, each observation once, on
\* exactly the stretch of k horizons that ends n - k horizons before its end:
\* no fold is short, skipped or scored twice, and the last is the most recent.
ScoredOnce ==
    \A i \in Series :
        LET mine == {r \in residuals : r.item = i}
            last == length[i] - (Len(windows) - fold) * horizon
        IN  /\ {r.truth : r \in mine} = (last - fold * horizon)..(last - 1)
            /\ Cardinality(mine) = fold * horizon

\* The baseline for a step is the latest known observation of the same phase
\* of the season, or the last one of a history shorter than a season.
BaselineInPhase ==
    \A r \in residuals :
        IF r.origin + 1 < season THEN r.naive = r.origin
        ELSE r.naive = Max({p \in 0..r.origin : (r.truth - p) % season = 0})

\* A seasonal period below one, which the manifest lets through, never yields
\* a model: the training fails.
BadSeasonFails == pc = "done" => season >= 1

=============================================================================
