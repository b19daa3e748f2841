------------------------------ MODULE MCDataPath ------------------------------
(***************************************************************************)
(* Instances of Canonical, Backtest, Prediction and Monitoring for TLC, in *)
(* one run.  They share no state: a behaviour studies one of the four from *)
(* all of its initial states, and the others rest at one of theirs.        *)
(*                                                                         *)
(* Backtest: two series, lengths up to eight observations or four horizons *)
(* of two, and a seasonal period on either side of zero.  Prediction: two  *)
(* items with histories of up to three observations that end together or   *)
(* one period apart.  Monitoring: two forecasts and one key, as keys do    *)
(* not interact.                                                           *)
(***************************************************************************)
EXTENDS MCCanonical, Backtest, Prediction, Monitoring, TLC

CONSTANTS g1, g2, b1, b2

VARIABLE study  \* which of the four is looked at

dataPathVars == <<study, canonicalVars, vars, forecastVars, monitoringVars>>

BacktestLengths == 1..8
BacktestHorizons == 1..3
BacktestCounts == 1..3
BacktestSeasons == -2..4

PredictionLengths == 1..3
PredictionPeriods == 1..3
PredictionEnds == 3..4
PredictionGaps == 1..2

TwoForecasts == 1..2

\* Values of metadata and contents are interchangeable.
Symmetry ==
    Permutations({g1, g2}) \cup Permutations({b1, b2})

CanonicalRests ==
    /\ table = << >>
    /\ manifest = [policy |-> "reject", nonNegative |-> FALSE, declared |-> {"time", "target"}]
    /\ check = "columns" /\ data = << >>

BacktestRests ==
    /\ length = [i \in Series |-> 1] /\ horizon = 1 /\ requested = 1 /\ season = 1
    /\ pc = "start" /\ windows = << >> /\ fold = 0 /\ residuals = {}
    /\ seen = [i \in Series |-> {}]

PredictionRests ==
    /\ artifact = [length |-> [i \in Items |-> 2], end |-> [i \in Items |-> 3],
                   gap |-> [i \in Items |-> 1], kind |-> [i \in Items |-> NotGiven],
                   flat |-> {}, season |-> 1]
    /\ frame = [end |-> artifact.end, gap |-> artifact.gap]
    /\ steps = 1 /\ part = "horizon" /\ rows = {} /\ totals = {} /\ cold = {}

MonitoringRests ==
    MonitoringInit /\ backend = "local" /\ covers = [f \in Forecasts |-> {}]

DataPathInit ==
    \/ /\ study = "canonical" /\ CanonicalInit
       /\ BacktestRests /\ PredictionRests /\ MonitoringRests
    \/ /\ study = "backtest" /\ Init
       /\ CanonicalRests /\ PredictionRests /\ MonitoringRests
    \/ /\ study = "prediction" /\ ForecastInit
       /\ CanonicalRests /\ BacktestRests /\ MonitoringRests
    \/ /\ study = "monitoring" /\ MonitoringInit
       /\ CanonicalRests /\ BacktestRests /\ PredictionRests

DataPathNext ==
    \/ /\ study = "canonical" /\ CanonicalNext
       /\ UNCHANGED <<study, vars, forecastVars, monitoringVars>>
    \/ /\ study = "backtest" /\ Next
       /\ UNCHANGED <<study, canonicalVars, forecastVars, monitoringVars>>
    \/ /\ study = "prediction" /\ ForecastNext
       /\ UNCHANGED <<study, canonicalVars, vars, monitoringVars>>
    \/ /\ study = "monitoring" /\ MonitoringNext
       /\ UNCHANGED <<study, canonicalVars, vars, forecastVars>>

DataPathSpec == DataPathInit /\ [][DataPathNext]_dataPathVars

=============================================================================
