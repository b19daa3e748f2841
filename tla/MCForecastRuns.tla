---------------------------- MODULE MCForecastRuns ----------------------------
(***************************************************************************)
(* Instances of ForecastRuns for TLC: one forecast of the first of two      *)
(* models, both of which may be promoted, and the first retired, meanwhile. *)
(***************************************************************************)
EXTENDS ForecastRuns, TLC

CONSTANTS j1, m1, m2, p1, p2, t1

\* Every create request is about the one forecast, which is of model m1.
OneForecast == [x \in Requests \cup Cancels |-> j1]
ModelOfForecast == [j \in Jobs |-> m1]

TargetOf == [x \in Promotions \cup Retirements |-> IF x = p2 THEN m2 ELSE m1]

\* The first model may have lost to its baseline.
SomeBeaten == {{m1, m2}, {m2}}

AllBeaten == {{m1, m2}}

\* Forecasts read of the registry which models are ready, which promotions leave
\* alone.  So jobs run beside retirements, but beside one state of the rest only;
\* promotions run beside retirements, before there is a forecast.
Apart ==
    \/ \A r \in Requests : admitted[r] = "no"
    \/ /\ beaten = Models /\ Champions = {}
       /\ \A p \in Promotions : promotion[p].pc = "idle"

ApartSpec == Init /\ [][Next /\ Apart']_vars

\* The requests of the client that repeats itself, the threads and the contents
\* are interchangeable.
Symmetry == Permutations(Requests) \cup Permutations(Slots) \cup Permutations(Contents)

=============================================================================
