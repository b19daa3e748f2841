---------------------------- MODULE ModelingProofs ----------------------------
(***************************************************************************)
(* Proofs about what the models say, and how well:                         *)
(*                                                                         *)
(*   Backtest, for any series, horizon, number of windows and seasonal     *)
(*   period;                                                               *)
(*   Prediction, for any number of items, any season and any horizon;      *)
(*   Monitoring, for any number of forecasts, keys and actuals.            *)
(***************************************************************************)
EXTENDS Backtest, Prediction, Monitoring, TLAPS, FiniteSetTheorems, WellFoundedInduction,
    SequenceTheorems

(***************************************************************************)
(* Numbers and lists                                                       *)
(***************************************************************************)

\* A set of natural numbers has a least element.
LEMMA LeastNatural ==
  ASSUME NEW S \in SUBSET Nat, S # {}
  PROVE  Min(S) \in S /\ \A n \in S : Min(S) <= n
<1> DEFINE R == {pair \in Nat \X Nat : pair[1] < pair[2]}
<1>1. OpToRel(<, Nat) = R
  BY Zenon DEF OpToRel
<1>2. IsWellFoundedOn(R, Nat)
  BY <1>1, NatLessThanWellFounded, Zenon
<1>a. \A n, m \in Nat : n < m => <<n, m>> \in R
  OBVIOUS
<1> HIDE DEF R
<1>3. \E m \in S : \A n \in S : <<n, m>> \notin R
  BY <1>2, WFMin
<1>4. PICK m \in S : \A n \in S : <<n, m>> \notin R
  BY <1>3
<1>5. \A n \in S : m <= n
  <2> SUFFICES ASSUME NEW n \in S, n < m PROVE FALSE
    OBVIOUS
  <2>1. <<n, m>> \in R
    BY <1>a
  <2> QED
    BY <1>4, <2>1
<1> QED
  BY <1>5 DEF Min

\* The lesser and the greater of two integers.
LEMMA TwoNumbers ==
  ASSUME NEW a \in Int, NEW b \in Int
  PROVE  /\ Min({a, b}) = IF a <= b THEN a ELSE b
         /\ Max({a, b}) = IF a >= b THEN a ELSE b
<1>1. \A x \in {a, b} : (\A y \in {a, b} : x =< y) <=> (x = IF a <= b THEN a ELSE b)
  OBVIOUS
<1>2. \A x \in {a, b} : (\A y \in {a, b} : x >= y) <=> (x = IF a >= b THEN a ELSE b)
  OBVIOUS
<1> QED
  BY <1>1, <1>2 DEF Min, Max

\* Python's remainder by a positive number.
LEMMA Remainder ==
  ASSUME NEW a \in Nat, NEW b \in Nat \ {0}
  PROVE  PyMod(a, b) \in 0..(b - 1)
  BY DEF PyMod

\* Division with remainder.
LEMMA Division ==
  ASSUME NEW a \in Nat, NEW b \in Nat \ {0}
  PROVE  \E q \in Nat, below \in 0..(b - 1) : a = q * b + below
<1> DEFINE q == a \div b
<1>1. q \in Nat /\ b * q <= a /\ a < b * q + b
  BY Z3T(20)
<1>2. b * q = q * b /\ q * b \in Nat
  BY <1>1
<1> HIDE DEF q
<1>3. q * b <= a /\ a < q * b + b
  BY <1>1, <1>2
<1>4. a - q * b \in 0..(b - 1) /\ a = q * b + (a - q * b)
  <2> DEFINE product == q * b
  <2>1. product \in Nat /\ product <= a /\ a < product + b
    BY <1>2, <1>3
  <2> HIDE DEF product
  <2>2. a - product \in 0..(b - 1) /\ a = product + (a - product)
    BY <2>1
  <2> QED
    BY <2>2 DEF product
<1> QED
  BY <1>1, <1>4

\* The quotient and the remainder of a number are the only ones there are.
LEMMA Quotient ==
  ASSUME NEW a \in Nat, NEW b \in Nat \ {0}
  PROVE  a \div b \in Nat /\ a % b \in 0..(b - 1) /\ a % b = a - b * (a \div b)
  BY Z3T(30)

\* A multiple, and nothing else, has no remainder.
LEMMA ZeroRemainder ==
  ASSUME NEW a \in Int, NEW b \in Nat \ {0}
  PROVE  /\ \A m \in Int : a = b * m => a % b = 0
         /\ a % b = 0 => \E m \in Int : a = b * m
<1>1. ASSUME NEW m \in Int, a = b * m
      PROVE  a % b = 0
  BY <1>1, Z3T(30)
<1>2. ASSUME a % b = 0
      PROVE  \E m \in Int : a = b * m
  BY <1>2, Z3T(30)
<1> QED
  BY <1>1, <1>2

\* A negative seasonal period has no remainder at the first step.
LEMMA NoRemainder ==
  ASSUME NEW b \in Int, b < 0
  PROVE  PyMod(0, b) = 0
  BY DEF PyMod

(***************************************************************************)
(* Backtest: what is read                                                  *)
(***************************************************************************)

\* With a positive seasonal period the features of a history of n observations
\* read that history and nothing else.
LEMMA TargetsInHistory ==
  ASSUME NEW n \in Nat \ {0}, season \in Int, season >= 1
  PROVE  TargetReads(n) \subseteq 0..(n - 1)
<1>1. \A lag \in Lags : lag \in Nat \ {0}
  BY DEF Lags
<1>2. \A lag \in {l \in Lags : n >= l} : Index(n, -lag) \in 0..(n - 1)
  BY <1>1 DEF Index
<1>3. LastOf(n, 3) \subseteq 0..(n - 1)
  BY TwoNumbers DEF LastOf
<1>4. LastOf(n, season) \subseteq 0..(n - 1)
  BY TwoNumbers DEF LastOf
<1> QED
  BY <1>2, <1>3, <1>4 DEF TargetReads

\* The rows a series of n observations is trained on read these n.
LEMMA FitInHistory ==
  ASSUME NEW n \in Nat \ {0}, season \in Int, season >= 1, horizon \in Nat \ {0}
  PROVE  FitReads(n) \subseteq 0..(n - 1)
<1>1. ASSUME NEW row \in Rows(n)
      PROVE  Reads(n, row[1], row[2]) \cup {row[1] + row[2]} \subseteq 0..(n - 1)
  <2>1. row[1] \in Nat /\ row[2] \in Nat \ {0} /\ row[1] + row[2] < n
    BY DEF Rows
  <2>2. TargetReads(row[1] + 1) \subseteq 0..row[1]
    BY <2>1, TargetsInHistory
  <2> QED
    BY <2>1, <2>2 DEF Reads
<1> QED
  BY <1>1 DEF FitReads

\* And so does a prediction from the last of them.
LEMMA PredictInHistory ==
  ASSUME NEW n \in Nat \ {0}, season \in Int, season >= 1, horizon \in Nat \ {0}
  PROVE  PredictReads(n) \subseteq 0..(n - 1)
<1>1. TargetReads(n) \subseteq 0..(n - 1)
  BY TargetsInHistory
<1>2. \A step \in 1..horizon : Reads(n, n - 1, step) \subseteq 0..(n - 1)
  BY <1>1 DEF Reads
<1> QED
  BY <1>2 DEF PredictReads

\* The baseline repeats an observation of the history.
LEMMA NaiveInHistory ==
  ASSUME NEW n \in Nat \ {0}, season \in Int, season >= 1, NEW step \in Nat \ {0}
  PROVE  SeasonalNaive(n, step) \in 0..(n - 1)
<1>1. PyMod(step - 1, season) \in 0..(season - 1)
  BY Remainder
<1> QED
  BY <1>1 DEF SeasonalNaive, Index

\* With a seasonal period below one a series of n observations raises: in the
\* fit if it has a training row, in the baseline otherwise.
LEMMA BadSeasonRaises ==
  ASSUME NEW n \in Nat \ {0}, season \in Int, season < 1, horizon \in Nat \ {0}
  PROVE  FitRaises(n) \/ NaiveRaises(n)
<1>1. CASE season = 0
  BY <1>1 DEF NaiveRaises, SeasonalNaive
<1>2. CASE season < 0 /\ n = 1
  <2>1. SeasonalNaive(n, 1) = -season
    BY <1>2, NoRemainder DEF SeasonalNaive, Index
  <2> QED
    BY <1>2, <2>1 DEF NaiveRaises
<1>3. CASE season < 0 /\ n > 1
  <2>1. <<0, 1>> \in Rows(n)
    BY <1>3 DEF Rows
  <2>2. Index(1, -(2 * season)) = -(2 * season)
    BY <1>3 DEF Index
  <2>3. -(2 * season) \in TargetReads(1)
    BY <1>3, <2>2 DEF TargetReads, Lags
  <2> DEFINE row == <<0, 1>>
  <2>4. row[1] = 0 /\ row[1] + 1 = 1
    OBVIOUS
  <2>5. ~(TargetReads(row[1] + 1) \subseteq 0..row[1])
    BY <1>3, <2>3, <2>4
  <2> QED
    BY <2>1, <2>5 DEF FitRaises
<1> QED
  BY <1>1, <1>2, <1>3

(***************************************************************************)
(* Backtest: the inductive invariant                                       *)
(***************************************************************************)

\* The observations of series i a fold has before those it is scored on.
Known(f, i) == length[i] - (Len(windows) - f) * horizon - horizon

\* What fold f adds for step s of series i.
Score(f, i, s) ==
    [fold |-> f, item |-> i, step |-> s, origin |-> Known(f, i) - 1,
     truth |-> Known(f, i) + s - 1, naive |-> SeasonalNaive(Known(f, i), s)]

InputInv ==
    /\ length \in [Series -> Lengths]
    /\ horizon \in Horizons /\ requested \in WindowCounts /\ season \in Seasons

\* The windows are whole horizons apart and leave every series a history.
PlanInv ==
    /\ pc \in {"start", "folds", "done", "failed"}
    /\ windows \in Seq(Nat) /\ fold \in 0..Len(windows)
    /\ pc \in {"folds", "done"} => Len(windows) >= 1
    /\ pc = "start" => windows = << >>
    /\ pc = "done" => fold = Len(windows)
    /\ \A k \in 1..Len(windows) :
          /\ windows[k] = (k - 1) * horizon
          /\ \A i \in Series : windows[k] + horizon < length[i]

\* The scores are those of the folds so far, all of them and no other.
ScoreInv ==
    /\ residuals = {Score(f, i, s) : f \in 1..fold, i \in Series, s \in 1..horizon}
    /\ fold # 0 => season >= 1

\* The latest fold has read what was known to it.
SeenInv ==
    /\ seen \in [Series -> SUBSET Int]
    /\ fold # 0 => \A i \in Series : seen[i] \subseteq 0..(Known(fold, i) - 1)

IInv == InputInv /\ PlanInv /\ ScoreInv /\ SeenInv

\* The input consists of numbers.
LEMMA InputTypes ==
  ASSUME InputInv
  PROVE  /\ \A i \in Series : length[i] \in Nat \ {0}
         /\ horizon \in Nat \ {0} /\ requested \in Nat \ {0} /\ season \in Int
  BY BacktestAssumption DEF InputInv

\* Every fold has a history of at least one observation of every series.
LEMMA KnownPositive ==
  ASSUME InputInv, PlanInv, NEW f \in 1..Len(windows), NEW i \in Series
  PROVE  Known(f, i) \in Nat \ {0}
<1> DEFINE k == Len(windows) - f + 1
<1>1. Len(windows) \in Nat
  BY LenProperties DEF PlanInv
<1>2. k \in 1..Len(windows) /\ k - 1 = Len(windows) - f
  BY <1>1
<1>3. windows[k] = (k - 1) * horizon /\ windows[k] + horizon < length[i]
  BY <1>2 DEF PlanInv
<1>4. (k - 1) * horizon \in Int
  BY <1>2, <1>1, InputTypes
<1>5. Known(f, i) = length[i] - (k - 1) * horizon - horizon
  BY <1>2 DEF Known
<1> HIDE DEF k
<1> QED
  BY <1>3, <1>4, <1>5, InputTypes

\* _valid_windows: with the shortest series longer than the horizon there is a
\* window, and every window leaves every series a history.
LEMMA WindowsFit ==
  ASSUME InputInv, MinLength > horizon
  PROVE  /\ ValidWindows \in Seq(Nat) /\ Len(ValidWindows) \in Nat \ {0}
         /\ \A k \in 1..Len(ValidWindows) :
               /\ ValidWindows[k] = (k - 1) * horizon
               /\ \A i \in Series : ValidWindows[k] + horizon < length[i]
<1> DEFINE q == MinLength \div horizon
           count == Max({0, Min({requested, q - 1})})
           W == [k \in 1..count |-> (k - 1) * horizon]
<1>1. MinLength \in Nat /\ \A i \in Series : MinLength <= length[i]
  <2> DEFINE S == {length[i] : i \in Series}
  <2>1. S \in SUBSET Nat /\ S # {}
    BY InputTypes, BacktestAssumption
  <2>2. Min(S) \in S /\ \A n \in S : Min(S) <= n
    BY <2>1, LeastNatural
  <2> QED
    BY <2>1, <2>2 DEF MinLength
<1>2. q \in Nat /\ q * horizon <= MinLength
  BY <1>1, InputTypes
<1>3. count \in Nat /\ (count # 0 => count <= q - 1)
  <2> HIDE DEF q
  <2> DEFINE least == Min({requested, q - 1})
  <2>1. least \in Int /\ least <= q - 1
    BY <1>2, TwoNumbers, InputTypes
  <2>2. count = Max({0, least})
    OBVIOUS
  <2> HIDE DEF least, count
  <2> QED
    BY <2>1, <2>2, TwoNumbers
<1>4. ValidWindows = IF count = 0 THEN <<0>> ELSE W
  BY DEF ValidWindows
<1>5. CASE count = 0
  BY <1>1, <1>4, <1>5, InputTypes
<1>6. CASE count # 0
  <2>1. \A k \in 1..count : (k - 1) * horizon \in Nat
    BY <1>3, InputTypes
  <2> HIDE DEF count, q
  <2>2. W \in [1..count -> Nat]
    BY <2>1
  <2>3. W \in Seq(Nat) /\ Len(W) = count
    BY <1>3, <2>2, SeqDef, LenProperties
  <2>4. ASSUME NEW k \in 1..count, NEW i \in Series
        PROVE  (k - 1) * horizon + horizon < length[i]
    <3>1. (k - 1) * horizon + horizon = k * horizon
      BY <1>3, InputTypes
    <3>2. k * horizon <= (q - 1) * horizon
      BY <1>2, <1>3, <1>6, InputTypes
    <3>3. (q - 1) * horizon = q * horizon - horizon
      BY <1>2, InputTypes
    <3>4. k * horizon \in Int /\ (q - 1) * horizon \in Int /\ q * horizon \in Int
      BY <1>2, <1>3, InputTypes
    <3> QED
      BY <1>1, <1>2, <3>1, <3>2, <3>3, <3>4, InputTypes
  <2> QED
    BY <1>3, <1>4, <1>6, <2>3, <2>4
<1> QED
  BY <1>5, <1>6

\* The invariant holds of any input before training starts.
LEMMA InitIInv == Init => IInv
<1> SUFFICES ASSUME Init PROVE IInv
  OBVIOUS
<1>1. Len(windows) = 0 /\ windows \in Seq(Nat)
  BY EmptySeq DEF Init
<1> QED
  BY <1>1 DEF Init, IInv, InputInv, PlanInv, ScoreInv, SeenInv

\* Known and Score depend on the input and the windows only.
LEMMA ScoresStay ==
  ASSUME UNCHANGED <<input, windows>>
  PROVE  /\ \A f, i : Known(f, i)' = Known(f, i)
         /\ \A f, i, s : Score(f, i, s)' = Score(f, i, s)
  BY DEF Known, Score, input, SeasonalNaive, Index, PyMod

\* It is kept by the planning of the windows ...
LEMMA StartIInv == IInv /\ Start => IInv'
<1> SUFFICES ASSUME IInv, Start PROVE IInv'
  OBVIOUS
<1>1. InputInv'
  BY DEF IInv, InputInv, Start, input
<1>2. fold = 0 /\ residuals = {} /\ Len(windows) = 0
  BY EmptySeq DEF IInv, PlanInv, ScoreInv, Start
<1>3. fold' = 0 /\ residuals' = {} /\ seen' = seen
  BY <1>2 DEF Start
<1>4. PlanInv'
  <2>1. CASE MinLength <= horizon
    BY <2>1, <1>2, <1>3 DEF IInv, PlanInv, Start, input
  <2>2. CASE ~(MinLength <= horizon)
    <3>1. MinLength > horizon
      <4> DEFINE S == {length[i] : i \in Series}
      <4>1. S \in SUBSET Nat /\ S # {}
        BY InputTypes, BacktestAssumption DEF IInv
      <4>2. Min(S) \in Nat
        BY <4>1, LeastNatural
      <4> QED
        BY <2>2, <4>2, InputTypes DEF IInv, MinLength
    <3>2. windows' = ValidWindows /\ pc' = "folds" /\ UNCHANGED input
      BY <2>2 DEF Start
    <3> QED
      BY <3>1, <3>2, <1>3, WindowsFit DEF IInv, PlanInv, input
  <2> QED
    BY <2>1, <2>2
<1> QED
  BY <1>1, <1>3, <1>4 DEF IInv, ScoreInv, SeenInv

\* ... by a fold: all series have a history, the season is positive because
\* nothing was raised, and what is read and scored is what the invariant says ...
LEMMA FoldIInv == IInv /\ Fold => IInv'
<1> SUFFICES ASSUME IInv, Fold PROVE IInv'
  OBVIOUS
<1> DEFINE trim == windows[Len(windows) - fold]
           cutoff(i) == length[i] - trim - horizon
           training(i) == Trimmed(length[i], trim + horizon)
           scored == {i \in Series : cutoff(i) >= 1}
           raises == \/ \E i \in Series : FitRaises(training(i))
                     \/ \E i \in scored : NaiveRaises(training(i))
<1>1. InputInv' /\ UNCHANGED <<input, windows>>
  BY DEF IInv, InputInv, Fold, input
<1>2. CASE raises
  <2>1. pc' = "failed" /\ UNCHANGED <<fold, residuals, seen>>
    BY <1>2 DEF Fold
  <2>2. PlanInv'
    BY <1>1, <2>1 DEF IInv, PlanInv, input
  <2>3. ScoreInv'
    BY <1>1, <2>1, ScoresStay DEF IInv, ScoreInv, input
  <2>4. SeenInv'
    BY <1>1, <2>1, ScoresStay DEF IInv, SeenInv, input
  <2> QED
    BY <1>1, <2>2, <2>3, <2>4 DEF IInv
<1>3. CASE ~raises
  <2> DEFINE next == fold + 1
  <2>1. Len(windows) \in Nat /\ fold \in Nat /\ fold < Len(windows)
    BY LenProperties DEF IInv, PlanInv, Fold
  <2>2. next \in 1..Len(windows) /\ Len(windows) - fold \in 1..Len(windows)
    BY <2>1
  <2>3. ASSUME NEW i \in Series
        PROVE  /\ Known(next, i) \in Nat \ {0}
               /\ cutoff(i) = Known(next, i)
               /\ training(i) = Known(next, i)
    <3>1. Known(next, i) \in Nat \ {0}
      BY <2>2, KnownPositive DEF IInv
    <3>2. trim = (Len(windows) - next) * horizon /\ trim \in Nat
      BY <2>1, <2>2, ElementOfSeq DEF IInv, PlanInv
    <3>3. cutoff(i) = Known(next, i)
      BY <3>2 DEF Known
    <3>4. training(i) = length[i] - (trim + horizon)
      BY <3>1, <3>2, <3>3, InputTypes DEF Trimmed, IInv
    <3> QED
      BY <3>1, <3>2, <3>3, <3>4, InputTypes DEF IInv
  <2>4. scored = Series
    BY <2>3
  <2>5. season \in Int /\ horizon \in Nat \ {0}
    BY InputTypes DEF IInv
  <2>6. season >= 1
    <3>1. PICK i \in Series : TRUE
      BY BacktestAssumption
    <3>2. ~FitRaises(Known(next, i)) /\ ~NaiveRaises(Known(next, i))
      BY <1>3, <2>3, <2>4
    <3> QED
      BY <2>3, <2>5, <3>2, BadSeasonRaises
  <2>7. /\ fold' = next /\ pc' = "folds"
        /\ residuals' = residuals \cup
              {[fold |-> next, item |-> i, step |-> s, origin |-> training(i) - 1,
                truth |-> Truth(cutoff(i), s), naive |-> SeasonalNaive(training(i), s)] :
                   i \in scored, s \in 1..horizon}
        /\ seen' = [i \in Series |-> FitReads(training(i)) \cup
              (IF i \in scored THEN PredictReads(training(i)) ELSE {})]
    BY <1>3 DEF Fold
  <2>8. PlanInv'
    <3>1. pc = "folds" /\ pc' = "folds" /\ fold' \in 0..Len(windows)
      BY <2>1, <2>2, <2>7 DEF Fold
    <3>2. windows' = windows /\ horizon' = horizon /\ length' = length
      BY <1>1 DEF input
    <3>3. PlanInv
      BY DEF IInv
    <3> QED
      BY <3>1, <3>2, <3>3 DEF PlanInv
  <2>9. ScoreInv'
    <3>1. residuals' = residuals \cup {Score(next, i, s) : i \in Series, s \in 1..horizon}
      BY <2>3, <2>4, <2>5, <2>7 DEF Score, Truth
    <3>2. residuals' = {Score(f, i, s) : f \in 1..next, i \in Series, s \in 1..horizon}
      BY <3>1, <2>1 DEF IInv, ScoreInv
    <3> QED
      BY <1>1, <2>6, <2>7, <3>2, ScoresStay DEF ScoreInv, input
  <2>10. SeenInv'
    <3>1. \A i \in Series : seen'[i] \subseteq 0..(Known(next, i) - 1)
      BY <2>3, <2>5, <2>6, <2>7, FitInHistory, PredictInHistory
    <3>2. \A i \in Series : 0..(Known(next, i) - 1) \subseteq Int
      OBVIOUS
    <3>3. seen' \in [Series -> SUBSET Int]
      BY <2>7, <3>1, <3>2
    <3> QED
      BY <1>1, <2>7, <3>1, <3>3, ScoresStay DEF SeenInv
  <2> QED
    BY <1>1, <2>8, <2>9, <2>10 DEF IInv
<1> QED
  BY <1>2, <1>3

\* ... and by the final fit.
LEMMA FinishIInv == IInv /\ Finish => IInv'
<1> SUFFICES ASSUME IInv, Finish PROVE IInv'
  OBVIOUS
<1>1. UNCHANGED <<input, windows, fold, residuals, seen>> /\ pc' \in {"done", "failed"}
      /\ pc = "folds" /\ fold = Len(windows)
  BY DEF Finish
<1>2. InputInv' /\ PlanInv'
  BY <1>1 DEF IInv, InputInv, PlanInv, input
<1>3. ScoreInv' /\ SeenInv'
  BY <1>1, ScoresStay DEF IInv, ScoreInv, SeenInv, input
<1> QED
  BY <1>2, <1>3 DEF IInv

\* So does a step that changes nothing.
LEMMA StutterIInv == IInv /\ UNCHANGED vars => IInv'
<1> SUFFICES ASSUME IInv, UNCHANGED vars PROVE IInv'
  OBVIOUS
<1>1. UNCHANGED <<input, windows, fold, residuals, seen, pc>>
  BY DEF vars
<1>2. InputInv' /\ PlanInv'
  BY <1>1 DEF IInv, InputInv, PlanInv, input
<1>3. ScoreInv' /\ SeenInv'
  BY <1>1, ScoresStay DEF IInv, ScoreInv, SeenInv, input
<1> QED
  BY <1>2, <1>3 DEF IInv

\* Training, fold by fold, for any dataset: the windows are whole horizons
\* apart, the scores are those of the folds so far, and a fold has read no
\* further than its history.
THEOREM InductiveInvariance == Spec => []IInv
<1>1. IInv /\ [Next]_vars => IInv'
  BY StartIInv, FoldIInv, FinishIInv, StutterIInv DEF Next
<1> QED
  BY <1>1, InitIInv, PTL DEF Spec

(***************************************************************************)
(* Backtest: the properties                                                *)
(***************************************************************************)

\* What a score of fold f is made of.
LEMMA ScoreFields ==
  ASSUME IInv, NEW r \in residuals
  PROVE  \E f \in 1..fold, i \in Series, s \in 1..horizon :
            /\ r = Score(f, i, s)
            /\ f \in 1..Len(windows)
            /\ Known(f, i) \in Nat \ {0}
            /\ season \in Nat \ {0}
<1>1. PICK f \in 1..fold, i \in Series, s \in 1..horizon : r = Score(f, i, s)
  BY DEF IInv, ScoreInv
<1>2. fold \in 0..Len(windows) /\ Len(windows) \in Nat
  BY LenProperties DEF IInv, PlanInv
<1>3. f \in 1..Len(windows) /\ fold # 0
  BY <1>2
<1>4. Known(f, i) \in Nat \ {0}
  BY <1>3, KnownPositive DEF IInv
<1>5. season \in Nat \ {0}
  BY <1>3, InputTypes DEF IInv, ScoreInv
<1> QED
  BY <1>1, <1>3, <1>4, <1>5

\* What a fold reads of a series lies before everything it is scored on, and
\* the score of step s compares with the observation s after the origin.
THEOREM Lookahead == Spec => []NoLookahead
<1>1. ASSUME IInv PROVE NoLookahead
  <2> SUFFICES ASSUME NEW r \in residuals
               PROVE  /\ r.truth = r.origin + r.step
                      /\ r.fold = fold => \A p \in seen[r.item] : 0 <= p /\ p <= r.origin
    BY DEF NoLookahead
  <2>1. PICK f \in 1..fold, i \in Series, s \in 1..horizon :
            r = Score(f, i, s) /\ Known(f, i) \in Nat \ {0}
    BY <1>1, ScoreFields
  <2>2. /\ r.truth = Known(f, i) + s - 1 /\ r.origin = Known(f, i) - 1
        /\ r.step = s /\ r.fold = f /\ r.item = i
    BY <2>1 DEF Score
  <2>3. f = fold => seen[i] \subseteq 0..(Known(f, i) - 1)
    BY <1>1 DEF IInv, SeenInv
  <2> QED
    BY <2>1, <2>2, <2>3
<1> QED
  BY <1>1, InductiveInvariance, PTL

\* Of a history of n observations, the baseline for a step repeats the latest one
\* that is whole seasons before the observation it is compared with.
LEMMA NaiveInPhase ==
  ASSUME NEW n \in Nat \ {0}, NEW step \in Nat \ {0},
         season \in Nat \ {0}, n >= season
  PROVE  SeasonalNaive(n, step) =
             Max({p \in 0..(n - 1) : ((n + step - 1) - p) % season = 0})
<1> DEFINE a == step - 1
           q == a \div season
           rest == a % season
           naive == n - season + rest
           phase == {p \in 0..(n - 1) : ((n + step - 1) - p) % season = 0}
<1>1. a \in Nat /\ n + step - 1 = n + a
  OBVIOUS
<1>2. q \in Nat /\ rest \in 0..(season - 1) /\ rest = a - season * q
  BY <1>1, Quotient
<1>3. SeasonalNaive(n, step) = naive
  BY <1>2 DEF SeasonalNaive, Index, PyMod
<1> HIDE DEF q, rest
<1>4. season * q \in Int /\ season * (q + 1) = season * q + season
  BY <1>2
<1>5. naive \in phase
  <2>1. (n + step - 1) - naive = season * (q + 1)
    BY <1>1, <1>2, <1>4
  <2>2. ((n + step - 1) - naive) % season = 0
    BY <1>2, <2>1, ZeroRemainder
  <2> QED
    BY <1>2, <2>2
<1>6. ASSUME NEW p \in phase
      PROVE  naive >= p
  <2> SUFFICES ASSUME p > naive PROVE FALSE
    BY <1>2
  <2>a. p \in Int /\ (n + step - 1) - p \in Int
    OBVIOUS
  <2>b. ((n + step - 1) - p) % season = 0
    OBVIOUS
  <2>1. PICK m \in Int : (n + step - 1) - p = season * m
    BY <2>a, <2>b, ZeroRemainder
  <2>2. season * m \in Int
    BY <2>1
  <2>3. season * m < season * q + season
    BY <1>1, <1>2, <1>4, <2>1, <2>2
  <2>4. season * m > season * q
    BY <1>1, <1>2, <1>4, <2>1, <2>2
  <2>5. m < q + 1
    BY <1>2, <1>4, <2>3, Z3T(20)
  <2>6. m > q
    BY <1>2, <2>4, Z3T(20)
  <2> QED
    BY <1>2, <2>5, <2>6
<1> HIDE DEF naive, phase
<1>7. phase \subseteq Int
  BY DEF phase
<1>8. Max(phase) = naive
  <2>1. \A x \in phase : (\A y \in phase : x >= y) <=> x = naive
    BY <1>5, <1>6, <1>7
  <2> QED
    BY <1>5, <2>1, Zenon DEF Max
<1> QED
  BY <1>3, <1>8 DEF phase

\* The baseline is in phase with what it is compared with.
THEOREM InPhase == Spec => []BaselineInPhase
<1>1. ASSUME IInv PROVE BaselineInPhase
  <2> SUFFICES ASSUME NEW r \in residuals
               PROVE  IF r.origin + 1 < season THEN r.naive = r.origin
                      ELSE r.naive =
                        Max({p \in 0..r.origin : (r.truth - p) % season = 0})
    BY DEF BaselineInPhase
  <2>1. PICK f \in 1..fold, i \in Series, s \in 1..horizon :
            r = Score(f, i, s) /\ Known(f, i) \in Nat \ {0} /\ season \in Nat \ {0}
    BY <1>1, ScoreFields
  <2>2. /\ r.truth = Known(f, i) + s - 1 /\ r.origin = Known(f, i) - 1
        /\ r.naive = SeasonalNaive(Known(f, i), s) /\ s \in Nat \ {0}
    BY <1>1, <2>1, InputTypes DEF Score, IInv
  <2>3. CASE r.origin + 1 < season
    BY <2>1, <2>2, <2>3 DEF SeasonalNaive
  <2>4. CASE ~(r.origin + 1 < season)
    <3>1. Known(f, i) >= season
      BY <2>1, <2>2, <2>4
    <3> QED
      BY <2>1, <2>2, <2>4, <3>1, NaiveInPhase
  <2> QED
    BY <2>3, <2>4
<1> QED
  BY <1>1, InductiveInvariance, PTL

\* Type correctness; every position that is compared is one of its series.
THEOREM TypeCorrectness == Spec => []TypeOK
<1>1. ASSUME IInv PROVE TypeOK
  <2>1. ASSUME NEW r \in residuals
        PROVE  r \in Scores /\ {r.origin, r.truth, r.naive} \subseteq 0..(length[r.item] - 1)
    <3>1. PICK f \in 1..fold, i \in Series, s \in 1..horizon :
              /\ r = Score(f, i, s) /\ f \in 1..Len(windows)
              /\ Known(f, i) \in Nat \ {0} /\ season \in Nat \ {0}
      BY <1>1, ScoreFields
    <3>3. Len(windows) \in Nat /\ length[i] \in Nat /\ horizon \in Nat \ {0}
      BY <1>1, LenProperties, InputTypes DEF IInv, PlanInv
    <3>2. SeasonalNaive(Known(f, i), s) \in 0..(Known(f, i) - 1)
      <4>1. s \in Nat \ {0} /\ season \in Int /\ season >= 1
        BY <3>1, <3>3
      <4> QED
        BY <3>1, <4>1, NaiveInHistory
    <3>4. (Len(windows) - f) * horizon \in Nat
      BY <3>1, <3>3
    <3>5. Known(f, i) + horizon <= length[i]
      BY <3>1, <3>3, <3>4 DEF Known
    <3>6. /\ r.origin = Known(f, i) - 1 /\ r.truth = Known(f, i) + s - 1
          /\ r.naive = SeasonalNaive(Known(f, i), s) /\ r.item = i
      BY <3>1 DEF Score
    <3>7. {r.origin, r.truth, r.naive} \subseteq 0..(length[r.item] - 1)
      BY <3>1, <3>2, <3>3, <3>5, <3>6
    <3>8. r \in Scores
      BY <3>1, <3>2, <3>3 DEF Score, Scores
    <3> QED
      BY <3>7, <3>8
  <2> QED
    BY <1>1, <2>1 DEF TypeOK, IInv, InputInv, PlanInv, SeenInv
<1> QED
  BY <1>1, InductiveInvariance, PTL

\* A seasonal period below one never yields a model.
THEOREM PositiveSeason == Spec => []BadSeasonFails
<1>1. IInv => BadSeasonFails
  BY LenProperties DEF IInv, PlanInv, ScoreInv, BadSeasonFails
<1> QED
  BY <1>1, InductiveInvariance, PTL

\* Every fold so far has scored every series, each observation once, on the
\* horizons that lie where the fold's window ends.
THEOREM Scored == Spec => []ScoredOnce
<1>1. ASSUME IInv, NEW i \in Series
      PROVE  LET mine == {r \in residuals : r.item = i}
                 last == length[i] - (Len(windows) - fold) * horizon
             IN  /\ {r.truth : r \in mine} = (last - fold * horizon)..(last - 1)
                 /\ Cardinality(mine) = fold * horizon
  <2> DEFINE mine == {r \in residuals : r.item = i}
             last == length[i] - (Len(windows) - fold) * horizon
             first == last - fold * horizon
             cells == (1..fold) \X (1..horizon)
             score == [cell \in cells |-> Score(cell[1], i, cell[2])]
  <2>1. /\ Len(windows) \in Nat /\ fold \in Nat /\ length[i] \in Nat
        /\ horizon \in Nat \ {0}
    BY <1>1, LenProperties, InputTypes DEF IInv, PlanInv
  <2>2. mine = {Score(f, i, s) : f \in 1..fold, s \in 1..horizon}
    BY <1>1 DEF IInv, ScoreInv, Score
  <2>3. first \in Int /\ last \in Int
    BY <2>1
  <2>4. ASSUME NEW f \in 1..fold, NEW s \in 1..horizon
        PROVE  Score(f, i, s).truth = first + (f - 1) * horizon + s - 1
    <3>1. Score(f, i, s).truth = length[i] - (Len(windows) - f) * horizon - horizon + s - 1
      BY DEF Score, Known
    <3>2. /\ (Len(windows) - f) * horizon = Len(windows) * horizon - f * horizon
          /\ (Len(windows) - fold) * horizon = Len(windows) * horizon - fold * horizon
          /\ (f - 1) * horizon = f * horizon - horizon
      BY <2>1
    <3>3. /\ Len(windows) * horizon \in Int /\ f * horizon \in Int
          /\ fold * horizon \in Int
      BY <2>1
    <3> QED
      BY <3>1, <3>2, <3>3, <2>1
  <2>5. ASSUME NEW f \in 1..fold, NEW s \in 1..horizon
        PROVE  (f - 1) * horizon + s - 1 \in 0..(fold * horizon - 1)
    <3>1. (f - 1) * horizon <= (fold - 1) * horizon /\ (f - 1) * horizon \in Nat
      BY <2>1
    <3>2. (fold - 1) * horizon = fold * horizon - horizon /\ fold * horizon \in Nat
      BY <2>1
    <3> QED
      BY <2>1, <3>1, <3>2
  <2>6. ASSUME NEW p \in 0..(fold * horizon - 1)
        PROVE  \E f \in 1..fold, s \in 1..horizon : p = (f - 1) * horizon + s - 1
    <3>1. fold * horizon \in Nat /\ p \in Nat /\ p < fold * horizon
      BY <2>1
    <3>2. PICK q \in Nat, below \in 0..(horizon - 1) : p = q * horizon + below
      BY <2>1, <3>1, Division
    <3>3. q >= fold => q * horizon >= fold * horizon
      BY <2>1
    <3>4. q * horizon \in Nat
      BY <2>1
    <3>5. q < fold
      <4> DEFINE start == q * horizon
                 end == fold * horizon
      <4>1. /\ start \in Nat /\ end \in Nat /\ p < end /\ p = start + below
            /\ q >= fold => start >= end
        BY <3>1, <3>2, <3>3, <3>4
      <4> HIDE DEF start, end
      <4> QED
        BY <2>1, <4>1
    <3>6. q + 1 \in 1..fold /\ below + 1 \in 1..horizon
      BY <2>1, <3>5
    <3>7. (q + 1) - 1 = q
      OBVIOUS
    <3>8. p = q * horizon + (below + 1) - 1
      <4> DEFINE start == q * horizon
      <4>1. start \in Nat /\ p = start + below
        BY <3>2, <3>4
      <4> HIDE DEF start
      <4>2. p = start + (below + 1) - 1
        BY <4>1
      <4> QED
        BY <4>2 DEF start
    <3> QED
      BY <3>6, <3>7, <3>8
  <2>7. {r.truth : r \in mine} = first..(last - 1)
    <3>1. fold * horizon \in Int
      BY <2>1
    <3>2. ASSUME NEW f \in 1..fold, NEW s \in 1..horizon
          PROVE  Score(f, i, s).truth \in first..(last - 1)
      <4> DEFINE offset == (f - 1) * horizon + s - 1
      <4>1. offset \in 0..(fold * horizon - 1)
        BY <2>5
      <4>2. Score(f, i, s).truth = first + offset
        <5>1. (f - 1) * horizon \in Int
          BY <2>1
        <5> QED
          BY <2>3, <2>4, <5>1
      <4>3. last = first + fold * horizon
        BY <2>3, <3>1
      <4> HIDE DEF offset, first, last
      <4> QED
        BY <2>3, <3>1, <4>1, <4>2, <4>3
    <3>3. ASSUME NEW p \in first..(last - 1)
          PROVE  \E f \in 1..fold, s \in 1..horizon : p = Score(f, i, s).truth
      <4>1. p - first \in 0..(fold * horizon - 1)
        BY <2>3, <3>1
      <4>2. PICK f \in 1..fold, s \in 1..horizon : p - first = (f - 1) * horizon + s - 1
        BY <2>6, <4>1
      <4>3. (f - 1) * horizon \in Int
        BY <2>1
      <4> QED
        BY <2>3, <2>4, <4>2, <4>3
    <3> HIDE DEF mine, first, last
    <3> QED
      BY <2>2, <3>2, <3>3
  <2>8. Cardinality(mine) = fold * horizon
    <3>1. IsFiniteSet(cells) /\ Cardinality(cells) = fold * horizon
      <4>1. 1 \in Int /\ fold \in Int /\ horizon \in Int
        BY <2>1
      <4>2. /\ IsFiniteSet(1..fold)
            /\ Cardinality(1..fold) = IF 1 > fold THEN 0 ELSE fold - 1 + 1
        BY <4>1, FS_Interval, Zenon
      <4>3. /\ IsFiniteSet(1..horizon)
            /\ Cardinality(1..horizon) = IF 1 > horizon THEN 0 ELSE horizon - 1 + 1
        BY <4>1, FS_Interval, Zenon
      <4>4. Cardinality(1..fold) = fold /\ Cardinality(1..horizon) = horizon
        BY <2>1, <4>2, <4>3
      <4>5. /\ IsFiniteSet(cells)
            /\ Cardinality(cells) = Cardinality(1..fold) * Cardinality(1..horizon)
        BY <4>2, <4>3, FS_Product, Zenon
      <4> QED
        BY <4>4, <4>5
    <3>2. \A f, g \in 1..fold, s, t \in 1..horizon :
              Score(f, i, s) = Score(g, i, t) => f = g /\ s = t
      BY DEF Score
    <3>3. score \in Bijection(cells, mine)
      <4>1. \A cell \in cells : cell[1] \in 1..fold /\ cell[2] \in 1..horizon
                /\ cell = <<cell[1], cell[2]>>
        OBVIOUS
      <4>2. score \in [cells -> mine]
        BY <2>2, <4>1
      <4>3. \A a, b \in cells : score[a] = score[b] => a = b
        BY <3>2, <4>1
      <4>4. ASSUME NEW r \in mine PROVE \E a \in cells : score[a] = r
        <5>1. PICK f \in 1..fold, s \in 1..horizon : r = Score(f, i, s)
          BY <2>2
        <5>2. <<f, s>> \in cells /\ score[<<f, s>>] = r
          BY <5>1
        <5> QED
          BY <5>2
      <4> HIDE DEF score, mine, cells
      <4> QED
        BY <4>2, <4>3, <4>4 DEF Bijection, Injection, Surjection, IsInjective
    <3> QED
      BY <3>1, <3>3, FS_Bijection DEF ExistsBijection
  <2> QED
    BY <2>7, <2>8
<1>2. IInv => ScoredOnce
  BY <1>1 DEF ScoredOnce
<1> QED
  BY <1>2, InductiveInvariance, PTL

(***************************************************************************)
(* Prediction: the inductive invariant                                     *)
(***************************************************************************)

Inputs ==
    /\ artifact.kind \in [Items -> Kinds \cup {NotGiven}]
    /\ artifact.season \in Nat \ {0}
    /\ \A i \in Items : artifact.end[i] \in Int /\ artifact.gap[i] \in Nat \ {0}
    /\ \A i \in Items : frame.end[i] \in Int /\ frame.gap[i] \in Nat \ {0}
    /\ \/ frame.end = artifact.end /\ frame.gap = artifact.gap
       \/ \A i \in Items : frame.end[i] > artifact.end[i]

TimesOf(i) == {r.time : r \in {r \in rows : r.item = i}}

RowsMade ==
    part \in {"totals", "cold", "done"} =>
        /\ \A r \in rows : r.item \in Items /\ r.covered
        /\ \A i \in Items : TimesOf(i) = {FutureTime(i, step) : step \in 1..steps}

TotalsMade == part \in {"cold", "done"} => totals = HierarchyRows

ForecastInv ==
    /\ Inputs
    /\ part \in {"horizon", "items", "totals", "cold", "done", "failed"}
    /\ steps \in Nat \cup {NotGiven}
    /\ part \in {"items", "totals", "cold", "done"} => steps \in Nat
    /\ RowsMade /\ TotalsMade /\ ColdStartInPhase

(***************************************************************************)
(* Prediction: the steps                                                   *)
(***************************************************************************)

\* The invariant holds before a row is made.
LEMMA ForecastInvInit == ForecastInit => ForecastInv
<1> SUFFICES ASSUME ForecastInit PROVE ForecastInv
    OBVIOUS
<1>1. /\ artifact.kind \in [Items -> Kinds \cup {NotGiven}]
      /\ artifact.season \in Periods
      /\ artifact.end \in [Items -> Ends] /\ artifact.gap \in [Items -> Gaps]
    BY DEF ForecastInit, Artifacts
<1>2. \/ frame.end = artifact.end /\ frame.gap = artifact.gap
      \/ \E later \in Gaps :
            /\ frame.end = [i \in Items |-> artifact.end[i] + later]
            /\ frame.gap = [i \in Items |-> later]
    <2>1. \/ frame = [end |-> artifact.end, gap |-> artifact.gap]
          \/ \E later \in Gaps :
                frame = [end |-> [i \in Items |-> artifact.end[i] + later],
                         gap |-> [i \in Items |-> later]]
        BY DEF ForecastInit, Frames
    <2>2. CASE frame = [end |-> artifact.end, gap |-> artifact.gap]
        BY <2>2
    <2>3. ASSUME NEW later \in Gaps,
                 frame = [end |-> [i \in Items |-> artifact.end[i] + later],
                          gap |-> [i \in Items |-> later]]
          PROVE  /\ frame.end = [i \in Items |-> artifact.end[i] + later]
                 /\ frame.gap = [i \in Items |-> later]
        BY <2>3
    <2> QED
        BY <2>1, <2>2, <2>3
<1>3. \A i \in Items : artifact.end[i] \in Int /\ artifact.gap[i] \in Nat \ {0}
    BY <1>1, PredictionAssumption
<1>4. \A later \in Gaps : later \in Nat \ {0}
    BY PredictionAssumption
<1>5. /\ \A i \in Items : frame.end[i] \in Int /\ frame.gap[i] \in Nat \ {0}
      /\ \/ frame.end = artifact.end /\ frame.gap = artifact.gap
         \/ \A i \in Items : frame.end[i] > artifact.end[i]
    <2>1. CASE frame.end = artifact.end /\ frame.gap = artifact.gap
        BY <1>3, <2>1
    <2>2. ASSUME NEW later \in Gaps, frame.end = [i \in Items |-> artifact.end[i] + later],
                 frame.gap = [i \in Items |-> later]
          PROVE  \A i \in Items : /\ frame.end[i] \in Int /\ frame.gap[i] \in Nat \ {0}
                                 /\ frame.end[i] > artifact.end[i]
        BY <1>3, <1>4, <2>2
    <2> QED
        BY <1>2, <2>1, <2>2
<1>6. Inputs
    BY <1>1, <1>3, <1>5, PredictionAssumption DEF Inputs
<1> QED
    BY <1>6 DEF ForecastInit, ForecastInv, RowsMade, TotalsMade, ColdStartInPhase

\* The rows of the items continue their series.
LEMMA ItemsStep ==
    ASSUME ForecastInv, NEW known \in BOOLEAN, NEW given, ForecastItems(known, given)
    PROVE  RowsMade'
<1>1. CASE part' = "failed"
    BY <1>1 DEF RowsMade
<1>2. CASE part' # "failed"
    <2> DEFINE Row(i, step) ==
            [item |-> i, step |-> step, time |-> FutureTime(i, step),
             covered |-> ~known \/ <<i, FutureTime(i, step)>> \in given]
    <2>1. /\ rows' = {Row(i, step) : i \in Items, step \in 1..steps}
          /\ known => Covered(given)
          /\ steps' = steps /\ frame' = frame
        BY <1>2 DEF ForecastItems
    <2>2. \A i \in Items, step \in 1..steps :
                /\ Row(i, step).covered /\ Row(i, step).item = i
                /\ Row(i, step).time = FutureTime(i, step)
        BY <2>1 DEF Covered
    <2> HIDE DEF Row
    <2>3. \A r \in rows' : r.item \in Items /\ r.covered
        BY <2>1, <2>2
    <2>4. \A i \in Items :
            {r.time : r \in {r \in rows' : r.item = i}} = {FutureTime(i, step) : step \in 1..steps}
        <3> TAKE i \in Items
        <3>1. \A r \in rows' : r.item = i => \E step \in 1..steps : r.time = FutureTime(i, step)
            BY <2>1, <2>2
        <3>2. \A step \in 1..steps :
                Row(i, step) \in rows' /\ Row(i, step).item = i
                    /\ Row(i, step).time = FutureTime(i, step)
            BY <2>1, <2>2
        <3> QED
            BY <3>1, <3>2
    <2>5. \A i, step : FutureTime(i, step)' = FutureTime(i, step)
        BY <2>1 DEF FutureTime
    <2> QED
        BY <2>1, <2>3, <2>4, <2>5 DEF RowsMade, TimesOf
<1> QED
    BY <1>1, <1>2

\* A position of the profile and the time it is used at are whole seasons apart.
LEMMA WholeSeasons ==
    ASSUME NEW period \in Nat \ {0}, NEW index \in Nat
    PROVE  /\ period - (index % period) \in 1..period
           /\ (index + (period - (index % period))) % period = 0
<1> DEFINE q == index \div period
<1>1. index % period = index - period * q /\ q \in Nat /\ index % period \in 0..(period - 1)
    BY Z3T(30)
<1>2. index + (period - (index % period)) = period * (q + 1)
    BY <1>1, Z3T(30)
<1>3. (period * (q + 1)) % period = 0
    BY <1>1, Z3T(30)
<1> QED
    BY <1>1, <1>2, <1>3

\* The rows of a cold start repeat the profile in phase.
LEMMA ColdStep ==
    ASSUME ForecastInv, NEW metadata, ColdStart(metadata)
    PROVE  ColdStartInPhase'
<1> DEFINE peers == ProfilePeers(metadata)
<1>1. /\ cold' = {[time |-> frame.end[N] + frame.gap[1] * (index + 1),
                   width |-> Width(peers), from |-> ProfileValue(peers, index)] :
                        index \in 0..(steps - 1)}
      /\ artifact' = artifact /\ frame' = frame /\ part = "cold"
    BY DEF ColdStart
<1>2. peers \subseteq Items
    BY DEF ProfilePeers, NearestPeers
<1>3. Inputs /\ steps \in Nat /\ 1 \in Items /\ N \in Items
    BY <1>1, PredictionAssumption DEF ForecastInv, Items
<1> HIDE DEF peers
<1> SUFFICES ASSUME NEW index \in 0..(steps - 1),
                    Width(peers) = artifact.season,
                    \A i \in Items : artifact.end[i] = frame.end[N] /\ artifact.gap[i] = 1,
                    NEW i \in peers
             PROVE  LET k == artifact.season - (index % artifact.season)
                        time == frame.end[N] + frame.gap[1] * (index + 1)
                    IN  (time - TimeOf(i, k)) % artifact.season = 0
    <2>1. \A index : ProfileValue(peers, index) \subseteq
                {TimeOf(i, Width(peers) - (index % Width(peers))) : i \in peers}
        BY DEF ProfileValue
    <2> QED
        BY <1>1, <2>1 DEF ColdStartInPhase
<1> DEFINE k == artifact.season - (index % artifact.season)
           end == frame.end[N]
<1>4. index \in Nat /\ artifact.season \in Nat \ {0} /\ end \in Int
    BY <1>3 DEF Inputs
<1>5. k \in 1..artifact.season /\ (index + k) % artifact.season = 0
    BY <1>4, WholeSeasons
<1>6. frame.gap[1] = 1
    BY <1>3 DEF Inputs
<1>7. TimeOf(i, k) = end - (IF k = 1 THEN 0 ELSE 1 + k - 2)
    BY <1>2 DEF TimeOf
<1> HIDE DEF k, end
<1>8. TimeOf(i, k) = end - (k - 1)
    BY <1>4, <1>5, <1>7
<1>9. (end + 1 * (index + 1)) - TimeOf(i, k) = index + k
    BY <1>4, <1>5, <1>8
<1> QED
    BY <1>5, <1>6, <1>9 DEF k, end

\* Every step keeps the invariant.
LEMMA ForecastInvStep == ForecastInv /\ [ForecastNext]_forecastVars => ForecastInv'
<1> SUFFICES ASSUME ForecastInv, [ForecastNext]_forecastVars PROVE ForecastInv'
    OBVIOUS
<1>a. artifact' = artifact /\ frame' = frame
    <2>1. \A known, given : ForecastItems(known, given) => artifact' = artifact /\ frame' = frame
        BY DEF ForecastItems
    <2>2. \A metadata : ColdStart(metadata) => artifact' = artifact /\ frame' = frame
        BY DEF ColdStart
    <2>3. CheckHorizon \/ AddTotals \/ UNCHANGED forecastVars =>
                artifact' = artifact /\ frame' = frame
        BY DEF CheckHorizon, AddTotals, forecastVars
    <2> QED
        BY <2>1, <2>2, <2>3 DEF ForecastNext
<1>b. Inputs'
    BY <1>a DEF ForecastInv, Inputs
<1>c. ASSUME rows' = rows PROVE HierarchyRows' = HierarchyRows
    BY <1>a, <1>c DEF HierarchyRows, KindsOf
<1>d. ASSUME rows' = rows, steps' = steps, part \in {"totals", "cold", "done"} PROVE RowsMade'
    <2>1. \A i \in Items : TimesOf(i)' = TimesOf(i)
        BY <1>d DEF TimesOf
    <2>2. \A i, step : FutureTime(i, step)' = FutureTime(i, step)
        BY <1>a DEF FutureTime
    <2> QED
        BY <1>d, <2>1, <2>2 DEF ForecastInv, RowsMade
<1>1. CASE CheckHorizon
    <2>1. part' \in {"items", "failed"} /\ steps' \in Nat
        <3>1. steps = NotGiven => steps' = Horizon
            BY <1>1 DEF CheckHorizon
        <3> QED
            BY <1>1, <3>1, PredictionAssumption DEF CheckHorizon, ForecastInv
    <2> QED
        BY <1>b, <2>1 DEF ForecastInv, RowsMade, TotalsMade, ColdStartInPhase
<1>2. ASSUME NEW known \in BOOLEAN, NEW given, ForecastItems(known, given) PROVE ForecastInv'
    <2>1. RowsMade'
        BY <1>2, ItemsStep
    <2> QED
        BY <1>b, <1>2, <2>1 DEF ForecastItems, ForecastInv, TotalsMade, ColdStartInPhase
<1>3. CASE AddTotals
    <2>1. /\ part = "totals" /\ part' = "cold" /\ totals' = HierarchyRows
          /\ rows' = rows /\ steps' = steps
        BY <1>3 DEF AddTotals
    <2> QED
        BY <1>b, <1>c, <1>d, <2>1 DEF ForecastInv, TotalsMade, ColdStartInPhase
<1>4. ASSUME NEW metadata, ColdStart(metadata) PROVE ForecastInv'
    <2>1. ColdStartInPhase'
        BY <1>4, ColdStep
    <2>2. /\ part = "cold" /\ part' = "done" /\ totals' = totals
          /\ rows' = rows /\ steps' = steps
        BY <1>4 DEF ColdStart
    <2> QED
        BY <1>b, <1>c, <1>d, <2>1, <2>2 DEF ForecastInv, TotalsMade
<1>5. CASE UNCHANGED forecastVars
    <2>1. part' = part /\ rows' = rows /\ steps' = steps /\ totals' = totals /\ cold' = cold
        BY <1>5 DEF forecastVars
    <2>2. RowsMade'
        BY <1>d, <2>1 DEF RowsMade
    <2>3. ColdStartInPhase'
        BY <1>a, <2>1 DEF ForecastInv, ColdStartInPhase
    <2> QED
        BY <1>b, <1>c, <2>1, <2>2, <2>3 DEF ForecastInv, TotalsMade
<1> QED
    BY <1>1, <1>2, <1>3, <1>4, <1>5 DEF ForecastNext

\* The inductive invariant of the tables of a forecast.
LEMMA ForecastInvariant == ForecastSpec => []ForecastInv
<1> QED
    BY ForecastInvInit, ForecastInvStep, PTL DEF ForecastSpec

(***************************************************************************)
(* Prediction: the theorems                                                *)
(***************************************************************************)

\* The rows of an item go on from its last observation, one for each step.
THEOREM RowsGoOn == ForecastSpec => []RowsContinue
<1>1. ForecastInv => RowsContinue
    <2> SUFFICES ASSUME ForecastInv, part = "done", NEW i \in Items, frame.gap[i] = 1
                 PROVE  TimesOf(i) = (frame.end[i] + 1)..(frame.end[i] + steps)
        BY DEF ForecastInv, RowsMade, RowsContinue, TimesOf
    <2>1. frame.end[i] \in Int /\ steps \in Nat
        BY DEF ForecastInv, Inputs
    <2>2. TimesOf(i) = {FutureTime(i, step) : step \in 1..steps}
        BY DEF ForecastInv, RowsMade
    <2>3. \A step \in 1..steps : FutureTime(i, step) = frame.end[i] + step
        BY <2>1 DEF FutureTime
    <2>4. {FutureTime(i, step) : step \in 1..steps} = {frame.end[i] + step : step \in 1..steps}
        BY <2>3
    <2> DEFINE end == frame.end[i]
    <2> HIDE DEF end
    <2>5. ASSUME end \in Int
          PROVE  {end + step : step \in 1..steps} = (end + 1)..(end + steps)
        <3>1. \A t \in (end + 1)..(end + steps) : t - end \in 1..steps /\ t = end + (t - end)
            BY <2>1, <2>5
        <3>2. \A step \in 1..steps : end + step \in (end + 1)..(end + steps)
            BY <2>1, <2>5
        <3> QED
            BY <3>1, <3>2
    <2> QED
        BY <2>1, <2>2, <2>4, <2>5 DEF end
<1> QED
    BY <1>1, ForecastInvariant, PTL

\* Totals agree with the rows, and have all items while series go on alike.
THEOREM TotalsAgree == ForecastSpec => []TotalsComplete
<1>1. ForecastInv => TotalsComplete
    <2> SUFFICES ASSUME ForecastInv, part = "done", NEW total \in totals
                 PROVE  LET alike == {i \in Items : artifact.kind[i] = total.kind} IN
                        /\ \A i \in alike :
                            i \in total.members <=>
                                \E r \in rows : r.item = i /\ r.time = total.time
                        /\ (\A i, j \in alike :
                                frame.end[i] = frame.end[j] /\ frame.gap[i] = frame.gap[j]) =>
                            total.members = alike
        BY DEF TotalsComplete
    <2> DEFINE alike == {i \in Items : artifact.kind[i] = total.kind}
    <2>1. /\ total.members = {r.item : r \in {r \in rows :
                                r.time = total.time /\ artifact.kind[r.item] = total.kind}}
          /\ total.members # {}
        BY DEF ForecastInv, TotalsMade, HierarchyRows
    <2>2. /\ \A r \in rows : r.item \in Items
          /\ \A i \in Items : TimesOf(i) = {FutureTime(i, step) : step \in 1..steps}
        BY DEF ForecastInv, RowsMade
    <2>3. \A i \in alike :
            i \in total.members <=> \E r \in rows : r.item = i /\ r.time = total.time
        BY <2>1
    <2>4. total.members \subseteq alike
        BY <2>1, <2>2
    <2>5. ASSUME \A i, j \in alike : frame.end[i] = frame.end[j] /\ frame.gap[i] = frame.gap[j],
                 NEW i \in alike
          PROVE  i \in total.members
        <3>1. PICK j \in total.members : j \in alike
            BY <2>1, <2>4
        <3>2. PICK r \in rows : r.item = j /\ r.time = total.time
            BY <2>3, <3>1
        <3>3. total.time \in TimesOf(j)
            BY <3>2 DEF TimesOf
        <3>4. PICK step \in 1..steps : total.time = FutureTime(j, step)
            BY <2>2, <3>1, <3>3
        <3>5. total.time = FutureTime(i, step)
            BY <2>5, <3>1, <3>4 DEF FutureTime
        <3>6. total.time \in TimesOf(i)
            BY <2>2, <3>5
        <3>7. \E s \in rows : s.item = i /\ s.time = total.time
            BY <3>6 DEF TimesOf
        <3> QED
            BY <2>3, <3>7
    <2> QED
        BY <2>3, <2>4, <2>5
<1> QED
    BY <1>1, ForecastInvariant, PTL

\* A prediction for a new item is made of observations of its own phase.
THEOREM ColdStartsInPhase == ForecastSpec => []ColdStartInPhase
<1>1. ForecastInv => ColdStartInPhase
    BY DEF ForecastInv
<1> QED
    BY <1>1, ForecastInvariant, PTL

(***************************************************************************)
(* Monitoring: the inductive invariant                                     *)
(*                                                                         *)
(* The argument follows one point of the last report through the next      *)
(* call: its forecast is listed again, is read some time, and from then    *)
(* on only older forecasts remain that could take the point over.          *)
(***************************************************************************)

Reading == {"materialize", "open"}

Shape ==
    /\ state \in [Forecasts -> {"absent", "queued", "failed", "succeeded"}]
    /\ DOMAIN recorded = Forecasts /\ DOMAIN stored = Forecasts
    /\ DOMAIN call = {"pc", "listed", "points", "predicted"}
    /\ call.pc \in {"idle", "actuals"} \cup Reading
    /\ report.outcome \in {"none", "failed", "done"}
    /\ unsettled \subseteq Forecasts

\* A forecast whose success nothing has touched keeps its predictions and their
\* digest.
OnceStored ==
    \A f \in Forecasts : state[f] = "succeeded" /\ f \notin unsettled => stored[f] = recorded[f]

\* What a row said of its forecast is true of it still.
Stands(entry) ==
    /\ entry.forecast \in Forecasts
    /\ \/ entry.forecast \in unsettled
       \/ state[entry.forecast] = "succeeded" /\ recorded[entry.forecast] = entry.digest
    /\ entry = [forecast |-> entry.forecast, digest |-> entry.digest]

ScoresStand(scores) ==
    \A k \in DOMAIN scores :
        Stands(scores[k]) /\ k \in covers[scores[k].forecast] /\ k \in actuals

CallStands ==
    /\ \A l \in call.listed : Stands(l)
    /\ \A l, m \in call.listed : l.forecast = m.forecast => l = m
    /\ call.pc \in Reading => call.points \subseteq actuals
    /\ call.pc = "open" => call.listed # {}
    /\ \A k \in DOMAIN call.predicted :
            Stands(call.predicted[k]) /\ k \in covers[call.predicted[k].forecast]

\* Point k of the last report is still to be read, or has been, and no younger
\* forecast is left to replace it.
Followed(k) ==
    \/ previous[k].forecast \in unsettled
    \/ previous[k] \in call.listed
    \/ /\ call.pc \in Reading /\ k \in DOMAIN call.predicted
       /\ \/ call.predicted[k] = previous[k]
          \/ call.predicted[k].forecast < previous[k].forecast
       /\ \A l \in call.listed : l.forecast < previous[k].forecast

PointsFollowed ==
    /\ call.pc # "idle" => \A k \in DOMAIN previous : Followed(k)
    /\ call.pc \in Reading => DOMAIN previous \subseteq call.points

MonitoringInv ==
    /\ Shape /\ OnceStored
    /\ report.outcome = "done" => ScoresStand(report.scores)
    /\ ScoresStand(previous)
    /\ CallStands /\ PointsFollowed
    /\ ReportsStand

(***************************************************************************)
(* Monitoring: the forecast to read next                                   *)
(***************************************************************************)

\* A set of naturals that is bounded has a greatest element.
LEMMA GreatestNatural ==
    ASSUME NEW n \in Nat, NEW T, T \subseteq 0..n, T # {}
    PROVE  \E greatest \in T : \A t \in T : t <= greatest
<1> DEFINE Below == {n - t : t \in T}
<1>1. Below \subseteq Nat
    OBVIOUS
<1>2. Below # {}
    OBVIOUS
<1>3. PICK least \in Below : \A b \in Below : least <= b
    BY <1>1, <1>2, LeastNatural
<1>4. PICK t \in T : least = n - t
    OBVIOUS
<1>5. \A u \in T : least <= n - u
    BY <1>3
<1> QED
    BY <1>4, <1>5

\* monitor reads the forecasts of its list from the youngest on.
LEMMA NextIsYoungest ==
    ASSUME MonitoringInv, call.listed # {}
    PROVE  NextListed \in call.listed /\ \A l \in call.listed : l.forecast <= NextListed.forecast
<1> DEFINE Numbers == {l.forecast : l \in call.listed}
<1>0. Forecasts \subseteq Nat
    BY MonitoringAssumption
<1>1. PICK n \in Forecasts : \A f \in Forecasts : f <= n
    BY MonitoringAssumption
<1>2. \A l \in call.listed : l.forecast \in Forecasts
    BY DEF MonitoringInv, CallStands, Stands
<1>3. \A f \in Forecasts : f \in 0..n
    BY <1>0, <1>1
<1>4. n \in Nat /\ Numbers \subseteq 0..n /\ Numbers # {}
    BY <1>0, <1>2, <1>3
<1>5. PICK greatest \in Numbers : \A f \in Numbers : f <= greatest
    BY <1>4, GreatestNatural
<1>6. \E l \in call.listed : \A m \in call.listed : m.forecast <= l.forecast
    BY <1>5
<1> QED
    BY <1>6 DEF NextListed

(***************************************************************************)
(* Monitoring: the steps                                                   *)
(***************************************************************************)

\* The invariant holds before any forecast.
LEMMA MonitoringInvInit == MonitoringInit => MonitoringInv
BY DEF MonitoringInit, MonitoringInv, Shape, OnceStored, ScoresStand, CallStands, PointsFollowed,
    ReportsStand, NoCall, NoReport, Reading

RowsStep ==
    /\ \/ \E f \in Forecasts : Create(f) \/ Succeed(f) \/ Fail(f) \/ Requeue(f)
       \/ \E f \in Forecasts, bytes \in Bytes :
            StorePredictions(f, bytes) \/ SucceedOverlapped(f, bytes)
       \/ \E keys \in SUBSET Keys \ {{}} : PostActuals(keys)
       \/ OthersCache
    /\ UNCHANGED callVars

\* What the rows go through leaves true what has been read of them.
LEMMA EntriesStand ==
    ASSUME MonitoringInv, RowsStep
    PROVE  /\ Shape' /\ OnceStored'
           /\ \A entry : Stands(entry) => Stands(entry)'
           /\ backend' = backend /\ covers' = covers
           /\ actuals \subseteq actuals' /\ unsettled \subseteq unsettled'
<1>0. Shape /\ OnceStored
    BY DEF MonitoringInv
<1> USE DEF Shape, Unsettle, callVars
<1>1. CASE \E f \in Forecasts : Create(f) \/ Succeed(f) \/ Fail(f) \/ Requeue(f)
    <2>1. PICK f \in Forecasts : Create(f) \/ Succeed(f) \/ Fail(f) \/ Requeue(f)
        BY <1>1
    <2>2. Shape' /\ OnceStored' /\ covers' = covers /\ actuals' = actuals
          /\ unsettled \subseteq unsettled' /\ backend' = backend
        BY <1>0, <2>1 DEF RowsStep, OnceStored, Create, Succeed, Fail, Requeue
    <2>3. ASSUME NEW entry, Stands(entry) PROVE Stands(entry)'
        BY <1>0, <2>1, <2>3 DEF OnceStored, Stands, Create, Succeed, Fail, Requeue
    <2> QED
        BY <2>2, <2>3
<1>2. CASE \E f \in Forecasts, bytes \in Bytes :
                StorePredictions(f, bytes) \/ SucceedOverlapped(f, bytes)
    <2>1. PICK f \in Forecasts, bytes \in Bytes :
                StorePredictions(f, bytes) \/ SucceedOverlapped(f, bytes)
        BY <1>2
    <2>2. Shape' /\ OnceStored' /\ covers' = covers /\ actuals' = actuals
          /\ unsettled \subseteq unsettled' /\ backend' = backend
        BY <1>0, <2>1 DEF RowsStep, OnceStored, StorePredictions, SucceedOverlapped
    <2>3. ASSUME NEW entry, Stands(entry) PROVE Stands(entry)'
        BY <1>0, <2>1, <2>3 DEF Stands, StorePredictions, SucceedOverlapped
    <2> QED
        BY <2>2, <2>3
<1>3. CASE \E keys \in SUBSET Keys \ {{}} : PostActuals(keys)
    BY <1>0, <1>3 DEF RowsStep, OnceStored, Stands, PostActuals
<1>4. CASE OthersCache
    BY <1>0, <1>4 DEF RowsStep, OnceStored, Stands, OthersCache
<1> QED
    BY <1>1, <1>2, <1>3, <1>4 DEF RowsStep

\* Rows that change under a call leave what it has read.
LEMMA RowsStepInv ==
    ASSUME MonitoringInv, RowsStep
    PROVE  MonitoringInv'
<1>1. call' = call /\ report' = report /\ previous' = previous
    BY DEF RowsStep, callVars
<1>2. report.outcome = "done" => ScoresStand(report.scores)'
    BY <1>1, EntriesStand DEF MonitoringInv, ScoresStand
<1>3. ScoresStand(previous)'
    BY <1>1, EntriesStand DEF MonitoringInv, ScoresStand
<1>4. CallStands'
    BY <1>1, EntriesStand DEF MonitoringInv, CallStands
<1>5. PointsFollowed'
    BY <1>1, EntriesStand DEF MonitoringInv, PointsFollowed, Followed
<1>6. ReportsStand'
    BY <1>1, EntriesStand DEF MonitoringInv, ReportsStand
<1> QED
    BY <1>1, <1>2, <1>3, <1>4, <1>5, <1>6, EntriesStand DEF MonitoringInv

\* All that succeeded is listed, the points of the last report among it.
LEMMA ListForecastsInv ==
    ASSUME MonitoringInv, ListForecasts, UnchangedRows
    PROVE  MonitoringInv'
<1> DEFINE Entry(f) == [forecast |-> f, digest |-> recorded[f]]
<1>1. /\ call' = [NoCall EXCEPT !.pc = "actuals",
                    !.listed = {Entry(f) : f \in {f \in Forecasts : state[f] = "succeeded"}}]
      /\ report' = NoReport
      /\ previous' = IF report.outcome = "done" THEN report.scores ELSE previous
      /\ UnchangedRows
    BY DEF ListForecasts
<1>2. Shape' /\ OnceStored' /\ ReportsStand'
    BY <1>1 DEF MonitoringInv, Shape, OnceStored, ReportsStand, NoCall, NoReport, UnchangedRows, Reading
<1>3. \A entry : Stands(entry) => Stands(entry)'
    BY <1>1 DEF Stands, UnchangedRows
<1>4. ScoresStand(previous)
    BY DEF MonitoringInv
<1>5. report.outcome = "done" => ScoresStand(report.scores)
    BY DEF MonitoringInv
<1>6. ScoresStand(previous)'
    BY <1>1, <1>3, <1>4, <1>5 DEF ScoresStand, UnchangedRows
<1>7. CallStands'
    <2>1. \A l \in call'.listed : \E f \in Forecasts : state[f] = "succeeded" /\ l = Entry(f)
        BY <1>1 DEF NoCall
    <2>2. \A l \in call'.listed : Stands(l)
        BY <2>1 DEF Stands
    <2>3. \A l, m \in call'.listed : l.forecast = m.forecast => l = m
        BY <2>1
    <2> QED
        BY <1>1, <1>3, <2>2, <2>3 DEF CallStands, NoCall, Reading
<1>8. PointsFollowed'
    <2>1. \A k \in DOMAIN previous' :
            \/ previous'[k].forecast \in unsettled
            \/ previous'[k] \in call'.listed
        <3>1. ASSUME NEW entry, Stands(entry), entry.forecast \notin unsettled
              PROVE  entry \in call'.listed
            <4>1. /\ entry.forecast \in Forecasts /\ state[entry.forecast] = "succeeded"
                  /\ entry = Entry(entry.forecast)
                BY <3>1 DEF Stands
            <4> QED
                BY <1>1, <4>1 DEF NoCall
        <3>2. \A k \in DOMAIN previous' : Stands(previous'[k])
            BY <1>1, <1>4, <1>5 DEF ScoresStand
        <3> QED
            BY <3>1, <3>2
    <2> QED
        BY <1>1, <2>1 DEF PointsFollowed, Followed, NoCall, UnchangedRows, Reading
<1> QED
    BY <1>1, <1>2, <1>6, <1>7, <1>8 DEF MonitoringInv, NoReport

\* The call reads the actuals and begins to score.
LEMMA ListActualsInv ==
    ASSUME MonitoringInv, ListActuals, UnchangedRows
    PROVE  MonitoringInv'
<1> USE DEF Reading
<1>1. /\ call' = [call EXCEPT !.pc = "materialize", !.points = actuals]
      /\ report' = report /\ previous' = previous
      /\ call.pc = "actuals"
    BY DEF ListActuals
<1>2. \A entry : Stands(entry) => Stands(entry)'
    BY DEF Stands, UnchangedRows
<1>3. Shape' /\ OnceStored' /\ ReportsStand'
    BY <1>1 DEF MonitoringInv, Shape, OnceStored, ReportsStand, UnchangedRows
<1>4. report.outcome = "done" => ScoresStand(report.scores)'
    BY <1>1, <1>2 DEF MonitoringInv, ScoresStand, UnchangedRows
<1>5. ScoresStand(previous)'
    BY <1>1, <1>2 DEF MonitoringInv, ScoresStand, UnchangedRows
<1>6. CallStands'
    BY <1>1, <1>2 DEF MonitoringInv, Shape, CallStands, UnchangedRows
<1>7. PointsFollowed'
    <2>1. \A k \in DOMAIN previous : k \in actuals /\ Followed(k)
        BY <1>1 DEF MonitoringInv, PointsFollowed, ScoresStand
    <2>2. \A k \in DOMAIN previous :
                previous[k].forecast \in unsettled \/ previous[k] \in call.listed
        BY <1>1, <2>1 DEF Followed
    <2> QED
        BY <1>1, <2>1, <2>2 DEF MonitoringInv, Shape, PointsFollowed, Followed, UnchangedRows
<1> QED
    BY <1>1, <1>3, <1>4, <1>5, <1>6, <1>7 DEF MonitoringInv

\* A call fails only of a forecast that is unsettled, or of the shared cache.
LEMMA FailCallInv ==
    ASSUME MonitoringInv, FailCall, previous' = previous, UnchangedRows,
           backend = "r2" \/ NextListed.forecast \in unsettled
    PROVE  MonitoringInv'
<1>1. /\ call' = NoCall
      /\ report'.outcome = "failed" /\ report'.at = NextListed.forecast
    BY DEF FailCall, NoReport
<1>2. \A entry : Stands(entry) => Stands(entry)'
    BY DEF Stands, UnchangedRows
<1>3. Shape' /\ OnceStored'
    BY <1>1 DEF MonitoringInv, Shape, OnceStored, UnchangedRows, NoCall, Reading
<1>4. ScoresStand(previous)'
    BY <1>2 DEF MonitoringInv, ScoresStand, UnchangedRows
<1>5. CallStands' /\ PointsFollowed'
    BY <1>1 DEF NoCall, CallStands, PointsFollowed, Reading
<1>6. ReportsStand'
    BY <1>1 DEF ReportsStand, UnchangedRows
<1> QED
    BY <1>1, <1>3, <1>4, <1>5, <1>6 DEF MonitoringInv

\* The file of the next forecast is found, and nothing has been read yet.
LEMMA MaterializeInv ==
    ASSUME MonitoringInv, MaterializePredictions, UnchangedRows
    PROVE  MonitoringInv'
<1>1. /\ call.pc = "materialize" /\ call.listed # {} /\ previous' = previous
    BY DEF MaterializePredictions
<1>2. CASE call' = [call EXCEPT !.pc = "open"] /\ report' = report
    <2> USE DEF Reading
    <2>1. \A entry : Stands(entry) => Stands(entry)'
        BY DEF Stands, UnchangedRows
    <2>2. Shape' /\ OnceStored' /\ ReportsStand'
        BY <1>1, <1>2 DEF MonitoringInv, Shape, OnceStored, ReportsStand, UnchangedRows
    <2>3. report.outcome = "done" => ScoresStand(report.scores)'
        BY <1>1, <1>2, <2>1 DEF MonitoringInv, ScoresStand, UnchangedRows
    <2>4. ScoresStand(previous)'
        BY <1>1, <1>2, <2>1 DEF MonitoringInv, ScoresStand, UnchangedRows
    <2>5. CallStands'
        BY <1>1, <1>2, <2>1 DEF MonitoringInv, Shape, CallStands, UnchangedRows
    <2>6. PointsFollowed'
        BY <1>1, <1>2 DEF MonitoringInv, Shape, PointsFollowed, Followed, UnchangedRows
    <2> QED
        BY <1>2, <2>2, <2>3, <2>4, <2>5, <2>6 DEF MonitoringInv
<1>3. CASE /\ stored[NextListed.forecast] # NextListed.digest
           /\ backend = "r2" => NextListed.digest \notin cached
           /\ FailCall
    <2>1. Stands(NextListed)
        BY <1>1, NextIsYoungest DEF MonitoringInv, CallStands
    <2>2. NextListed.forecast \in unsettled
        BY <1>3, <2>1 DEF MonitoringInv, OnceStored, Stands
    <2> QED
        BY <1>1, <1>3, <2>2, FailCallInv
<1> QED
    BY <1>2, <1>3 DEF MaterializePredictions

\* The youngest forecast that is left is read; it replaces points of younger
\* ones and of no older one.
LEMMA ReadPredictionsInv ==
    ASSUME MonitoringInv, ReadPredictions, UnchangedRows
    PROVE  MonitoringInv'
<1> DEFINE next == NextListed
           f == next.forecast
           read == [next EXCEPT !.digest = IF backend = "local" THEN stored[f] ELSE @]
<1> USE DEF Reading
<1>1. call.pc = "open" /\ call.listed # {} /\ previous' = previous
    BY DEF ReadPredictions, MonitoringInv, CallStands
<1>2. next \in call.listed /\ \A l \in call.listed : l.forecast <= f
    BY <1>1, NextIsYoungest
<1>3. Stands(next) /\ \A entry : Stands(entry) => Stands(entry)'
    BY <1>2 DEF MonitoringInv, CallStands, Stands, UnchangedRows
<1>4. read.forecast = f /\ Stands(read) /\ (f \notin unsettled => read = next)
    <2>1. next = [forecast |-> f, digest |-> next.digest] /\ f \in Forecasts
        BY <1>3 DEF Stands
    <2>2. f \notin unsettled => stored[f] = next.digest
        BY <1>3 DEF MonitoringInv, OnceStored, Stands
    <2> DEFINE d == IF backend = "local" THEN stored[f] ELSE next.digest
    <2>3. read = [next EXCEPT !.digest = d]
        OBVIOUS
    <2>4. f \notin unsettled => d = next.digest
        BY <2>2
    <2> HIDE DEF d, read
    <2>5. read = [forecast |-> f, digest |-> d]
        BY <2>1, <2>3
    <2> QED
        BY <1>3, <2>1, <2>4, <2>5 DEF Stands
<1> HIDE DEF read
<1>5. CASE /\ call' = [call EXCEPT !.pc = "materialize", !.listed = @ \ {next},
                !.predicted = [k \in DOMAIN @ \cup covers[f] |->
                    IF k \in covers[f] THEN read ELSE @[k]]]
           /\ report' = report
    <2>2. /\ call'.pc = "materialize" /\ call'.points = call.points
          /\ DOMAIN call' = {"pc", "listed", "points", "predicted"}
          /\ call'.listed = call.listed \ {next}
          /\ DOMAIN call'.predicted = DOMAIN call.predicted \cup covers[f]
          /\ \A k \in covers[f] : call'.predicted[k] = read
          /\ \A k \in DOMAIN call.predicted \ covers[f] :
                call'.predicted[k] = call.predicted[k]
        BY <1>1, <1>5 DEF MonitoringInv, Shape
    <2>a. Shape' /\ OnceStored'
        BY <1>5, <2>2 DEF MonitoringInv, Shape, OnceStored, UnchangedRows
    <2>b. ScoresStand(previous)'
        BY <1>1, <1>3 DEF MonitoringInv, ScoresStand, UnchangedRows
    <2>3. (report.outcome = "done" => ScoresStand(report.scores)') /\ ReportsStand'
        BY <1>1, <1>3, <1>5 DEF MonitoringInv, ScoresStand, ReportsStand, UnchangedRows
    <2>4. CallStands'
        <3>1. \A k \in DOMAIN call'.predicted :
                    Stands(call'.predicted[k]) /\ k \in covers[call'.predicted[k].forecast]
            BY <1>4, <2>2 DEF MonitoringInv, CallStands
        <3>2. \A l \in call'.listed : Stands(l)
            BY <2>2 DEF MonitoringInv, CallStands
        <3> QED
            BY <1>1, <1>3, <2>2, <3>1, <3>2 DEF MonitoringInv, CallStands, UnchangedRows
    <2>5. PointsFollowed'
        <3>1. ASSUME NEW k \in DOMAIN previous, previous[k].forecast \notin unsettled
              PROVE  Followed(k)'
            <4>0. /\ Followed(k) /\ k \in covers[previous[k].forecast]
                  /\ previous[k].forecast \in Nat /\ f \in Nat
                  /\ \A l \in call.listed : l.forecast \in Nat
                BY <1>1, <1>3, MonitoringAssumption
                    DEF MonitoringInv, PointsFollowed, ScoresStand, Stands, CallStands
            <4>1. CASE previous[k] \in call.listed /\ previous[k] # next
                BY <1>1, <2>2, <4>1 DEF Followed
            <4>2. CASE previous[k] = next
                <5>1. \A l \in call.listed \ {next} : l.forecast < f
                    BY <1>2, <4>0 DEF MonitoringInv, CallStands
                <5>2. read = previous[k]
                    BY <1>4, <3>1, <4>2
                <5> QED
                    BY <1>1, <2>2, <4>0, <4>2, <5>1, <5>2 DEF Followed
            <4>3. CASE /\ k \in DOMAIN call.predicted
                       /\ \/ call.predicted[k] = previous[k]
                          \/ call.predicted[k].forecast < previous[k].forecast
                       /\ \A l \in call.listed : l.forecast < previous[k].forecast
                BY <1>1, <1>2, <1>4, <2>2, <4>3 DEF Followed
            <4> QED
                BY <3>1, <4>0, <4>1, <4>2, <4>3 DEF Followed
        <3>2. \A k \in DOMAIN previous : previous[k].forecast \in unsettled => Followed(k)'
            BY <1>1 DEF Followed, UnchangedRows
        <3> QED
            BY <1>1, <2>2, <3>1, <3>2 DEF MonitoringInv, PointsFollowed
    <2> QED
        BY <1>5, <2>a, <2>b, <2>3, <2>4, <2>5 DEF MonitoringInv
<1>6. CASE backend = "r2" /\ FailCall
    BY <1>1, <1>6, FailCallInv
<1> QED
    BY <1>5, <1>6 DEF ReadPredictions, read

\* Nothing is left to be read, so that every point has been.
LEMMA MatchInv ==
    ASSUME MonitoringInv, Match, UnchangedRows
    PROVE  MonitoringInv'
<1> DEFINE scored == call.points \cap DOMAIN call.predicted
<1>1. /\ call.pc = "materialize" /\ call.listed = {}
      /\ report'.outcome = "done"
      /\ report'.scores = [k \in scored |-> call.predicted[k]]
      /\ call' = NoCall /\ previous' = previous
    BY DEF Match, NoReport
<1>2. DOMAIN report'.scores = scored /\ \A k \in scored : report'.scores[k] = call.predicted[k]
    BY <1>1
<1>3. \A entry : Stands(entry) => Stands(entry)'
    BY DEF Stands, UnchangedRows
<1>4. Shape' /\ OnceStored' /\ ScoresStand(previous)'
    BY <1>1, <1>3
        DEF MonitoringInv, Shape, OnceStored, ScoresStand, UnchangedRows, NoCall, Reading
<1>5. CallStands' /\ PointsFollowed'
    BY <1>1 DEF NoCall, CallStands, PointsFollowed, Reading
<1>6. ScoresStand(report.scores)'
    BY <1>1, <1>2, <1>3 DEF MonitoringInv, CallStands, ScoresStand, UnchangedRows, Reading
<1>7. ReportsStand'
    <2>1. ASSUME NEW k \in DOMAIN previous, previous[k].forecast \notin unsettled
          PROVE  /\ k \in scored
                 /\ \/ call.predicted[k] = previous[k]
                    \/ call.predicted[k].forecast < previous[k].forecast
        BY <1>1, <2>1 DEF MonitoringInv, PointsFollowed, Followed, Reading
    <2> QED
        BY <1>1, <1>2, <2>1 DEF ReportsStand, UnchangedRows
<1> QED
    BY <1>1, <1>4, <1>5, <1>6, <1>7 DEF MonitoringInv

\* Every step keeps the invariant.
LEMMA MonitoringInvStep == MonitoringInv /\ [MonitoringNext]_monitoringVars => MonitoringInv'
<1>1. CASE UNCHANGED monitoringVars
    <2> USE <1>1 DEF monitoringVars, rowVars, callVars
    <2>1. \A entry : Stands(entry) => Stands(entry)'
        BY DEF Stands
    <2> QED
        BY <2>1 DEF MonitoringInv, Shape, OnceStored, ScoresStand, CallStands, PointsFollowed,
            Followed, ReportsStand
<1>2. MonitoringNext => RowsStep \/ (MonitoringStep /\ UnchangedRows)
    BY DEF MonitoringNext, RowsStep
<1> QED
    BY <1>1, <1>2, RowsStepInv, ListForecastsInv, ListActualsInv, MaterializeInv,
        ReadPredictionsInv, MatchInv DEF MonitoringStep

\* Scores once reported stand, unless the success of a forecast is taken back,
\* repeated or overlapped, or one created earlier succeeds later; on local disk
\* only such a forecast makes a call fail.
THEOREM ReportsOnceStand == MonitoringSpec => []ReportsStand
<1>1. MonitoringInv => ReportsStand
    BY DEF MonitoringInv
<1> QED
    BY <1>1, MonitoringInvInit, MonitoringInvStep, PTL DEF MonitoringSpec

=============================================================================
