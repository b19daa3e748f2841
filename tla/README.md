# Formal models of the forecasting service

TLA+ specifications of `src/forecasting_service`, the TLC configurations that model-check them on
small instances, and TLAPS proofs of what holds for every instance. Paths below are relative to
`src/forecasting_service/` in the repository.

    tlc -config MCExperimentRaces.cfg MCExperimentRuns      # model-check one run
    tlapm ExperimentRunsProofs.tla                          # check the proofs of one module

## 1. The system

A FastAPI service stores its resources as JSON rows in PostgreSQL and its files in an object store,
and has Hatchet, an external orchestrator, run the long jobs on worker processes.

| Part | State it keeps | Operations | Talks to |
|---|---|---|---|
| Metadata store, `store.py` | one table per collection, the idempotency links | `create`, `create_idempotent`, `update` (read-merge-write under a row lock), `get`, `list`; each is one transaction on a pooled connection | everybody |
| Job handlers, `api/routes/platform.py` | none of their own | `create_experiment`, `create_forecast`, `dispatch_required`, `cancel_experiment` | store, runtime |
| Dispatch, `dispatch.py` and `Runtime._submit`, `Runtime.cancel` | none | submit a run with the job id as idempotency key, cancel a run | Hatchet, store |
| Hatchet (external) | the run of each job: status, retry count | at most one live run per key, retries, execution and schedule timeout, recovery of lost workers, cancellation | workers |
| Worker wrapper, `worker.py` `_execute` | none | runs an attempt; decides between cancelled, requeued and failed | runtime, store |
| Experiment runs, `runtime.py` `run_experiment` | experiment, job and model rows; the bundle | three stages, each after a check for cancellation; reserve the model id; train; insert the model row; finish | store, object store |
| Forecast runs, `runtime.py` `run_forecast` | forecast and job rows; the predictions | the same shape without a model row | store, object store |
| Datasets, `api/routes/platform.py` | the dataset row: state, upload, profile, versions | upload, profile, finalize | store, object store |
| Model registry, `api/routes/platform.py` | `stage` and `state` of the model rows | promote, retire, use by a forecast | store |
| Object store, `object_store.py` | files, or R2 objects and a pruned cache | put, materialize, prune | datasets, jobs, monitoring |
| Algorithms, `modeling.py` | none | rolling backtest, seasonal naive; forecasts, hierarchies, cold starts | runs |
| Canonicalisation, `data.py` | none | checks of a file, merging of duplicate keys, sorting | datasets |
| Monitoring, `runtime.py` | none | match actuals with the predictions of all forecasts of a model | store, object store |

What makes it hard:

- *Nothing spans two transactions.* A handler or an attempt that changes two rows does so in two
  transactions, and reads a third time in another. Every other process can step in between, and a
  crash can come between.
- *Two sources of truth.* Hatchet owns the run, PostgreSQL shows its projection. The projection is
  kept by whoever happens to be executing, and by nobody when that one is gone.
- *Attempts overlap.* An attempt whose worker Hatchet lost sight of, or which timed out, runs on as a
  Python thread next to its retry.
- *The cache has no lock.* Threads download, touch, rename and prune files of one directory, and a
  caller opens the path it was given later.
- *Clients repeat.* A create request repeated with its `Idempotency-Key` may find the job in any
  state, and may be asked to submit it again.
- *Read-modify-write over minutes.* Finalizing a dataset reads the row, works on files, and writes
  the whole table of versions back.

What each component owes its users, and hence the properties: the create operation makes one resource
per key; a job submitted is run until it rests and its rows say how it ended; an experiment, however
often retried, has one model, and success means that the model and its bundle exist; published dataset
versions stay, with their data and their digest; a version has the keys of its file and usable values; a
dataset has one champion; a reader of the object store gets the bytes it asked for, and a forecast that
succeeded the file its row names; a forecast continues its series; what monitoring has reported is not
taken back. Several of these the code keeps only as long as requests or attempts do not overlap: section 5
says where that contradicts a document.

## 2. The modules

| Module | Models | Lines of the source |
|---|---|---|
| `CreateOnce` | what an idempotent create promises | (abstract specification) |
| `IdempotentCreate` | `Store.create_idempotent`, statement by statement | `store.py` 61-126 |
| `IdempotentCreateProofs` | proofs about it, refinement included | |
| `JobControl` | handlers, dispatch, Hatchet, `_execute`, the error and cancel paths of a run method | `platform.py` 64-104, 286-353; `runtime.py` 60-106, 201-209, 295-305; `dispatch.py`; `worker.py` |
| `ExperimentRuns` | `JobControl` with the body of `run_experiment` | `runtime.py` 108-200 |
| `ExperimentRunsProofs` | proofs about both | |
| `DatasetVersions` | upload, profile and finalize over either object store | `platform.py` 118-261, `object_store.py` 238-256 |
| `DatasetVersionsProofs` | proofs about it | |
| `BlobStore` | what an object store promises its readers | (abstract specification) |
| `ObjectStore` | both object stores file by file, the r2 cache and its pruning | `object_store.py` 112-172, 238-256, 287-305 |
| `ObjectStoreProofs` | the cache is honest, the stores implement `BlobStore`, calm reads succeed, the cache stays bounded | |
| `Canonical` | `canonicalize`: from a file to the rows of a version | `data.py` 82-153 |
| `CanonicalProofs` | proofs about it | |
| `ModelRegistry` | promotion and retirement of the models of a dataset | `platform.py` 371-394 |
| `ForecastRuns` | `JobControl` with `create_forecast`'s check and the body of `run_forecast`, next to `ModelRegistry` | `platform.py` 404-444, `runtime.py` 211-293 |
| `ForecastRunsProofs` | proofs about forecast jobs and the registry in the composed system | |
| `Backtest` | the folds of `train_lightgbm` and its baseline | `modeling.py` 27-103, 287-410, 463-469 |
| `Prediction` | `forecast_lightgbm` with hierarchy totals and cold starts | `modeling.py` 114-144, 472-485, 512-627 |
| `Monitoring` | `Runtime.monitoring` next to the forecasts and actuals it reads | `runtime.py` 251-293 and 307-334, `platform.py` 468-483, `object_store.py` 160-172 |
| `ModelingProofs` | proofs about `Backtest`, `Prediction` and `Monitoring` | |
| `Sums` | lemmas about sums over finite sets, for `ObjectStoreProofs` and `CanonicalProofs` | |
| `MC*` | instances for TLC: constants and symmetry; `MCForecastRuns` keeps promotions and jobs apart, `MCDataPath` puts four modules side by side | |

`ExperimentRuns` composes with `JobControl` by extending it: a step is a step of the body, or a step
of the control plane that leaves the experiment's data alone (`LocalsEnd`). `ForecastRuns` extends it
in the same way, and `ModelRegistry` besides: a step belongs to the job, or to the registry and changes
nothing else. `PROJECT.json` maps every definition to its lines.

### IdempotentCreate

Each call has a program counter: wait for a connection of the pool, wait for the advisory lock of the
key (holding the connection), select the link, then fetch the resource the link points to, or insert
the resource and its link and commit. Statements see what is committed (READ COMMITTED); the inserts
of one transaction become visible together and are one step. `Lose` is a call that dies, before or
after its commit. A resource is named after the call that inserted it, a payload stands for its
fingerprint.

### JobControl and ExperimentRuns

A step is one transaction, one call to Hatchet or one call to the object store. `resource` is the
state column of the experiment row; `job` is the state and the `orchestrator_run_id` of the job row;
`hatchet` is the latest run of the job; `slot` holds, for each worker thread, the attempt it executes;
`request` and `cancel` are the handlers in progress. `modelId`, `models` and `object` are the
experiment's data, `known` and `made` the locals `model_id` and `artifact_ref` of an attempt.

`history` is auxiliary: the faults each job has suffered and the races it has been through (`replay`:
a repeated request decided to dispatch; `cancel`: a cancel request was received; `overlap`: an attempt
began while another was executing). No guard of the program depends on it, except that each kind of
fault strikes a job at most once, and `MaxFaults` bounds their number. Properties use it to say
exactly which event a promise does not survive. The fault `unscheduled` is Hatchet's schedule timeout: a
run that no worker takes in time fails without the code being told (`ScheduleTimeout`).

What is assumed of Hatchet, which is not in the repository: it keeps the idempotency key while a run
is pending or active and reports a second submission as an error (or, as the source's handling of the
reply allows, answers the live run: both are modelled); it retries an attempt that raises, up to
`JOB_RETRIES` times; it hands an attempt whose worker is lost to another thread, and whether that
consumes a retry is left open (`Recover`: when it does and none is left, the run is over, and nobody is
there to say so in the rows); it cannot kill a thread, only mark its context as cancelled; what a
written-off attempt reports is ignored.

Progress percentages, timestamps, error texts and metrics are left out. Training is a choice of bytes.
A write whose transaction commits although its acknowledgement is lost is not modelled, a store call
that fails (`StoreError`, and `Error` within a run method) has not happened. `TestDispatcher`, which
runs jobs in the process of the API under test, is not modelled.

### DatasetVersions

One dataset row, requests of three kinds, and the configured object store, "local" or "r2". `source` is
the object under the key of each file suffix, `canonical` the object under the key of each version
number, `cached` the files of the r2 cache. A content stands for its own SHA-256. `Materialize` is the
verification of the digest, in one step (`ObjectStore` has its steps: what else they let a reader see is
an empty file, which polars refuses like a missing one); `Opened` is what the path it returned holds when
polars opens it later: on local disk the very file an upload replaces, in r2 a cached copy that pruning
may have removed. Which files pruning removes is a choice here, the order is in `ObjectStore`.
`canonicalize` may reject any file; how it computes the frame is in `Canonical`. `history`, `raced` and
`author` are auxiliary: what overlaps and deaths there were, which finalizes were under way together,
and which of them wrote each version.

### BlobStore and ObjectStore

A step is one operation on a file or on the bucket: `is_file`, `stat`, `touch`, a download, its
verification, `os.replace`, listing, measuring, one `unlink`. `files` maps the names in the cache
directory to what the files hold, and `older` has the pairs of which the first was modified before the second;
a prune sorts by it (`Oldest`, `InOrder`). `os.replace` keeps the time of the file it moves, `touch` makes a file when there is none. A cached file
is named after its digest, a temporary one here after its thread (the code makes up a fresh name), and
one that a dead process leaves behind after nobody. `got` is what the caller of `materialize` reads when
it opens the path.

`BlobStore` allows a read of a reference to give the content or to fail; on local disk also the
object that has taken the place of the one referred to, and from r2 also an empty file. These two
are what verification before opening, and `touch` after a prune, leave possible in the code.
`calm` (nobody has touched the store during the call) and `unpruned` (a prune ran into a file just
unlinked) are auxiliary. Abstracted: a download is one step, and a content is always stored under the same
suffix.

### Canonical

A file is a sequence of rows with item, time, target, a weight and an attribute; `Null` is a value that
is absent or cannot be parsed, `NaN` a number that is not finite. Every check is an action, in the order
of the code, and the code's frame (`data`) carries over from one to the next: the checks of weights and
attributes precede the merging of duplicates, the check of the sign follows it. A comparison with an absent value is
absent and a sum passes over it, as polars has it. Rows of a key are named by their positions (`Of`), of
which `Present` have a target; `Total` and `Mean` are of those, a mean rounded down to the integers of the model
(the instance has targets whose means are exact). The result of `group_by` is in an arbitrary order
until `Sorted`, where a row's position is the number of rows whose key comes before its own.

### ModelRegistry and ForecastRuns

The registry has the models of one dataset and tenant, whose requests do not touch other models.
`stage` and `ready` are the columns `stage` and `state` of the model rows; `promotion` holds for each
promote request its program counter and the champions it has listed and not yet demoted. `beaten` is
what training decided (`baseline_beaten`). `raced` and `abandoned` are auxiliary: the pairs of
promotions that have been under way at once, and that one has died half-way. Retirement is one transaction (the read before it
only finds the row) and looks at no stage, promotion looks at no state: both are as in the code.

`create_forecast` reads the state of the model (`Admit`) and then enters the transaction that
`JobControl` models (`Enters`); an attempt has two stages, a third check for a cancellation, the file
(`stored`) and the reference in the row (`recorded`), which is written together with success. Both have the
contents that a digest would tell apart, and `made` is the attempt's local `prediction_ref`, so that a
file that another attempt has replaced is not the one a row names. Reading
the model, the dataset and the artifact touches no shared state that changes; where it raises, the
attempt takes `Error`.

### Backtest

The loop of `train_lightgbm`, one fold a step, as a computation over positions: an observation is its
index in its series, and a feature, a training row or a prediction is the set of indices it reads.
Python's own rules are modelled where the code leans on them: negative indices and slice bounds count
from the end, slices never raise and indices do, `%` takes the sign of the divisor. An input is a length
for every series, a horizon, a number of windows and a seasonal period, which the manifest
schema does not restrict to positive numbers. `residuals` has a record for every prediction that is
compared: the last index its history has, the index it is compared with and the one the baseline repeats.

The values themselves, metrics, weights, quantile offsets and what the estimators learn are left out.
A constant estimator reads less than `PredictReads` says, so the reads are an upper bound. In a fold
the columns are trimmed as the targets are, so that a known-future column is not visible at the steps
that are scored, in the code as in the model. The summary over an empty seasonal window raises in the code
(a division by zero); that never decides whether `FitRaises`, as the lag that reads beyond the history
raises for the same seasonal periods.

### Prediction

`forecast_lightgbm` in three steps: the items of the frame, the totals of the hierarchy, an item without
history. Time is counted in periods; the frame has the items of the artifact, but need not end where the
training data did, as a forecast may name another version of the dataset. A total is the set of the items
it adds up, a prediction for a new item the set of the times whose observations its profile is made of.
The distance of the last two observations is carried on into the future, as in the code, whether or not
it is the period of the data. Values, quantiles and the similarity of more than one column
of metadata are left out.

### Monitoring

`monitoring` reads two lists, each in a transaction, and then a file per forecast, while others create,
finish, fail and repeat forecasts and post actuals. The list has the youngest forecast first and a later
prediction replaces an earlier one, so that the oldest forecast of a point is the one it is scored with.
`state` and `recorded` are what the row of a forecast says, `stored` is the file under its key: a forecast
that is run again has another file before its row says so. The row of a forecast that has succeeded may turn
failed (`Fail`: the job's update raises after it, or Hatchet's answer was lost), and be queued once more
(`Requeue`). A file is materialized and then opened: on local disk it is verified and may be
replaced before it is opened, from r2 it comes out of `cached`, which other requests of the host fill and prune
(`OthersCache`), so that it may be gone, or an empty file, when it is opened. Either way the call fails
(`FailCall`) and answers nothing. `previous` (the last report before this one) and `unsettled` (forecasts
whose success something has touched since) are auxiliary. Forecasts are those of one model; metrics are
abstracted to which prediction each actual is compared with. Failures of the database and of the network are
left out: they end a call in the same way, and say nothing of a forecast.

## 3. What is checked

The first table has the runs that finish without an error; `PROJECT.json` pairs each of their properties with
a mistake that breaks it (the operators commented as mistakes in the modules). The second has the runs that
TLC ends with a counterexample: each checks one promise of a document or a comment that the code does not keep.

| Run | Instance | Shows |
|---|---|---|
| `idempotent_create` | 3 calls, 2 keys or none, 2 payloads, a pool of 2, fairness | `TypeOK`, `Refines` (implements `CreateOnce`), `EveryCallAnswered` |
| `experiment_races` | 1 create, 1 cancel, 2 threads, 1 retry, one of 5 faults, 2 outcomes of a training | `TypeOK`, `OneModelPerExperiment`, `LineageIntact`, `SuccessHasModel`, `ArtifactMatchesAtBirth` |
| `experiment_settles` | 2 creates with one key, 1 thread, 1 retry, one of 8 faults, fairness | `FailedOnlyBetweenAttempts`, `QueuedIsLive`, `SettledRowsAgree`, `EventuallySettled`, `EventuallyDispatched`, `EventuallyReported` |
| `dataset_versions` | 4 requests, 2 suffixes, 2 contents, 2 manifests, both stores | `TypeOK` (versions are numbered without gaps), `VersionsStand`, `VersionDataIntact`, `HashesHonest`, `UploadIntact`, `ProfileFresh` |
| `object_store` | 2 threads, 2 keys, 3 contents of sizes 1, 1 and 3, a cache of 2 bytes, 3 writes or deaths, both stores | `TypeOK` (a temporary file has a download or a dead process), `CalmReadsSucceed`, `CacheBounded`, `Refines` (implements `BlobStore`) |
| `forecasts_and_registry` | 2 creates, 2 threads, 1 retry, one of 4 faults, 2 outcomes of a prediction; 2 models, 2 promotions, 1 retirement | `TypeOK`, `ChampionsRaced`, `ChampionRemains`, `StrandedOnlyByRetirement`, `SucceededIsReadable` |
| `data_path`: `Canonical` | files of up to 3 rows, 2 items, 2 times, at most one invalid row, every manifest | `RowsKept`, `ValuesUsable` |
| `Backtest` | every input of 2 series of 1 to 8 observations, horizons 1 to 3, 1 to 3 windows, seasons -2 to 4 | `TypeOK`, `NoLookahead`, `ScoredOnce`, `BaselineInPhase` |
| `Prediction` | 2 items, histories of 1 to 3 observations, gaps of 1 or 2, ends 3 or 4, seasons 1 to 3, horizon 3 | `RowsContinue`, `TotalsComplete`, `ColdStartInPhase` |
| `Monitoring` | 2 forecasts, 1 key, 2 contents, both stores | `ReportsStand` |

| Run | Refuted | How |
|---|---|---|
| `null_target` | `TargetsPresent` | an absent target passes its check |
| `missing_target_summed` | `MissingTargetsKept` | the sum of no target is zero |
| `terminal_states` | `TerminalIsFinal` | an attempt fails, shows it, and is retried |
| `version_replaced` | `VersionsImmutable` | two finalizes overlap |
| `two_champions` | `AtMostOneChampion` | two promotions overlap |

### Why the bounds are enough

- Two threads are what an overlap needs: an attempt written off and its retry. One retry has both
  branches of every comparison with the retry count; the code's `JOB_RETRIES` is 2, and the proofs
  hold for any number.
- An attempt allocates at most one model id, and only when the experiment row had none when it read
  it, so as many ids as threads can be in use at once: two.
- A second create request is a repeated one; a third would be another of the same kind. `MaxFaults = 1`
  leaves every order of one fault with requests, cancellation and retries; the passing runs
  between them allow every kind of fault. `experiment_races` has the overlaps that a timeout makes (a
  lost worker leaves the same thread, without the signal a timed-out one may or may not see) and a
  cancellation, `experiment_settles` all faults and the repeated requests, on one thread; repeated requests on
  two threads are left to the proofs, which hold for any number of both.
- Three calls on one key give a creator, a follower and one that conflicts; a pool of two makes the
  third wait for a connection while the first two wait for or hold the lock.
- Four dataset requests are an upload, two that overlap and one more after or before them. The two
  contents and manifests tell versions apart; each request finalizes one version at most, so version
  numbers are bounded by the number of requests (`Numbers`).
- Two promotions of different models, from a registry with either of them or none as champion, have
  every overlap of listing, demoting and promoting; the proofs hold for any number. One of the two
  models may have lost to its baseline and its promotion is refused then; the other's is forced.
  Jobs read of the registry only which models are ready, which promotions do not change,
  and change none of it (`ImplementsRegistry`). So `ApartSpec` lets jobs run beside retirements, from one
  state of the rest, and promotions beside retirements before there is a forecast, instead of every
  state of the one beside every state of the other.
- Eight observations and a horizon of three or less have zero, one, two and three windows, a shortest
  series that decides the number for a longer one, histories shorter and longer than a season, and
  seasons that do and do not divide the horizon.
- Of the three contents of `object_store` two fit into the cache together with nothing else, and one
  exceeds it alone, so a prune keeps two files, one, or none but its own; two threads prune against
  each other, and three upsets replace an object, replace it again, and kill a reader.
- The four parts of `data_path` share no state. A behaviour studies one of them, from every initial state
  it has, while the others rest (`study`), so the states are those of four runs and not their product.
- Three rows have a duplicate with and without a third row of another key, and a key with three rows;
  targets are multiples of six, so that every mean is exact. An invalid row is rejected or passed over
  alone or beside a valid one; two invalid ones meet the same checks.
- Histories from one observation to a season and beyond give full and short profiles; ends and gaps
  one apart give series that go on together, apart, and at different distances. `Limit` is one neighbour
  instead of five, so that with two items it cuts. The proofs hold for any number.
- Two contents tell the file of an attempt from that of its retry. The faults of `forecasts_and_registry` make
  attempts overlap, die between file and row, or fail in their handlers, and have the API die.
- Two forecasts cover a key both, one or neither, and what becomes of one key in `monitoring` does not depend
  on another; a third call compares with the second as the second with the first. The proof holds for any
  number.
- Symmetry is used in safety runs only, over threads, requests, model ids, bytes, calls, keys and
  contents of one size: no definition tells their members apart. The items of `Prediction` are numbers;
  symmetry is over the values of the metadata column.

Every action and every disjunct fires in some passing run. Deadlock is not checked anywhere because
every instance ends: its requests have been served.

### The exceptions the properties name

Several properties hold except after named events. Each event in these lists is necessary, TLC finds a
counterexample without it:

- `QueuedIsLive` and `SettledRowsAgree` (a job at rest is not shown as queued, its two rows agree on a
  final state): a repeated request, a cancellation, a timeout, a lost worker, a run nobody takes and a store
  error outside the try body each break them; the first also the death of the worker of the last attempt,
  the second that of any worker and a lost reply of Hatchet. Those are the windows in which the projection
  has no owner.
- The lineage properties and `ArtifactMatchesAtBirth` need that no attempts of the experiment overlapped: `run_experiment` reads
  the id once and reserves it much later. `SuccessHasModel` holds even with overlaps.
- `FailedOnlyBetweenAttempts`: a job that Hatchet still has is shown as failed by an attempt that has yet to
  decide on its retry, without any event (`terminal_states`); otherwise a repeated request, a timeout, a lost or
  dead worker, a store error and a lost reply of Hatchet each lead there.
- `ChampionsRaced` has no exception: it says which overlap two champions come from, that of their own
  promotions (`two_champions`). `ChampionRemains` holds with overlaps, and
  needs that none died half-way: demotions precede the promotion, and the champion itself is demoted
  when it is promoted again.
- `StrandedOnlyByRetirement` names its exception in its conclusion: the state of the model is read before
  the idempotency key, so a repeated request of a forecast whose model was retired is answered 409,
  and a forecast whose submission was cut off stays queued. (A dispatch error is an exception too: the
  job is failed then, not stranded.)
- `VersionsStand` and `VersionDataIntact` blame each change of a version on an overlap of the finalize that
  wrote it (`version_replaced`): one that met nobody is safe from all others. `HashesHonest` needs,
  on local disk only, that no upload came between verification and opening. `UploadIntact` needs that
  uploads did not overlap or die between object and row, `ProfileFresh` that no upload was recorded
  while a profile was under way.
- `CalmReadsSucceed` is about reads during which nobody touches the store and whose reference is that of
  the object in place: otherwise a read may fail, though never lie (`Refines`). `CacheBounded` excludes a
  prune that ran into a file just unlinked, and dead readers, whose temporary files the next prune takes.
- `SucceededIsReadable`: that the file is the one the row names needs that attempts did not overlap; that
  there is a file and a reference needs nothing.
- `RowsKept` says of the absent target of a row under `sum` only that it is the sum of nothing;
  `missing_target_summed` is about it. `ValuesUsable` claims a positive weight only for files without
  duplicates: weights are checked before rows are merged.
- `RowsContinue` needs that the last two observations of the item are a period apart, `TotalsComplete`
  that the items of a total go on alike. `ColdStartInPhase` needs peers with a full season and no gap, and a
  frame that ends where the training data did.
- `ReportsStand` excepts forecasts whose success was taken back, repeated or overlapped; and on r2 it lets
  any call fail, since a prune can take away each file before it is opened.

### Fairness

`FairSpec` of `ExperimentRuns` assumes that a handler and a thread that can take their next step do
(weak fairness per process: neither waits for anything but the store), that Hatchet eventually hands a
pending run to a free thread, and that a client that has not yet called does so. The last is an
assumption on clients, not on the service, and is stated apart (`ClientFairness`); `EventuallyDispatched`
rests on it, which is the point of the outbox: without a repeated request nobody submits. No fairness is
assumed for faults, errors or the delivery of a cancellation in preference to other steps of its thread.
`FairSpec` of `IdempotentCreate` assumes that PostgreSQL and the pool serve each waiting call in the
end, when what it waits for is free.

## 4. What is proved

All theorems hold for every value of the constants that satisfies the named assumptions: any number
of calls, keys, payloads and connections; any number of jobs, threads, requests, retries, faults,
model ids and contents. `ControlAssumption` and `ExperimentAssumption` ask only that `JobOf` maps
requests to jobs, that the bounds are numbers, and that `None` is none of the values.

`IdempotentCreateProofs`: the invariant `IInv` adds to the type invariant that a call past the lock
holds it (`LockInv`), that links and committed rows with a key correspond (`LinkInv`), that what a call
concluded from its select is still true when it inserts or fetches (`SelectInv`), and what the replies
mean (`AnswerInv`). From it follow `TypeCorrectness`, `NoInternalErrors`, `OneResource` and `Refinement`: with
`made <- rows` every statement is a step of `CreateOnce` or a stutter, the commit being the step that
makes.

`ExperimentRunsProofs`: `TypeOK` alone is not inductive for the lineage properties, because an attempt
that is about to insert a model row must be known to be the only one. `IInv` is `TypeOK`, `BusyInv` (a
thread is bound to a job exactly while it is busy) and `DataInv`, the conjunction of `LocalsInv` (an
attempt starts without locals), `SoloInv` (without a recorded overlap, at most one thread works on a
job), `KnownInv` (the id an attempt remembers is then the row's), `PrivateInv` (an id is tied to one
experiment only, because `new_id` is fresh; this needs no absence of overlaps), `RowsInv` (a model row
names an experiment and has a bundle), `StoredInv` (a bundle that was put stays, and without an overlap
is the one last made) and `FinishInv` (past the lookup the model row exists and is of this experiment).
The proof treats each step of the body on its own, conjunct by conjunct. Control steps are handled
together: they change no data, and end or start attempts only in ways `LocalsEnd` describes. From `IInv`
follow `TypeCorrectness`, `OneModel`, `Lineage`, `Success` and the action properties `LineageIsFixed`
and `ArtifactAtBirth`.

What the rows of a job say of its run needs another kind of argument, because the properties except some
events and must follow a job through all others: API and worker crashes, lost replies, cancellations,
errors, retries. Every step is first reduced to what it does to one job (`NextJobStep`: a step elsewhere, a
step of an attempt, a submission, a cancellation, a step of Hatchet). `CalmInv` then says who can be at work
for a job that met no repeated request, timeout, lost worker or store error: nobody before the resource
exists (`UnbornInv`), one handler that submits and only while Hatchet has no run (`SubmitInv`), one attempt,
whose run is active unless it is written off (`AttemptInv`), and no trace of a cancellation without a request
for one (`UncancelledInv`). On top of it the rows: `QueuedInv` (where an attempt may show the job as queued),
`FailedInv` (where a failure may be shown while there is a run), `AgreedInv` (how both rows follow the
attempt, point by point). `QueuedJobsLive`, `FailedAnswerFinal` and `SettledRows` follow. TLC has checked each
of these invariants, with two faults and a cancellation, before it was proved.

`ForecastRunsProofs`: the composed system implements `RegistrySpec` (`ImplementsRegistry`), so that the
registry can be reasoned about alone. `ChampionsRaced` needs `RacedInv`: promotions under way together are on
record, and a champion that one of them will not demote is the model of one it met. `ChampionRemains` needs
`OriginInv`: a champion was made by a promotion that is done, or was there before any was, and then everybody
under way has it in its list; so a retirement that takes the last champion takes a promoted model.
`ChampionsOnlyRace` and `SomeChampion` follow. `RegistryAssumption` is what `MCForecastRuns` satisfies: targets
are models. On the job side `ForecastInv` is `TypeOK`, `BusyInv` as above, `AloneInv` (without a recorded
overlap one thread at most works on a job), `UnreportedInv` (while it does, and past its first read, no row
of the job says succeeded, since the attempt would have returned), `AboutToReport` (an attempt about to report
success has stored its file, which alone is still its own, and before the last update recorded it) and
`SucceededIsReadable`. So no attempt that is alone replaces the file of a success, and the overlaps that do
never take file or reference away. `TypeCorrectness` and `Readable` follow. `StrandedByRetirement` needs
`RunInv` (whoever acts for a run of a job finds that it has had one), `CrashedInv` (a request that ended
without a run or a dispatch error died with the API, and no other request of the job did) and `RefusedInv` (a
model that was not ready for a request never is again). It leans on a bound of the model: each kind of fault
strikes a job once, so two deaths of the API do not strand a forecast here.

`DatasetVersionsProofs`: all six properties of the run, for any number of requests, suffixes, contents and
manifests. `IInv` adds to them what the requests in progress may still do: tables they carry are numbered
without gaps (`TablesNumbered`); finalizes under way together are on record, what a finalize has not read of the row as it
is was written by one it met, and one that met nobody has read it as it is (`FinalizesMeet`) and has in the
store what it is about to record (`AboutToRecord`); what a call has read is
of the file its reference names (`ReadsHonest`); an upload about to be recorded is alone (`UploadAlone`); a
profile about to be recorded is that of the upload on record (`ProfilesCurrent`).

`ObjectStoreProofs`: `Honest` says that a file under a digest holds that content or nothing, that a download
which passed its verification still holds what was verified, and that reads are of issued references. It
is what a step of `Open` needs to be a step of `BlobStore` (`StoreRefines`); all others are writes or
stutters. The refinement uses neither sizes nor ages: whatever is pruned, nothing else becomes readable. `StoreTypes`
adds that what was issued is stored (`IssuedStored`), which downloads and local reads need. `CalmReads` rests
on `Undisturbed`, which has for each point of a call the file that the next one relies on: `stat` finds what
`is_file` found, an equal size is the content's own because no content is empty, and what a prune dooms is
never its own file (`DoomedNames`), whatever the sizes. `AgesOrdered`: the order by which a prune sorts is a
strict total order on the files, in every reachable state.

`CacheStaysBounded` needs the bytes of a set of files to grow with the set. That is an induction over
the set; in `Sums` it goes by the least of the subsets for which a fact fails (`LeastSet`, which the
well-foundedness of inclusion on finite sets gives), and `SumGrows` is its outcome. `PruneFits`: of the files a prune leaves, the
oldest other than the target was left because everything not older fits. A prune works with what it listed,
while others add and remove files; so the invariant `Bounded` says that the finished files fit, or that some
thread is about to list, has listed all of them that are not empty, or still has to unlink what is too much
(`Pending`). Whoever adds a file is about to list; every other step leaves no finished file that was not
there before, except an empty one (`StepSettles`). TLC has checked `Bounded` first.

`CanonicalProofs`: `RowsAreKept` and `ValuesAreUsable`, both properties of `Canonical`, for every file, manifest
and policy. `CanonicalInv` says what `data` is at each check: the file itself until duplicates are merged
(`Whole`), then that in order; and what the checks passed so far have established of the file, valid
values and a positive weight, since nothing after the merge looks at them again. TLC has checked it first. The
rest is what the operators do to a sequence of rows of any length. `AggregatedFrame`: one row for each key,
and no key twice. `SortedFrame`: strictly ascending, no row lost; the number of rows before a row is a
bijection from the rows onto their positions, because the keys are ordered linearly and differ. `MergedAlone`:
a row whose key occurs once is unchanged, unless its target is absent and the policy sums. `CombinedInRange`:
a mean is between two targets of its key (`SumBetween` of `Sums`, and a lemma on quotients).

`ModelingProofs` extends three modules that share no name, as does `MCDataPath` with `Canonical`, so that three
of the four have their own names for what is elsewhere `Init`, `Next`, `Spec` and `vars`:

- `Backtest`, for any number of series, lengths, horizons, windows and seasonal periods. `IInv` is
  `InputInv` (types), `PlanInv` (windows are whole horizons apart, at least one, and leave every series a
  history), `ScoreInv` (the residuals are exactly the scores of the folds so far, and a fold that got
  through had a positive seasonal period) and `SeenInv` (the latest fold read nothing but its history).
  From it follow `Lookahead`, `TypeCorrectness`, `PositiveSeason`, `InPhase` and `Scored`: every property of
  the module. `InPhase` rests on lemmas about quotients and remainders, `Scored` counts the scores by a
  bijection with pairs of a fold and a step.
- `Prediction`: `ForecastInv` says of each part that is done what it computed (`RowsMade`, `TotalsMade`);
  `RowsContinue`, `TotalsComplete` and `ColdStartInPhase` follow for any number of items, steps and
  neighbours, the last with a lemma on remainders: going back a whole number of seasons keeps the phase.
- `Monitoring`: `MonitoringInv` says that whatever a report, the one before it or a call in progress has of a
  forecast is still true of it, unless the forecast is unsettled (`Stands`, `ScoresStand`, `CallStands`), that
  a forecast whose success nothing has touched has the file its row names (`OnceStored`), and that each point
  of the last report is still to be read by the call, or has been and only older forecasts are left to replace
  it (`PointsFollowed`). Nothing is known of the cache, which is why a call may fail.

`NoInternalErrors`, `OneResource`, `LineageIsFixed`, `PositiveSeason`, `CacheHonest` and
`AgesOrdered` state promises that no run lists; the theorems establish them for every
instance.

Every invariant and every safety property that a passing run checks is stated by one of these theorems. Only
model-checked is liveness, since fairness and ENABLED are out of the prover's reach: `EveryCallAnswered` and the
three of `experiment_settles` that begin with `Eventually`. The library's induction theorems cannot be used, since they take an operator as
a parameter; what needs an induction over data (sums, the first element of an order) goes by
well-foundedness instead (`LeastSet`, `FirstExists`, `LeastNatural`).

## 5. Disagreements with the documentation

`plan` is `docs/forecasting-system-plan.md`, `README` the repository's. Five promises are stated as properties
of their own, which a run refutes:

| Text | Code | Run |
|---|---|---|
| "timestamp and target values must be parseable, finite, and non-null" (`data.py` 121) | `is_finite` of an absent value is absent and the sum passes over it: absent and unparseable targets pass (`data.py` 119) | `null_target` |
| "Preserve missing targets as missingness, not automatic zeros" (plan 94) | once any key is duplicated, `sum` makes zero of the missing target of every key (`data.py` 147) | `missing_target_summed` |
| "plus terminal `failed` and `cancelled`" (plan 366) | a failed attempt writes `failed`, then `queued` if it is to be retried (`runtime.py` 206, `worker.py` 149) | `terminal_states` |
| "Every finalized dataset version is immutable and content-addressed" (plan 98) | the second of two overlapping finalizes replaces the version of the first (`platform.py` 260) | `version_replaced` |
| "Promote through an atomic alias (`champion`)" (plan 383) | the champions are listed and updated in several transactions (`platform.py` 381) | `two_champions` |

`TerminalIsFinal` is about `cancelled` too: with `Cancels = {c1}` the same instance ends in a cancellation that
`_stage` overwrites with `running` (`runtime.py` 303).

Others have no run of their own. The model has the behaviour, and where the table names a property of a passing
run, the behaviour is an exception in it, and the property says that nothing else leads there:

| Text | Code | Exception of |
|---|---|---|
| "persisted for API clients; worker must not disappear silently" (`runtime.py` 204), "PostgreSQL remains the application-facing job-state projection" (README 143) | only a living worker writes how a job ended; when it dies in the last attempt the row says queued or running for ever | `QueuedIsLive`, `EventuallyReported` |
| "Retraining creates new experiment and model versions rather than mutating prior artifacts" (plan 99) | a retry puts its bundle under the key of the model row it has yet to find (`runtime.py` 153) | none: `ArtifactMatchesAtBirth` is about new rows only |
| "Jobs are idempotent, retryable" (plan 293) | of two overlapping attempts each reserves an id and inserts a model (`runtime.py` 127) | `OneModelPerExperiment` |
| "Immutable object storage for uploads, canonical Parquet, model bundles, and predictions" (README 24) | the key of an upload is that of the one before (`platform.py` 178) | `UploadIntact` |
| the same | an attempt puts its predictions in the place of those of a finished forecast (`runtime.py` 256) | `SucceededIsReadable` |
| "Atomically promote a validated model version" (plan 335) | the old champion goes before the new one comes, or without it (`platform.py` 385) | `ChampionRemains` |

The plan is a design and some of it is not built yet; the lines quoted are about parts that are.

## 6. Not modelled, and the plan

Not modelled because they keep no state of their own: configuration, schemas, health routes, entry
points, the demo client, authentication. LightGBM, AutoGluon and polars are third-party. In the parts that are
modelled the following is left out: `profile_file` and `infer_frequency`, which only describe a file; the
staging of uploads with its size limit, presigned URLs and the parsing of URIs; metrics, quantile
offsets and the training of the estimators; `TestDispatcher`; priorities and back-off of Hatchet.

One hazard that `PROJECT.json` lists has no property, as no text says what should happen: neither promotion
nor demotion looks at the state of a model, so that a retired model can become champion. The model has that
behaviour.

Planned, in this order:

1. An abstract job specification that experiment and forecast runs implement, and with it for forecast
   jobs what `CalmInv` gives for experiments.
2. Frequency inference and the staging of uploads.
