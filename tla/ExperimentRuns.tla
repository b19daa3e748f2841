---------------------------- MODULE ExperimentRuns ----------------------------
(***************************************************************************)
(* Experiment jobs: JobControl with the body of Runtime.run_experiment.    *)
(*                                                                         *)
(* An attempt trains a model, stores the bundle under a key derived from   *)
(* the model id, and then creates the model row that carries the digest of *)
(* the bundle.  The model id is allocated once and kept in the experiment  *)
(* row so that a retry reuses it.                                          *)
(***************************************************************************)
EXTENDS JobControl

CONSTANTS
    ModelIds,  \* identifiers new_id can allocate
    Bytes      \* contents a trained bundle can have

ASSUME ExperimentAssumption == None \notin ModelIds \cup Bytes /\ Bytes # {}

VARIABLES
    modelId,  \* model_id of each experiment row
    models,   \* the model rows: the experiment that trained them, their artifact digest
    object,   \* the object store: the bundle under each model's key
    known,    \* run_experiment's local model_id, per thread
    made      \* run_experiment's local artifact_ref, per thread

dataVars == <<modelId, models, object>>
localVars == <<known, made>>
vars == <<controlVars, dataVars, localVars>>

NoModel == [experiment |-> None, bytes |-> None]
Exists(m) == models[m] # NoModel

Init ==
    /\ ControlInit
    /\ modelId = [j \in Jobs |-> None]
    /\ models = [m \in ModelIds |-> NoModel]
    /\ object = [m \in ModelIds |-> None]
    /\ known = [w \in Slots |-> None]
    /\ made = [w \in Slots |-> None]

-----------------------------------------------------------------------------
(* run_experiment, on thread w *)

UnchangedControl == UNCHANGED <<resource, job, hatchet, request, cancel, history>>

\* Mistake: the model id of an earlier attempt is forgotten.
BeginAfresh(w) ==
    /\ slot[w].pc = "read"
    /\ Goto(w, "read",
            IF resource[slot[w].job] = "succeeded" THEN "return" ELSE "check_validating")
    /\ UnchangedControl
    /\ UNCHANGED <<dataVars, localVars>>

\* Read the experiment once: return if an earlier attempt finished it, and
\* remember the model id an earlier attempt reserved.
Begin(w) ==
    /\ Goto(w, "read",
            IF resource[slot[w].job] = "succeeded" THEN "return" ELSE "check_validating")
    /\ known' = [known EXCEPT ![w] = modelId[slot[w].job]]
    /\ UnchangedControl
    /\ UNCHANGED <<dataVars, made>>

\* Model m is tied to job j: by the experiment row, the model row or a thread.
Owns(m, j) ==
    \/ modelId[j] = m
    \/ models[m].experiment = j
    \/ \E w \in Slots : slot[w].job = j /\ known[w] = m

\* Keep the remembered id, or allocate a fresh one and store it in the row.
Reserve(w) ==
    LET j == slot[w].job IN
    /\ Goto(w, "reserve", "train")
    /\ \/ known[w] # None /\ UNCHANGED <<modelId, known>>
       \/ /\ known[w] = None
          /\ \E m \in ModelIds :
                /\ \A i \in Jobs : ~Owns(m, i)
                /\ modelId' = [modelId EXCEPT ![j] = m]
                /\ known' = [known EXCEPT ![w] = m]
    /\ UnchangedControl
    /\ UNCHANGED <<models, object, made>>

\* Mistake: the bundle is trained again before its digest is taken.
TrainTwice(w) ==
    /\ Goto(w, "train", "check_packaging")
    /\ \E b, d \in Bytes :
          /\ object' = [object EXCEPT ![known[w]] = b]
          /\ made' = [made EXCEPT ![w] = d]
    /\ UnchangedControl
    /\ UNCHANGED <<modelId, models, known>>

\* Mistake: nothing is put under the key.
TrainWithoutPut(w) ==
    /\ Goto(w, "train", "check_packaging")
    /\ \E b \in Bytes : made' = [made EXCEPT ![w] = b]
    /\ UnchangedControl
    /\ UNCHANGED <<modelId, models, object, known>>

\* Train, and put the bundle under the key of the model id.
Train(w) ==
    /\ Goto(w, "train", "check_packaging")
    /\ \E b \in Bytes :
          /\ object' = [object EXCEPT ![known[w]] = b]
          /\ made' = [made EXCEPT ![w] = b]
    /\ UnchangedControl
    /\ UNCHANGED <<modelId, models, known>>

\* Mistake: a reserved id is taken for a model row.
LookupTrusting(w) ==
    /\ Goto(w, "lookup", "finish_resource")
    /\ UnchangedControl
    /\ UNCHANGED <<dataVars, localVars>>

\* store.get of the model row; an attempt that finds it skips its creation.
Lookup(w) ==
    /\ Goto(w, "lookup", IF Exists(known[w]) THEN "finish_resource" ELSE "create")
    /\ UnchangedControl
    /\ UNCHANGED <<dataVars, localVars>>

\* INSERT of the model row; a second INSERT of the id violates the primary key.
CreateModel(w) ==
    /\ Goto(w, "create", IF Exists(known[w]) THEN "fail_resource" ELSE "finish_resource")
    /\ models' = IF Exists(known[w]) THEN models
                 ELSE [models EXCEPT ![known[w]] = [experiment |-> slot[w].job, bytes |-> made[w]]]
    /\ UnchangedControl
    /\ UNCHANGED <<modelId, object, localVars>>

\* The experiment has succeeded, with this model.
FinishResource(w) ==
    LET j == slot[w].job IN
    /\ Goto(w, "finish_resource", "finish_job")
    /\ SetResource(j, "succeeded")
    /\ modelId' = [modelId EXCEPT ![j] = known[w]]
    /\ UNCHANGED <<job, hatchet, request, cancel, history, models, object, localVars>>

\* _stage, three times: its check and its write are two transactions.
Stage(w) ==
    /\ \/ CheckCancelled(w, "check_validating", "write_validating")
       \/ StageWrite(w, "write_validating", "check_backtesting")
       \/ CheckCancelled(w, "check_backtesting", "write_backtesting")
       \/ StageWrite(w, "write_backtesting", "reserve")
       \/ CheckCancelled(w, "check_packaging", "write_packaging")
       \/ StageWrite(w, "write_packaging", "lookup")
    /\ UNCHANGED <<dataVars, localVars>>

BodyStep(w) ==
    \/ Begin(w) \/ Stage(w) \/ Reserve(w) \/ Train(w)
    \/ Lookup(w) \/ CreateModel(w) \/ FinishResource(w)

\* A step of the control plane changes no data; the locals of an attempt end
\* with it.
LocalsEnd ==
    /\ known' = [w \in Slots |-> IF slot'[w].pc = "idle" THEN None ELSE known[w]]
    /\ made' = [w \in Slots |-> IF slot'[w].pc = "idle" THEN None ELSE made[w]]
    /\ UNCHANGED dataVars

Next == (\E w \in Slots : BodyStep(w)) \/ (ControlNext /\ LocalsEnd)

Spec == Init /\ [][Next]_vars

(***************************************************************************)
(* Fairness.  A handler and a thread take their next step, Hatchet hands   *)
(* out a pending run; nothing says that a fault or an error ever happens.  *)
(* That clients do call, and call again with their key, is an assumption   *)
(* on them and stated apart.                                               *)
(***************************************************************************)
ServiceFairness ==
    /\ \A r \in Requests : WF_vars(HandlerStep(r) /\ LocalsEnd)
    /\ \A c \in Cancels : WF_vars(CancelStep(c) /\ LocalsEnd)
    /\ \A w \in Slots : WF_vars(BodyStep(w) \/ (UnwindStep(w) /\ LocalsEnd))
    /\ WF_vars((\E w \in Slots, j \in Jobs : StartAttempt(w, j)) /\ LocalsEnd)

ClientFairness == \A r \in Requests : WF_vars((Create(r) \/ Replay(r)) /\ LocalsEnd)

FairSpec == Spec /\ ServiceFairness /\ ClientFairness

-----------------------------------------------------------------------------
(* The type invariant *)

\* Program points of the try body, before and after the last check for a
\* cancellation.
Early == {"read", "check_validating", "write_validating", "check_backtesting",
          "write_backtesting", "reserve", "train", "check_packaging"}
Late == {"write_packaging", "lookup", "create", "finish_resource", "finish_job"}
SlotPoints == Early \cup Late \cup Unwinding \cup {"idle"}

Thread == [pc : SlotPoints, job : Jobs \cup {None}, run : Nat, retry : 0..JOB_RETRIES,
           stop : {"no", "sent", "yes"}, orphan : BOOLEAN]

ControlTypeOK ==
    /\ resource \in [Jobs -> ResourceStates]
    /\ job \in [Jobs -> JobRow]
    /\ hatchet \in [Jobs -> Run]
    /\ slot \in [Slots -> Thread]
    /\ request \in [Requests -> Handler]
    /\ cancel \in [Cancels -> Canceller]
    /\ history \in [Jobs -> SUBSET Events]

TypeOK ==
    /\ ControlTypeOK
    /\ modelId \in [Jobs -> ModelIds \cup {None}]
    /\ models \in [ModelIds -> [experiment : Jobs \cup {None}, bytes : Bytes \cup {None}]]
    /\ object \in [ModelIds -> Bytes \cup {None}]
    /\ known \in [Slots -> ModelIds \cup {None}]
    /\ made \in [Slots -> Bytes \cup {None}]

-----------------------------------------------------------------------------
(* Safety *)

\* Retries of one experiment share one model: unless two attempts overlapped,
\* an experiment has at most one model row and points at it.  (The id is read
\* once, reserved in one transaction and inserted much later.)
OneModelPerExperiment ==
    \A j \in Jobs : Spared(j, {"overlap"}) =>
        \A m \in ModelIds : models[m].experiment = j => modelId[j] = m

\* An experiment that succeeded points at a model row that was trained for it.
LineageIntact ==
    \A j \in Jobs : Spared(j, {"overlap"}) /\ resource[j] = "succeeded" =>
        modelId[j] # None /\ models[modelId[j]].experiment = j

\* Once reserved, the model id of an experiment never changes, whatever
\* retries, redispatches and cancellations follow.
LineageFixed ==
    [][\A j \in Jobs : modelId[j] # None /\ "overlap" \notin history'[j] =>
            modelId'[j] = modelId[j]]_vars

\* Success is reported, in either row, only when a model row of the experiment
\* and a bundle under its key exist; overlapping attempts do not break this.
SuccessHasModel ==
    \A j \in Jobs : "succeeded" \in {resource[j], job[j].state} =>
        \E m \in ModelIds : models[m].experiment = j /\ object[m] # None

\* The digest in a new model row is that of the bundle under its key, unless two
\* attempts overlapped.  (A retry may replace the bundle later.)
ArtifactMatchesAtBirth ==
    [][\A m \in ModelIds : ~Exists(m) /\ Exists(m)'
            /\ "overlap" \notin history[models'[m].experiment] =>
                object'[m] = models'[m].bytes]_vars

\* A job shown as queued once everything has come to rest is a job nobody will
\* ever run.  It happens only after the events named here, or when the worker of
\* the last attempt died; the death of one before it does not lead here.
QueuedIsLive ==
    \A j \in Jobs : Settled(j) /\ job[j].state = "queued" =>
        \/ ~Spared(j, {"replay", "cancel", "timeout", "lost_worker", "store_error",
                       "unscheduled"})
        \/ "worker_crash" \in history[j] /\ hatchet[j].retry = JOB_RETRIES

\* A job is shown as failed while Hatchet still has its run only by an attempt
\* between its own failure and the decision to retry, or after one of these
\* events.  (That it is shown at all contradicts TerminalIsFinal.)
FailedOnlyBetweenAttempts ==
    \A j \in Jobs :
        job[j].state = "failed" /\ hatchet[j].status \in {"pending", "active"} =>
            \/ \E w \in Slots :
                slot[w].job = j
                    /\ slot[w].pc \in {"triage", "requeue_resource", "requeue_job", "raise"}
            \/ ~Spared(j, {"replay", "timeout", "lost_worker", "store_error", "worker_crash",
                           "lost_answer"})

\* At rest the two rows a client can poll give the same, final answer, unless
\* the job went through one of the events named here.
SettledRowsAgree ==
    \A j \in Jobs :
        Settled(j) /\ Spared(j, {"replay", "cancel", "timeout", "lost_worker", "store_error",
                                 "worker_crash", "lost_answer", "unscheduled"}) =>
            resource[j] = job[j].state /\ resource[j] \in {"succeeded", "failed"}

-----------------------------------------------------------------------------
(* What the documents say and the code does not do; refuted by a run *)

\* "plus terminal `failed` and `cancelled`" (docs/forecasting-system-plan.md:366):
\* a job row that says one of the two goes on saying so.  The handlers of
\* run_experiment write failed before _execute decides on a retry, and _stage and
\* the last update of a run method write without a look at the state they replace.
TerminalIsFinal ==
    [][\A j \in Jobs :
            job[j].state \in {"failed", "cancelled"} => job'[j].state = job[j].state]_vars

-----------------------------------------------------------------------------
(* Liveness, of FairSpec *)

\* Whatever faults occur, a dispatched job comes to rest: retries end.
EventuallySettled ==
    \A j \in Jobs : hatchet[j].run # 0 ~> Settled(j)

\* The job row is an outbox: a client that repeats its request with the same
\* key gets the job to Hatchet although the API died before it submitted.
EventuallyDispatched ==
    \A j \in Jobs : resource[j] # "absent" ~> hatchet[j].run # 0

\* A poller of the job sees a final state.
EventuallyReported ==
    \A j \in Jobs : resource[j] # "absent" ~>
        \/ job[j].state \in Terminal
        \/ ~Spared(j, {"replay", "cancel", "timeout", "lost_worker", "store_error",
                       "worker_crash", "unscheduled"})

=============================================================================
