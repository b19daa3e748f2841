------------------------------ MODULE JobControl ------------------------------
(***************************************************************************)
(* The control plane of a durable job, whatever the job computes:          *)
(*                                                                         *)
(*   - the HTTP handlers that create a resource with its job and submit    *)
(*     it to Hatchet (platform.py, runtime.py, dispatch.py),               *)
(*   - the handler that cancels it,                                        *)
(*   - the Hatchet orchestrator, as far as the source relies on it: one    *)
(*     live run per idempotency key (the job id), JOB_RETRIES retries,     *)
(*     recovery of attempts whose worker is lost, cancellation of a run,   *)
(*   - the worker's _execute wrapper and the error and cancellation paths  *)
(*     of the runtime (worker.py, runtime.py).                             *)
(*                                                                         *)
(* One step of the model is one transaction of the PostgreSQL store, one   *)
(* call to Hatchet, or one call to the object store: between two of them   *)
(* any other process may run and the process itself may die.               *)
(*                                                                         *)
(* A job kind (ExperimentRuns, ForecastRuns) extends this module with the  *)
(* body of its run method, built from CheckCancelled, StageWrite and Goto. *)
(***************************************************************************)
EXTENDS Naturals, FiniteSets

CONSTANTS
    Jobs,         \* (resource, job) pairs; a job id is an idempotency key of Hatchet
    Slots,        \* worker threads that can execute an attempt
    Requests,     \* create requests; those of one job carry one Idempotency-Key
    Cancels,      \* cancel requests
    JobOf,        \* the job a create or cancel request is about
    JOB_RETRIES,  \* retries after the first attempt (config.py)
    Faults,       \* the kinds of fault the environment may inject
    MaxFaults,    \* bound on the faults one job suffers
    None

FaultKinds == {"api_crash", "dispatch_error", "lost_answer", "store_error",
               "worker_crash", "lost_worker", "timeout", "unscheduled"}

ASSUME ControlAssumption ==
    /\ JobOf \in [Requests \cup Cancels -> Jobs]
    /\ JOB_RETRIES \in Nat
    /\ Faults \subseteq FaultKinds
    /\ MaxFaults \in Nat
    /\ None \notin Jobs

VARIABLES
    resource,  \* state of the experiment or forecast row, "absent" before it exists
    job,       \* the job row: its state and its orchestrator_run_id (0: not recorded)
    hatchet,   \* the latest Hatchet run of the job: number, status, retry count
    slot,      \* what each worker thread executes
    request,   \* program counter of each create handler, and the run id it was answered
    cancel,    \* program counter of each cancel handler, and the run id it read
    history    \* the faults and races each job has been through (auxiliary)

controlVars == <<resource, job, hatchet, slot, request, cancel, history>>

Events == FaultKinds \cup {"replay", "cancel", "overlap"}

\* A thread is bound to an attempt (job, run, retry); "stop" is Hatchet's
\* cancellation of the attempt, "orphan" says that Hatchet has written the
\* attempt off and ignores how it ends.
IdleSlot == [pc |-> "idle", job |-> None, run |-> 0, retry |-> 0,
             stop |-> "no", orphan |-> FALSE]

Busy(w) == slot[w].pc # "idle"

ControlInit ==
    /\ resource = [j \in Jobs |-> "absent"]
    /\ job = [j \in Jobs |-> [state |-> "absent", run |-> 0]]
    /\ hatchet = [j \in Jobs |-> [run |-> 0, status |-> "none", retry |-> 0]]
    /\ slot = [w \in Slots |-> IdleSlot]
    /\ request = [r \in Requests |-> [pc |-> "idle", run |-> 0]]
    /\ cancel = [c \in Cancels |-> [pc |-> "idle", run |-> 0]]
    /\ history = [j \in Jobs |-> {}]

-----------------------------------------------------------------------------
(* Updates of the rows, and the record of faults *)

SetResource(j, s) == resource' = [resource EXCEPT ![j] = s]
SetJob(j, s) == job' = [job EXCEPT ![j].state = s]
Goto(w, here, next) ==
    /\ slot[w].pc = here
    /\ slot' = [slot EXCEPT ![w].pc = next]
RequestGoto(r, here, next) ==
    /\ request[r].pc = here
    /\ request' = [request EXCEPT ![r].pc = next]
CancelGoto(c, here, next) ==
    /\ cancel[c].pc = here
    /\ cancel' = [cancel EXCEPT ![c].pc = next]

Note(j, e) == history' = [history EXCEPT ![j] = @ \cup {e}]

\* Job j suffers a fault: each kind at most once, MaxFaults in all.
Suffer(j, kind) ==
    /\ kind \in Faults \ history[j]
    /\ Cardinality(history[j] \cap FaultKinds) < MaxFaults
    /\ Note(j, kind)

-----------------------------------------------------------------------------
(* The create handlers: create_experiment and create_forecast *)

\* create_idempotent commits the resource, its job and the idempotency link
\* in one transaction (IdempotentCreate models it); the request that created
\* them goes on to submit.
Create(r) ==
    LET j == JobOf[r] IN
    /\ resource[j] = "absent"
    /\ SetResource(j, "queued")
    /\ SetJob(j, "queued")
    /\ RequestGoto(r, "idle", "submit")
    /\ UNCHANGED <<hatchet, slot, cancel, history>>

\* A later request with the same key is answered the existing resource.
Replay(r) ==
    /\ resource[JobOf[r]] # "absent"
    /\ RequestGoto(r, "idle", "dispatch_required")
    /\ UNCHANGED <<resource, job, hatchet, slot, cancel, history>>

\* Mistake: a request that created nothing never dispatches.
NeverRedispatch(r) ==
    /\ RequestGoto(r, "dispatch_required", "done")
    /\ UNCHANGED <<resource, job, hatchet, slot, cancel, history>>

\* dispatch_required, for a request that created nothing: redispatch unless
\* the job row records a run.
DispatchRequired(r) ==
    LET j == JobOf[r] IN
    \/ /\ job[j].run # 0
       /\ RequestGoto(r, "dispatch_required", "done")
       /\ UNCHANGED <<resource, job, hatchet, slot, cancel, history>>
    \/ /\ job[j].run = 0
       /\ RequestGoto(r, "dispatch_required", "reset_resource")
       /\ Note(j, "replay")
       /\ UNCHANGED <<resource, job, hatchet, slot, cancel>>

ResetResource(r) ==
    /\ RequestGoto(r, "reset_resource", "reset_job")
    /\ SetResource(JobOf[r], "queued")
    /\ UNCHANGED <<job, hatchet, slot, cancel, history>>

ResetJob(r) ==
    /\ RequestGoto(r, "reset_job", "submit")
    /\ SetJob(JobOf[r], "queued")
    /\ UNCHANGED <<resource, hatchet, slot, cancel, history>>

\* Hatchet holds the idempotency key (the job id) while a run is live.
KeyFree(j) == hatchet[j].status \in {"none", "done"}

NewRun(j) ==
    hatchet' = [hatchet EXCEPT ![j] =
        [run |-> hatchet[j].run + 1, status |-> "pending", retry |-> 0]]

\* task.run answers the id of the run that now holds the key ...
SubmitAccepted(r) ==
    LET j == JobOf[r] IN
    /\ request[r].pc = "submit"
    /\ IF KeyFree(j) THEN NewRun(j) ELSE UNCHANGED hatchet
    /\ request' = [request EXCEPT ![r] = [pc |-> "record", run |-> hatchet'[j].run]]
    /\ UNCHANGED <<resource, job, slot, cancel, history>>

\* ... or reports the collision as an error ...
SubmitCollides(r) ==
    /\ ~KeyFree(JobOf[r])
    /\ RequestGoto(r, "submit", "fail_resource")
    /\ UNCHANGED <<resource, job, hatchet, slot, cancel, history>>

\* ... or fails before it reaches Hatchet ...
SubmitFails(r) ==
    /\ RequestGoto(r, "submit", "fail_resource")
    /\ Suffer(JobOf[r], "dispatch_error")
    /\ UNCHANGED <<resource, job, hatchet, slot, cancel>>

\* ... or after Hatchet has accepted the run, when the answer is lost.
SubmitAnswerLost(r) ==
    LET j == JobOf[r] IN
    /\ RequestGoto(r, "submit", "fail_resource")
    /\ KeyFree(j)
    /\ NewRun(j)
    /\ Suffer(j, "lost_answer")
    /\ UNCHANGED <<resource, job, slot, cancel>>

\* _submit's except clause, then DispatchError.
FailResourceOfRequest(r) ==
    /\ RequestGoto(r, "fail_resource", "fail_job")
    /\ SetResource(JobOf[r], "failed")
    /\ UNCHANGED <<job, hatchet, slot, cancel, history>>

FailJobOfRequest(r) ==
    /\ RequestGoto(r, "fail_job", "done")
    /\ SetJob(JobOf[r], "failed")
    /\ UNCHANGED <<resource, hatchet, slot, cancel, history>>

\* _submit records the run id in the job row.
RecordRun(r) ==
    /\ request[r].pc = "record"
    /\ job' = [job EXCEPT ![JobOf[r]].run = request[r].run]
    /\ request' = [request EXCEPT ![r] = [pc |-> "done", run |-> 0]]
    /\ UNCHANGED <<resource, hatchet, slot, cancel, history>>

\* The API process dies, or an exception leaves the handler.
ApiCrash(r) ==
    /\ request[r].pc \notin {"idle", "done"}
    /\ request' = [request EXCEPT ![r] = [pc |-> "done", run |-> 0]]
    /\ Suffer(JobOf[r], "api_crash")
    /\ UNCHANGED <<resource, job, hatchet, slot, cancel>>

-----------------------------------------------------------------------------
(* The cancel handler: cancel_experiment and Runtime.cancel *)

CancelRead(c) ==
    LET j == JobOf[c] IN
    /\ cancel[c].pc = "idle"
    /\ resource[j] # "absent"
    /\ cancel' = [cancel EXCEPT ![c] =
            [pc |-> IF job[j].run = 0 THEN "cancel_job" ELSE "signal",
             run |-> job[j].run]]
    /\ Note(j, "cancel")
    /\ UNCHANGED <<resource, job, hatchet, slot, request>>

\* dispatcher.cancel: Hatchet ends the run and sends the attempt, if one is
\* active, its cancellation. A run that has ended is left alone.
CancelSignal(c) ==
    LET j == JobOf[c]
        live == hatchet[j].run = cancel[c].run /\ hatchet[j].status \in {"pending", "active"}
        hit(w) == live /\ slot[w].job = j /\ ~slot[w].orphan
    IN
    /\ CancelGoto(c, "signal", "cancel_job")
    /\ hatchet' = IF live THEN [hatchet EXCEPT ![j].status = "done"] ELSE hatchet
    /\ slot' = [w \in Slots |->
            IF hit(w) THEN [slot[w] EXCEPT !.orphan = TRUE, !.stop = "sent"] ELSE slot[w]]
    /\ UNCHANGED <<resource, job, request, history>>

CancelJob(c) ==
    /\ CancelGoto(c, "cancel_job", "cancel_resource")
    /\ SetJob(JobOf[c], "cancelled")
    /\ UNCHANGED <<resource, hatchet, slot, request, history>>

CancelResource(c) ==
    /\ cancel[c].pc = "cancel_resource"
    /\ cancel' = [cancel EXCEPT ![c] = [pc |-> "done", run |-> 0]]
    /\ SetResource(JobOf[c], "cancelled")
    /\ UNCHANGED <<job, hatchet, slot, request, history>>

CancelCrash(c) ==
    /\ cancel[c].pc \notin {"idle", "done"}
    /\ cancel' = [cancel EXCEPT ![c] = [pc |-> "done", run |-> 0]]
    /\ Suffer(JobOf[c], "api_crash")
    /\ UNCHANGED <<resource, job, hatchet, slot, request>>

-----------------------------------------------------------------------------
(* Hatchet and the worker threads *)

\* Hatchet hands a pending run to a free thread, which enters _execute.
StartAttempt(w, j) ==
    /\ hatchet[j].status = "pending"
    /\ ~Busy(w)
    /\ hatchet' = [hatchet EXCEPT ![j].status = "active"]
    /\ slot' = [slot EXCEPT ![w] = [IdleSlot EXCEPT
            !.pc = "read", !.job = j, !.run = hatchet[j].run, !.retry = hatchet[j].retry]]
    /\ IF \E v \in Slots : slot[v].job = j THEN Note(j, "overlap") ELSE UNCHANGED history
    /\ UNCHANGED <<resource, job, request, cancel>>

\* The cancellation reaches the thread: context.is_cancelled.
DeliverStop(w) ==
    /\ slot[w].stop = "sent"
    /\ slot' = [slot EXCEPT ![w].stop = "yes"]
    /\ UNCHANGED <<resource, job, hatchet, request, cancel, history>>

\* The attempt of thread w is over for Hatchet and its run has status s and
\* retry count n; an attempt already written off changes nothing.
AttemptOver(w, s, n) ==
    hatchet' = IF slot[w].orphan THEN hatchet
               ELSE [hatchet EXCEPT ![slot[w].job].status = s, ![slot[w].job].retry = n]

\* _execute returns: the run is complete.
Return(w) ==
    /\ slot[w].pc = "return"
    /\ AttemptOver(w, "done", slot[w].retry)
    /\ slot' = [slot EXCEPT ![w] = IdleSlot]
    /\ UNCHANGED <<resource, job, request, cancel, history>>

\* Mistakes: one retry too many is allowed; the retry count does not advance.
RaiseOnceMore(w) ==
    /\ slot[w].pc = "raise"
    /\ IF slot[w].retry <= JOB_RETRIES
       THEN AttemptOver(w, "pending", slot[w].retry + 1)
       ELSE AttemptOver(w, "done", slot[w].retry)
    /\ slot' = [slot EXCEPT ![w] = IdleSlot]
    /\ UNCHANGED <<resource, job, request, cancel, history>>

RaiseWithoutCount(w) ==
    /\ slot[w].pc = "raise"
    /\ AttemptOver(w, "pending", slot[w].retry)
    /\ slot' = [slot EXCEPT ![w] = IdleSlot]
    /\ UNCHANGED <<resource, job, request, cancel, history>>

\* _execute raises: Hatchet schedules a retry while there is one left.
Raise(w) ==
    /\ slot[w].pc = "raise"
    /\ IF slot[w].retry < JOB_RETRIES
       THEN AttemptOver(w, "pending", slot[w].retry + 1)
       ELSE AttemptOver(w, "done", slot[w].retry)
    /\ slot' = [slot EXCEPT ![w] = IdleSlot]
    /\ UNCHANGED <<resource, job, request, cancel, history>>

\* Hatchet replaces a lost attempt.  The source does not say whether recovery
\* consumes a retry; if it does and none is left, the run ends, and nobody is
\* there to say so in the rows.
RecoveredRetries(w) == {n \in {slot[w].retry, slot[w].retry + 1} : n <= JOB_RETRIES}

Recover(w) ==
    \/ \E n \in RecoveredRetries(w) : AttemptOver(w, "pending", n)
    \/ slot[w].retry = JOB_RETRIES /\ AttemptOver(w, "done", slot[w].retry)

\* The worker process dies, and with it the thread.
WorkerCrash(w) ==
    /\ Busy(w)
    /\ Recover(w)
    /\ Suffer(slot[w].job, "worker_crash")
    /\ slot' = [slot EXCEPT ![w] = IdleSlot]
    /\ UNCHANGED <<resource, job, request, cancel>>

\* Hatchet loses sight of a worker that is alive: the thread goes on.
LostWorker(w) ==
    /\ Busy(w) /\ ~slot[w].orphan
    /\ Recover(w)
    /\ Suffer(slot[w].job, "lost_worker")
    /\ slot' = [slot EXCEPT ![w].orphan = TRUE]
    /\ UNCHANGED <<resource, job, request, cancel>>

\* Mistake: a timeout on the last attempt allows one more.
TimeoutOnceMore(w) ==
    /\ Busy(w) /\ ~slot[w].orphan
    /\ AttemptOver(w, "pending", slot[w].retry + 1)
    /\ Suffer(slot[w].job, "timeout")
    /\ slot' = [slot EXCEPT ![w].orphan = TRUE, ![w].stop = "sent"]
    /\ UNCHANGED <<resource, job, request, cancel>>

\* The attempt exceeds execution_timeout: it counts as failed and its thread,
\* which Python cannot kill, is sent a cancellation.
Timeout(w) ==
    /\ Busy(w) /\ ~slot[w].orphan
    /\ IF slot[w].retry < JOB_RETRIES
       THEN AttemptOver(w, "pending", slot[w].retry + 1)
       ELSE AttemptOver(w, "done", slot[w].retry)
    /\ Suffer(slot[w].job, "timeout")
    /\ slot' = [slot EXCEPT ![w].orphan = TRUE, ![w].stop = "sent"]
    /\ UNCHANGED <<resource, job, request, cancel>>

\* No worker takes the run within schedule_timeout: it is over, and nobody is
\* there to say so in the rows.
ScheduleTimeout(j) ==
    /\ hatchet[j].status = "pending"
    /\ hatchet' = [hatchet EXCEPT ![j].status = "done"]
    /\ Suffer(j, "unscheduled")
    /\ UNCHANGED <<resource, job, slot, request, cancel>>

-----------------------------------------------------------------------------
(* Steps of a run method and of _execute, on thread w *)

\* cancelled() or the job row says cancelled.
SeesCancel(w) == slot[w].stop = "yes" \/ job[slot[w].job].state = "cancelled"

\* _check_cancelled raises CancelledError, whose handler is "cancel_resource".
CheckCancelled(w, here, next) ==
    /\ Goto(w, here, IF SeesCancel(w) THEN "cancel_resource" ELSE next)
    /\ UNCHANGED <<resource, job, hatchet, request, cancel, history>>

\* The second half of _stage.
StageWrite(w, here, next) ==
    /\ Goto(w, here, next)
    /\ SetJob(slot[w].job, "running")
    /\ UNCHANGED <<resource, hatchet, request, cancel, history>>

\* Mistake: the run method returns without its last update.
FinishResourceOnly(w) ==
    /\ Goto(w, "finish_job", "return")
    /\ UNCHANGED <<resource, job, hatchet, request, cancel, history>>

\* The last update of a run method that succeeds.
FinishJob(w) ==
    /\ Goto(w, "finish_job", "return")
    /\ SetJob(slot[w].job, "succeeded")
    /\ UNCHANGED <<resource, hatchet, request, cancel, history>>

\* Program points outside the try body of a run method: in its handlers, and
\* in _execute.
Handling == {"cancel_resource", "cancel_job", "fail_resource", "fail_job"}
Executing == {"triage", "execute_cancel_resource", "execute_cancel_job",
              "requeue_resource", "requeue_job"}
Unwinding == Handling \cup Executing \cup {"return", "raise"}

\* A statement of the try body raises: except Exception.
Error(w) ==
    /\ slot[w].pc \notin Unwinding \cup {"idle"}
    /\ slot' = [slot EXCEPT ![w].pc = "fail_resource"]
    /\ UNCHANGED <<resource, job, hatchet, request, cancel, history>>

\* The two updates that record a cancellation: except CancelledError of the run
\* method, and the first branch of _execute's except clause.
SlotCancelResource(w, here, next) ==
    /\ Goto(w, here, next)
    /\ SetResource(slot[w].job, "cancelled")
    /\ UNCHANGED <<job, hatchet, request, cancel, history>>

SlotCancelJob(w, here) ==
    /\ Goto(w, here, "return")
    /\ SetJob(slot[w].job, "cancelled")
    /\ UNCHANGED <<resource, hatchet, request, cancel, history>>

\* Mistake: the failure is recorded in the resource only.
SlotFailResourceOnly(w) ==
    /\ Goto(w, "fail_resource", "triage")
    /\ SetResource(slot[w].job, "failed")
    /\ UNCHANGED <<job, hatchet, request, cancel, history>>

\* except Exception of the run method, which re-raises into _execute.
SlotFailResource(w) ==
    /\ Goto(w, "fail_resource", "fail_job")
    /\ SetResource(slot[w].job, "failed")
    /\ UNCHANGED <<job, hatchet, request, cancel, history>>

SlotFailJob(w) ==
    /\ Goto(w, "fail_job", "triage")
    /\ SetJob(slot[w].job, "failed")
    /\ UNCHANGED <<resource, hatchet, request, cancel, history>>

\* Mistake: the last attempt is requeued as well.
TriageOnceMore(w) ==
    /\ slot[w].pc = "triage"
    /\ Goto(w, "triage", IF SeesCancel(w) THEN "execute_cancel_resource" ELSE "requeue_resource")
    /\ UNCHANGED <<resource, job, hatchet, request, cancel, history>>

\* Mistake: an attempt that will be retried is left as failed.
TriageNoRequeue(w) ==
    /\ slot[w].pc = "triage"
    /\ Goto(w, "triage", IF SeesCancel(w) THEN "execute_cancel_resource" ELSE "raise")
    /\ UNCHANGED <<resource, job, hatchet, request, cancel, history>>

\* The decision of _execute's except clause: cancelled, retried or given up.
Triage(w) ==
    /\ slot[w].pc = "triage"
    /\ \/ SeesCancel(w) /\ Goto(w, "triage", "execute_cancel_resource")
       \/ ~SeesCancel(w) /\ slot[w].retry < JOB_RETRIES /\ Goto(w, "triage", "requeue_resource")
       \/ ~SeesCancel(w) /\ slot[w].retry >= JOB_RETRIES /\ Goto(w, "triage", "raise")
    /\ UNCHANGED <<resource, job, hatchet, request, cancel, history>>

RequeueResource(w) ==
    /\ Goto(w, "requeue_resource", "requeue_job")
    /\ SetResource(slot[w].job, "queued")
    /\ UNCHANGED <<job, hatchet, request, cancel, history>>

RequeueJob(w) ==
    /\ Goto(w, "requeue_job", "raise")
    /\ SetJob(slot[w].job, "queued")
    /\ UNCHANGED <<resource, hatchet, request, cancel, history>>

\* A store call outside the try body raises: in the run method's handlers the
\* exception reaches _execute, in _execute's own calls it reaches Hatchet (the
\* first of them, the retry count, precedes the run method's first read; an
\* attempt that knows it is cancelled does not query the job row).
StoreError(w) ==
    /\ slot[w].pc \in Handling \cup Executing \cup {"read"}
    /\ slot[w].pc = "triage" => slot[w].stop # "yes"
    /\ Suffer(slot[w].job, "store_error")
    /\ slot' = [slot EXCEPT ![w].pc = IF @ \in Handling THEN "triage" ELSE "raise"]
    /\ UNCHANGED <<resource, job, hatchet, request, cancel>>

-----------------------------------------------------------------------------
(* The steps grouped by the process that takes them *)

HandlerStep(r) ==
    \/ DispatchRequired(r) \/ ResetResource(r) \/ ResetJob(r)
    \/ SubmitAccepted(r) \/ SubmitCollides(r)
    \/ FailResourceOfRequest(r) \/ FailJobOfRequest(r) \/ RecordRun(r)

CancelStep(c) == CancelSignal(c) \/ CancelJob(c) \/ CancelResource(c)

UnwindStep(w) ==
    \/ FinishJob(w) \/ DeliverStop(w)
    \/ SlotCancelResource(w, "cancel_resource", "cancel_job") \/ SlotCancelJob(w, "cancel_job")
    \/ SlotCancelResource(w, "execute_cancel_resource", "execute_cancel_job")
    \/ SlotCancelJob(w, "execute_cancel_job")
    \/ SlotFailResource(w) \/ SlotFailJob(w)
    \/ Triage(w) \/ RequeueResource(w) \/ RequeueJob(w) \/ Return(w) \/ Raise(w)

FaultStep ==
    \/ \E r \in Requests : SubmitFails(r) \/ SubmitAnswerLost(r) \/ ApiCrash(r)
    \/ \E c \in Cancels : CancelCrash(c)
    \/ \E w \in Slots : WorkerCrash(w) \/ LostWorker(w) \/ Timeout(w) \/ StoreError(w)
    \/ \E j \in Jobs : ScheduleTimeout(j)

ControlNext ==
    \/ \E r \in Requests : Create(r) \/ Replay(r) \/ HandlerStep(r)
    \/ \E c \in Cancels : CancelRead(c) \/ CancelStep(c)
    \/ \E w \in Slots, j \in Jobs : StartAttempt(w, j)
    \/ \E w \in Slots : UnwindStep(w) \/ Error(w)
    \/ FaultStep

-----------------------------------------------------------------------------
(* Vocabulary of the properties *)

ResourceStates == {"absent", "queued", "succeeded", "failed", "cancelled"}
JobStates == ResourceStates \cup {"running"}
JobRow == [state : JobStates, run : Nat]
Run == [run : Nat, status : {"none", "pending", "active", "done"}, retry : 0..JOB_RETRIES]
Handler == [pc : {"idle", "dispatch_required", "reset_resource", "reset_job", "submit",
                  "record", "fail_resource", "fail_job", "done"},
            run : Nat]
Canceller == [pc : {"idle", "signal", "cancel_job", "cancel_resource", "done"}, run : Nat]

Terminal == {"succeeded", "failed", "cancelled"}

\* Job j has been through none of these events.
Spared(j, events) == history[j] \cap events = {}

\* No handler and no thread is working on job j, and Hatchet has ended its run.
Settled(j) ==
    /\ hatchet[j].status = "done"
    /\ \A r \in Requests : JobOf[r] = j => request[r].pc \in {"idle", "done"}
    /\ \A c \in Cancels : JobOf[c] = j => cancel[c].pc \in {"idle", "done"}
    /\ \A w \in Slots : slot[w].job # j

=============================================================================
