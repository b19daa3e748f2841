------------------------- MODULE ExperimentRunsProofs -------------------------
(***************************************************************************)
(* Proofs about ExperimentRuns for any number of experiments, threads,     *)
(* requests, retries and faults.                                           *)
(***************************************************************************)
EXTENDS ExperimentRuns, TLAPS

-----------------------------------------------------------------------------
(* Type correctness *)

\* The initial state is well typed.
LEMMA InitTypeOK == Init => TypeOK
BY ControlAssumption
   DEF Init, ControlInit, TypeOK, ControlTypeOK, JobRow, Run, Thread, Handler, Canceller,
       ResourceStates, JobStates, IdleSlot, NoModel, SlotPoints

\* Updating one field keeps the type of each table.
LEMMA PcType ==
    ASSUME slot \in [Slots -> Thread], NEW w \in Slots, NEW p \in SlotPoints
    PROVE  [slot EXCEPT ![w].pc = p] \in [Slots -> Thread]
BY DEF Thread

\* Stopping a thread, or writing its attempt off, keeps its type.
LEMMA OrphanType ==
    ASSUME NEW t \in Thread, NEW s \in {"no", "sent", "yes"}
    PROVE  /\ [t EXCEPT !.stop = s] \in Thread
           /\ [t EXCEPT !.orphan = TRUE] \in Thread
           /\ [t EXCEPT !.orphan = TRUE, !.stop = s] \in Thread
BY DEF Thread

\* Writing the state of a job keeps the type of the table.
LEMMA StateType ==
    ASSUME job \in [Jobs -> JobRow], NEW j, NEW s \in JobStates
    PROVE  [job EXCEPT ![j].state = s] \in [Jobs -> JobRow]
BY DEF JobRow

\* Moving a create handler keeps its type.
LEMMA RequestPcType ==
    ASSUME request \in [Requests -> Handler], NEW r \in Requests,
           NEW p \in {"idle", "dispatch_required", "reset_resource", "reset_job", "submit",
                      "record", "fail_resource", "fail_job", "done"}
    PROVE  /\ [request EXCEPT ![r].pc = p] \in [Requests -> Handler]
           /\ \A n \in Nat : [request EXCEPT ![r] = [pc |-> p, run |-> n]] \in [Requests -> Handler]
BY DEF Handler

\* Moving a cancel handler keeps its type.
LEMMA CancelPcType ==
    ASSUME cancel \in [Cancels -> Canceller], NEW c \in Cancels,
           NEW p \in {"idle", "signal", "cancel_job", "cancel_resource", "done"}
    PROVE  /\ [cancel EXCEPT ![c].pc = p] \in [Cancels -> Canceller]
           /\ \A n \in Nat : [cancel EXCEPT ![c] = [pc |-> p, run |-> n]] \in [Cancels -> Canceller]
BY DEF Canceller

\* Recording a run keeps the type of the job table.
LEMMA RecordType ==
    ASSUME job \in [Jobs -> JobRow], NEW j, NEW n \in Nat
    PROVE  [job EXCEPT ![j].run = n] \in [Jobs -> JobRow]
BY DEF JobRow

\* Changing the status of a run keeps its type.
LEMMA StatusType ==
    ASSUME hatchet \in [Jobs -> Run], NEW j, NEW s \in {"none", "pending", "active", "done"}
    PROVE  [hatchet EXCEPT ![j].status = s] \in [Jobs -> Run]
BY DEF Run

\* A new run has the type of a run.
LEMMA NewRunType ==
    ASSUME hatchet \in [Jobs -> Run], NEW j \in Jobs, NewRun(j)
    PROVE  hatchet' \in [Jobs -> Run]
BY ControlAssumption DEF NewRun, Run

\* The end of an attempt leaves a run.
LEMMA AttemptOverType ==
    ASSUME hatchet \in [Jobs -> Run], NEW w \in Slots, NEW s \in {"pending", "done"},
           NEW n \in 0..JOB_RETRIES, AttemptOver(w, s, n)
    PROVE  hatchet' \in [Jobs -> Run]
BY DEF AttemptOver, Run

\* Recording a fault or a race keeps the type of the record.
LEMMA HistoryType ==
    ASSUME history \in [Jobs -> SUBSET Events], NEW j, NEW e \in Events, Note(j, e) \/ Suffer(j, e)
    PROVE  history' \in [Jobs -> SUBSET Events]
BY DEF Note, Suffer

\* The steps of a create handler, of a cancel handler and of a thread keep the
\* types of the control variables.
LEMMA HandlerType ==
    ASSUME ControlTypeOK, NEW r \in Requests,
           Create(r) \/ Replay(r) \/ HandlerStep(r) \/ SubmitFails(r) \/ SubmitAnswerLost(r)
               \/ ApiCrash(r)
    PROVE  ControlTypeOK'
<1>a. JobOf[r] \in Jobs
  BY ControlAssumption
<1> USE <1>a, RequestPcType, StateType, HistoryType
    DEF ControlTypeOK, ResourceStates, JobStates, SetResource, SetJob, RequestGoto
<1>1. CASE Create(r)
  BY <1>1 DEF Create
<1>2. CASE Replay(r)
  BY <1>2 DEF Replay
<1>3. CASE DispatchRequired(r)
  <2>1. history' \in [Jobs -> SUBSET Events]
    BY <1>3 DEF DispatchRequired, Events
  <2>2. request' \in [Requests -> Handler]
    <3>1. CASE RequestGoto(r, "dispatch_required", "done")
      BY <3>1
    <3>2. CASE RequestGoto(r, "dispatch_required", "reset_resource")
      BY <3>2
    <3> QED
      BY <1>3, <3>1, <3>2 DEF DispatchRequired
  <2> QED
    BY <1>3, <2>1, <2>2 DEF DispatchRequired
<1>4. CASE ResetResource(r)
  BY <1>4 DEF ResetResource
<1>5. CASE ResetJob(r)
  BY <1>5 DEF ResetJob
<1>6. CASE SubmitAccepted(r)
  <2>1. hatchet' \in [Jobs -> Run]
    BY <1>6, NewRunType DEF SubmitAccepted
  <2>2. hatchet'[JobOf[r]].run \in Nat
    BY <2>1 DEF Run
  <2> QED
    BY <1>6, <2>1, <2>2 DEF SubmitAccepted
<1>7. CASE SubmitCollides(r)
  BY <1>7 DEF SubmitCollides
<1>8. CASE SubmitFails(r)
  BY <1>8 DEF SubmitFails, Events, FaultKinds
<1>9. CASE SubmitAnswerLost(r)
  BY <1>9, NewRunType DEF SubmitAnswerLost, Events, FaultKinds
<1>10. CASE FailResourceOfRequest(r)
  BY <1>10 DEF FailResourceOfRequest
<1>11. CASE FailJobOfRequest(r)
  BY <1>11 DEF FailJobOfRequest
<1>12. CASE RecordRun(r)
  <2>1. request[r].run \in Nat
    BY DEF Handler
  <2> QED
    BY <1>12, <2>1, RecordType DEF RecordRun
<1>13. CASE ApiCrash(r)
  BY <1>13 DEF ApiCrash, Events, FaultKinds
<1> QED
  BY <1>1, <1>2, <1>3, <1>4, <1>5, <1>6, <1>7, <1>8, <1>9, <1>10, <1>11, <1>12, <1>13
     DEF HandlerStep

\* The steps of a cancel handler.
LEMMA CancelType ==
    ASSUME ControlTypeOK, NEW c \in Cancels, CancelRead(c) \/ CancelStep(c) \/ CancelCrash(c)
    PROVE  ControlTypeOK'
<1>a. JobOf[c] \in Jobs
  BY ControlAssumption
<1> USE <1>a, CancelPcType, StateType, HistoryType
    DEF ControlTypeOK, ResourceStates, JobStates, SetResource, SetJob, CancelGoto
<1>1. CASE CancelRead(c)
  <2>1. job[JobOf[c]].run \in Nat
    BY DEF JobRow
  <2> QED
    BY <1>1, <2>1 DEF CancelRead, Events
<1>2. CASE CancelSignal(c)
  <2>1. hatchet' \in [Jobs -> Run]
    BY <1>2, StatusType DEF CancelSignal
  <2>2. slot' \in [Slots -> Thread]
    BY <1>2, OrphanType DEF CancelSignal
  <2> QED
    BY <1>2, <2>1, <2>2 DEF CancelSignal
<1>3. CASE CancelJob(c)
  BY <1>3 DEF CancelJob
<1>4. CASE CancelResource(c)
  BY <1>4 DEF CancelResource
<1>5. CASE CancelCrash(c)
  BY <1>5 DEF CancelCrash, Events, FaultKinds
<1> QED
  BY <1>1, <1>2, <1>3, <1>4, <1>5 DEF CancelStep

\* The steps of a thread.
LEMMA ThreadType ==
    ASSUME ControlTypeOK, NEW w \in Slots,
           \/ UnwindStep(w) \/ Error(w) \/ StoreError(w)
           \/ WorkerCrash(w) \/ LostWorker(w) \/ Timeout(w)
           \/ \E j \in Jobs : StartAttempt(w, j)
    PROVE  ControlTypeOK'
<1>a. IdleSlot \in Thread
  BY ControlAssumption DEF IdleSlot, Thread, SlotPoints
<1>b. Unwinding \subseteq SlotPoints
  BY DEF SlotPoints
<1>c. slot[w] \in Thread
  BY DEF ControlTypeOK
<1>d. /\ slot[w].retry \in 0..JOB_RETRIES
      /\ slot[w].retry < JOB_RETRIES => slot[w].retry + 1 \in 0..JOB_RETRIES
      /\ RecoveredRetries(w) \subseteq 0..JOB_RETRIES
  BY <1>c, ControlAssumption DEF Thread, RecoveredRetries
<1> USE <1>b, PcType, StateType, HistoryType
    DEF ControlTypeOK, ResourceStates, JobStates, SetResource, SetJob, Goto,
        Unwinding, Handling, Executing
<1>1. CASE FinishJob(w)
  BY <1>1 DEF FinishJob
<1>2. CASE DeliverStop(w)
  BY <1>2, <1>c, OrphanType DEF DeliverStop
<1>3. CASE SlotCancelResource(w, "cancel_resource", "cancel_job")
  BY <1>3 DEF SlotCancelResource
<1>4. CASE SlotCancelResource(w, "execute_cancel_resource", "execute_cancel_job")
  BY <1>4 DEF SlotCancelResource
<1>5. ASSUME NEW here, SlotCancelJob(w, here)
      PROVE  ControlTypeOK'
  BY <1>5 DEF SlotCancelJob
<1>6. CASE SlotFailResource(w)
  BY <1>6 DEF SlotFailResource
<1>7. CASE SlotFailJob(w)
  BY <1>7 DEF SlotFailJob
<1>8. CASE Triage(w)
  <2>1. slot' \in [Slots -> Thread]
    <3>1. CASE Goto(w, "triage", "execute_cancel_resource")
      BY <3>1
    <3>2. CASE Goto(w, "triage", "requeue_resource")
      BY <3>2
    <3>3. CASE Goto(w, "triage", "raise")
      BY <3>3
    <3> QED
      BY <1>8, <3>1, <3>2, <3>3 DEF Triage
  <2> QED
    BY <1>8, <2>1 DEF Triage
<1>9. CASE RequeueResource(w)
  BY <1>9 DEF RequeueResource
<1>10. CASE RequeueJob(w)
  BY <1>10 DEF RequeueJob
<1>11. CASE Return(w)
  BY <1>11, <1>a, <1>d, AttemptOverType DEF Return
<1>12. CASE Raise(w)
  BY <1>12, <1>a, <1>d, AttemptOverType DEF Raise
<1>13. CASE Error(w)
  BY <1>13 DEF Error
<1>14. CASE StoreError(w)
  BY <1>14 DEF StoreError, Events, FaultKinds
<1>15. CASE WorkerCrash(w)
  BY <1>15, <1>a, <1>d, AttemptOverType DEF WorkerCrash, Recover, Events, FaultKinds
<1>16. CASE LostWorker(w)
  BY <1>16, <1>c, <1>d, AttemptOverType, OrphanType DEF LostWorker, Recover, Events, FaultKinds
<1>17. CASE Timeout(w)
  BY <1>17, <1>c, <1>d, AttemptOverType, OrphanType DEF Timeout, Events, FaultKinds
<1>18. CASE \E j \in Jobs : StartAttempt(w, j)
  <2> PICK j \in Jobs : StartAttempt(w, j)
    BY <1>18
  <2>1. hatchet' \in [Jobs -> Run] /\ hatchet[j] \in Run
    BY StatusType DEF StartAttempt
  <2>2. slot' \in [Slots -> Thread]
    BY <1>a, <2>1 DEF StartAttempt, IdleSlot, Thread, Run, SlotPoints, Early
  <2> QED
    BY <2>1, <2>2 DEF StartAttempt, Events
<1> QED
  BY <1>1, <1>2, <1>3, <1>4, <1>5, <1>6, <1>7, <1>8, <1>9, <1>10, <1>11, <1>12, <1>13,
     <1>14, <1>15, <1>16, <1>17, <1>18 DEF UnwindStep

\* A control step keeps all types.
LEMMA ControlType ==
    ASSUME TypeOK, ControlNext, LocalsEnd
    PROVE  TypeOK'
<1>1. ControlTypeOK
  BY DEF TypeOK
<1>2. ASSUME NEW r \in Requests,
             Create(r) \/ Replay(r) \/ HandlerStep(r) \/ SubmitFails(r) \/ SubmitAnswerLost(r)
                 \/ ApiCrash(r)
      PROVE  ControlTypeOK'
  BY <1>1, <1>2, HandlerType
<1>3. ASSUME NEW c \in Cancels, CancelRead(c) \/ CancelStep(c) \/ CancelCrash(c)
      PROVE  ControlTypeOK'
  BY <1>1, <1>3, CancelType
<1>4. ASSUME NEW w \in Slots,
             \/ UnwindStep(w) \/ Error(w) \/ StoreError(w)
             \/ WorkerCrash(w) \/ LostWorker(w) \/ Timeout(w)
             \/ \E j \in Jobs : StartAttempt(w, j)
      PROVE  ControlTypeOK'
  BY <1>1, <1>4, ThreadType
<1>5. ASSUME NEW j \in Jobs, ScheduleTimeout(j)
      PROVE  ControlTypeOK'
  BY <1>1, <1>5, StatusType, HistoryType
     DEF ScheduleTimeout, ControlTypeOK, Events, FaultKinds
<1>7. ControlTypeOK'
  BY <1>2, <1>3, <1>4, <1>5 DEF ControlNext, FaultStep
<1> QED
  BY <1>7 DEF TypeOK, LocalsEnd, dataVars

-----------------------------------------------------------------------------
(* How the steps move the threads *)

\* A thread works on a job exactly while it is busy.
BusyInv == \A w \in Slots : slot[w].job = None <=> slot[w].pc = "idle"

\* What a control step may do to a thread: leave it where it is, free it, send
\* it into the error and cancellation paths ...
Stays(w) == slot'[w].pc = slot[w].pc /\ slot'[w].job = slot[w].job
Freed(w) == slot'[w] = IdleSlot
Unwinds(w) == slot[w].pc # "idle" /\ slot'[w].pc \in Unwinding /\ slot'[w].job = slot[w].job

\* ... or start an attempt, which is recorded when it overlaps with another one.
Starts(w) ==
    /\ slot[w].pc = "idle" /\ slot'[w].pc = "read"
    /\ slot'[w].job \in Jobs
    /\ \A v \in Slots : slot[v].job = slot'[w].job => "overlap" \in history'[slot'[w].job]
    /\ \A v \in Slots \ {w} : slot'[v] = slot[v]

ControlMoves ==
    /\ \/ \A w \in Slots : Stays(w) \/ Freed(w) \/ Unwinds(w)
       \/ \E w \in Slots : Starts(w)
    /\ \A j \in Jobs : history[j] \subseteq history'[j]
    /\ \A j \in Jobs : resource'[j] = "succeeded" => resource[j] = "succeeded"
    /\ \A j \in Jobs : job'[j].state = "succeeded" =>
          \/ job[j].state = "succeeded"
          \/ \E w \in Slots : slot[w].pc = "finish_job" /\ slot[w].job = j

\* A create handler leaves the threads alone and reports no success.
LEMMA HandlerMoves ==
    ASSUME ControlTypeOK, NEW r \in Requests,
           Create(r) \/ Replay(r) \/ HandlerStep(r) \/ SubmitFails(r) \/ SubmitAnswerLost(r)
               \/ ApiCrash(r)
    PROVE  ControlMoves
<1>1. slot' = slot
  BY DEF HandlerStep, Create, Replay, DispatchRequired, ResetResource, ResetJob, SubmitAccepted,
         SubmitCollides, SubmitFails, SubmitAnswerLost, FailResourceOfRequest, FailJobOfRequest,
         RecordRun, ApiCrash
<1>2. history' = history \/ \E e : Note(JobOf[r], e)
  BY DEF HandlerStep, Create, Replay, DispatchRequired, ResetResource, ResetJob, SubmitAccepted,
         SubmitCollides, SubmitFails, SubmitAnswerLost, FailResourceOfRequest, FailJobOfRequest,
         RecordRun, ApiCrash, Suffer
<1>3. resource' = resource \/ \E s \in {"queued", "failed"} : SetResource(JobOf[r], s)
  BY DEF HandlerStep, Create, Replay, DispatchRequired, ResetResource, ResetJob, SubmitAccepted,
         SubmitCollides, SubmitFails, SubmitAnswerLost, FailResourceOfRequest, FailJobOfRequest,
         RecordRun, ApiCrash
<1>4. \/ job' = job
      \/ \E s \in {"queued", "failed"} : SetJob(JobOf[r], s)
      \/ job' = [job EXCEPT ![JobOf[r]].run = request[r].run]
  BY DEF HandlerStep, Create, Replay, DispatchRequired, ResetResource, ResetJob, SubmitAccepted,
         SubmitCollides, SubmitFails, SubmitAnswerLost, FailResourceOfRequest, FailJobOfRequest,
         RecordRun, ApiCrash
<1>5. \A j \in Jobs : history[j] \subseteq history'[j]
  BY <1>2 DEF Note, ControlTypeOK
<1>6. \A j \in Jobs : resource'[j] = "succeeded" => resource[j] = "succeeded"
  BY <1>3 DEF SetResource, ControlTypeOK
<1>7. \A j \in Jobs : job'[j].state = "succeeded" => job[j].state = "succeeded"
  <2>1. CASE \E s \in {"queued", "failed"} : SetJob(JobOf[r], s)
    BY <2>1 DEF SetJob, ControlTypeOK, JobRow
  <2>2. ASSUME job' = [job EXCEPT ![JobOf[r]].run = request[r].run], NEW j \in Jobs
        PROVE  job'[j].state = job[j].state
    BY <2>2 DEF ControlTypeOK, JobRow
  <2> QED
    BY <1>4, <2>1, <2>2
<1> QED
  BY <1>1, <1>5, <1>6, <1>7 DEF ControlMoves, Stays

\* A cancel handler stops threads but does not move them.
LEMMA CancelMoves ==
    ASSUME ControlTypeOK, NEW c \in Cancels, CancelRead(c) \/ CancelStep(c) \/ CancelCrash(c)
    PROVE  ControlMoves
<1>1. \A w \in Slots : Stays(w)
  <2>1. CASE CancelSignal(c)
    <3>1. ASSUME NEW w \in Slots
          PROVE  slot'[w] = slot[w] \/ slot'[w] = [slot[w] EXCEPT !.orphan = TRUE, !.stop = "sent"]
      BY <2>1 DEF CancelSignal
    <3>2. ASSUME NEW w \in Slots
          PROVE  slot[w] \in Thread
      BY DEF ControlTypeOK
    <3> QED
      BY <3>1, <3>2 DEF Stays, Thread
  <2>2. CASE slot' = slot
    BY <2>2 DEF Stays
  <2> QED
    BY <2>1, <2>2 DEF CancelStep, CancelRead, CancelJob, CancelResource, CancelCrash
<1>2. history' = history \/ \E e : Note(JobOf[c], e)
  BY DEF CancelStep, CancelRead, CancelSignal, CancelJob, CancelResource, CancelCrash, Suffer
<1>3. resource' = resource \/ SetResource(JobOf[c], "cancelled")
  BY DEF CancelStep, CancelRead, CancelSignal, CancelJob, CancelResource, CancelCrash
<1>4. job' = job \/ SetJob(JobOf[c], "cancelled")
  BY DEF CancelStep, CancelRead, CancelSignal, CancelJob, CancelResource, CancelCrash
<1>5. \A j \in Jobs : history[j] \subseteq history'[j]
  BY <1>2 DEF Note, ControlTypeOK
<1>6. \A j \in Jobs : resource'[j] = "succeeded" => resource[j] = "succeeded"
  BY <1>3 DEF SetResource, ControlTypeOK
<1>7. \A j \in Jobs : job'[j].state = "succeeded" => job[j].state = "succeeded"
  BY <1>4 DEF SetJob, ControlTypeOK, JobRow
<1> QED
  BY <1>1, <1>5, <1>6, <1>7 DEF ControlMoves

\* A thread that unwinds or suffers a fault disturbs no other.
LEMMA ThreadMoves ==
    ASSUME ControlTypeOK, NEW w \in Slots,
           UnwindStep(w) \/ Error(w) \/ StoreError(w) \/ WorkerCrash(w) \/ LostWorker(w)
               \/ Timeout(w)
    PROVE  ControlMoves
<1>1. \A v \in Slots \ {w} : slot'[v] = slot[v]
  BY DEF UnwindStep, FinishJob, DeliverStop, SlotCancelResource, SlotCancelJob, SlotFailResource,
         SlotFailJob, Triage, RequeueResource, RequeueJob, Return, Raise, Error, StoreError,
         WorkerCrash, LostWorker, Timeout, Goto, ControlTypeOK
<1>2. Stays(w) \/ Freed(w) \/ Unwinds(w)
  <2>1. ASSUME NEW here \in Unwinding \cup {"finish_job"}, NEW next \in Unwinding,
               Goto(w, here, next)
        PROVE  Unwinds(w)
    BY <2>1 DEF Goto, Unwinds, Unwinding, Handling, Executing, ControlTypeOK, Thread
  <2> USE DEF Unwinding, Handling, Executing
  <2>2. CASE FinishJob(w)
    BY <2>1, <2>2 DEF FinishJob
  <2>3. CASE SlotFailResource(w) \/ SlotFailJob(w)
    BY <2>1, <2>3 DEF SlotFailResource, SlotFailJob
  <2>4. CASE RequeueResource(w) \/ RequeueJob(w)
    BY <2>1, <2>4 DEF RequeueResource, RequeueJob
  <2>5. CASE Triage(w)
    BY <2>1, <2>5 DEF Triage
  <2>6. CASE \/ SlotCancelResource(w, "cancel_resource", "cancel_job")
             \/ SlotCancelResource(w, "execute_cancel_resource", "execute_cancel_job")
             \/ SlotCancelJob(w, "cancel_job") \/ SlotCancelJob(w, "execute_cancel_job")
    BY <2>1, <2>6 DEF SlotCancelResource, SlotCancelJob
  <2>7. CASE Return(w) \/ Raise(w) \/ WorkerCrash(w)
    BY <2>7 DEF Return, Raise, WorkerCrash, Freed, ControlTypeOK
  <2>8. CASE DeliverStop(w) \/ LostWorker(w) \/ Timeout(w)
    BY <2>8 DEF DeliverStop, LostWorker, Timeout, Stays, ControlTypeOK, Thread
  <2>9. CASE Error(w) \/ StoreError(w)
    BY <2>9 DEF Error, StoreError, Unwinds, ControlTypeOK, Thread
  <2> QED
    BY <2>2, <2>3, <2>4, <2>5, <2>6, <2>7, <2>8, <2>9 DEF UnwindStep
<1>3. history' = history \/ \E e : Note(slot[w].job, e)
  BY DEF UnwindStep, FinishJob, DeliverStop, SlotCancelResource, SlotCancelJob, SlotFailResource,
         SlotFailJob, Triage, RequeueResource, RequeueJob, Return, Raise, Error, StoreError,
         WorkerCrash, LostWorker, Timeout, Suffer
<1>4. resource' = resource
      \/ \E s \in {"queued", "failed", "cancelled"} : SetResource(slot[w].job, s)
  BY DEF UnwindStep, FinishJob, DeliverStop, SlotCancelResource, SlotCancelJob, SlotFailResource,
         SlotFailJob, Triage, RequeueResource, RequeueJob, Return, Raise, Error, StoreError,
         WorkerCrash, LostWorker, Timeout
<1>5. \/ job' = job
      \/ \E s \in {"queued", "failed", "cancelled"} : SetJob(slot[w].job, s)
      \/ slot[w].pc = "finish_job" /\ SetJob(slot[w].job, "succeeded")
  BY DEF UnwindStep, FinishJob, DeliverStop, SlotCancelResource, SlotCancelJob, SlotFailResource,
         SlotFailJob, Triage, RequeueResource, RequeueJob, Return, Raise, Error, StoreError,
         WorkerCrash, LostWorker, Timeout, Goto
<1>6. \A v \in Slots : Stays(v) \/ Freed(v) \/ Unwinds(v)
  BY <1>1, <1>2 DEF Stays
<1>7. \A j \in Jobs : history[j] \subseteq history'[j]
  BY <1>3 DEF Note, ControlTypeOK
<1>8. \A j \in Jobs : resource'[j] = "succeeded" => resource[j] = "succeeded"
  BY <1>4 DEF SetResource, ControlTypeOK
<1>9. \A j \in Jobs : job'[j].state = "succeeded" =>
          job[j].state = "succeeded" \/ (slot[w].pc = "finish_job" /\ slot[w].job = j)
  BY <1>5 DEF SetJob, ControlTypeOK, JobRow
<1> QED
  BY <1>6, <1>7, <1>8, <1>9 DEF ControlMoves

\* An attempt that starts beside another is recorded as an overlap.
LEMMA StartMoves ==
    ASSUME ControlTypeOK, NEW w \in Slots, NEW j \in Jobs, StartAttempt(w, j)
    PROVE  ControlMoves
<1>1. slot[w].pc = "idle" /\ slot'[w].pc = "read" /\ slot'[w].job = j
  BY DEF StartAttempt, Busy, IdleSlot, ControlTypeOK
<1>2. \A v \in Slots \ {w} : slot'[v] = slot[v]
  BY DEF StartAttempt, ControlTypeOK
<1>3. (\E v \in Slots : slot[v].job = j) => "overlap" \in history'[j]
  BY DEF StartAttempt, Note, ControlTypeOK
<1>4. Starts(w)
  BY <1>1, <1>2, <1>3 DEF Starts
<1>5. \A i \in Jobs : history[i] \subseteq history'[i]
  BY DEF StartAttempt, Note, ControlTypeOK
<1> QED
  BY <1>4, <1>5 DEF ControlMoves, StartAttempt

\* The four together.
LEMMA ControlNextMoves ==
    ASSUME ControlTypeOK, ControlNext
    PROVE  ControlMoves
<1>1. ASSUME NEW r \in Requests,
             Create(r) \/ Replay(r) \/ HandlerStep(r) \/ SubmitFails(r) \/ SubmitAnswerLost(r)
                 \/ ApiCrash(r)
      PROVE  ControlMoves
  BY <1>1, HandlerMoves
<1>2. ASSUME NEW c \in Cancels, CancelRead(c) \/ CancelStep(c) \/ CancelCrash(c)
      PROVE  ControlMoves
  BY <1>2, CancelMoves
<1>3. ASSUME NEW w \in Slots,
             UnwindStep(w) \/ Error(w) \/ StoreError(w) \/ WorkerCrash(w) \/ LostWorker(w)
                 \/ Timeout(w)
      PROVE  ControlMoves
  BY <1>3, ThreadMoves
<1>4. ASSUME NEW w \in Slots, NEW j \in Jobs, StartAttempt(w, j)
      PROVE  ControlMoves
  BY <1>4, StartMoves
<1>5. ASSUME NEW j \in Jobs, ScheduleTimeout(j)
      PROVE  ControlMoves
  BY <1>5 DEF ScheduleTimeout, Suffer, Note, ControlMoves, Stays, ControlTypeOK
<1> QED
  BY <1>1, <1>2, <1>3, <1>4, <1>5 DEF ControlNext, FaultStep

\* What a step of the run method does to the threads.
BodyMoves(w) ==
    /\ slot[w].pc \in Early \cup Late
    /\ slot'[w].pc \in Early \cup Late \cup Unwinding
    /\ slot'[w].job = slot[w].job
    /\ \A v \in Slots \ {w} : slot'[v] = slot[v]

\* A step of the run method keeps the thread on its job.
LEMMA BodyStepMoves ==
    ASSUME ControlTypeOK, NEW w \in Slots, BodyStep(w)
    PROVE  BodyMoves(w)
<1>1. ASSUME NEW here \in Early \cup Late, NEW next \in Early \cup Late \cup Unwinding,
             Goto(w, here, next)
      PROVE  BodyMoves(w)
  BY <1>1 DEF Goto, BodyMoves, ControlTypeOK, Thread
<1> USE DEF Early, Late, Unwinding, Handling
<1>2. CASE Begin(w) \/ Lookup(w) \/ CreateModel(w)
  BY <1>1, <1>2 DEF Begin, Lookup, CreateModel
<1>3. CASE Reserve(w) \/ Train(w) \/ FinishResource(w)
  BY <1>1, <1>3 DEF Reserve, Train, FinishResource
<1>4. CASE Stage(w)
  BY <1>1, <1>4 DEF Stage, CheckCancelled, StageWrite
<1> QED
  BY <1>2, <1>3, <1>4 DEF BodyStep

\* BusyInv is inductive, given the types.
LEMMA NextBusyInv == TypeOK /\ BusyInv /\ [Next]_vars => BusyInv'
<1> SUFFICES ASSUME TypeOK, BusyInv, [Next]_vars PROVE BusyInv'
  OBVIOUS
<1> USE DEF BusyInv
<1>1. CASE UNCHANGED vars
  BY <1>1 DEF vars, controlVars
<1>2. CASE ControlNext
  BY <1>2, ControlNextMoves, ControlAssumption
     DEF TypeOK, ControlMoves, Stays, Freed, Unwinds, Starts, IdleSlot, Unwinding, Handling,
         Executing
<1>3. ASSUME NEW w \in Slots, BodyStep(w)
      PROVE  BusyInv'
  BY <1>3, BodyStepMoves DEF TypeOK, BodyMoves, Early, Late, Unwinding, Handling, Executing
<1> QED
  BY <1>1, <1>2, <1>3 DEF Next

-----------------------------------------------------------------------------
(* The type invariant is inductive together with BusyInv *)

\* A program counter moves from here to next, and nothing else of the threads.
Moved(w, here, next) ==
    /\ slot[w].pc = here /\ slot'[w].pc = next /\ slot'[w].job = slot[w].job
    /\ \A v \in Slots \ {w} : slot'[v] = slot[v]

\* Goto moves one program counter.
LEMMA GotoMoves ==
    ASSUME ControlTypeOK, NEW w \in Slots, NEW here, NEW next \in SlotPoints, Goto(w, here, next)
    PROVE  Moved(w, here, next) /\ slot' \in [Slots -> Thread]
BY PcType DEF Goto, Moved, ControlTypeOK, Thread

\* A step of the run method keeps all types: a busy thread has a job.
LEMMA BodyType ==
    ASSUME TypeOK, BusyInv, NEW w \in Slots, BodyStep(w)
    PROVE  TypeOK'
<1>1. slot[w].job \in Jobs
  BY BodyStepMoves DEF BodyMoves, BusyInv, TypeOK, ControlTypeOK, Thread, Early, Late
<1>2. slot' \in [Slots -> Thread]
  <2> USE DEF TypeOK, SlotPoints, Early, Late, Unwinding, Handling
  <2>1. CASE Begin(w) \/ Lookup(w) \/ CreateModel(w)
    BY <2>1, GotoMoves DEF Begin, Lookup, CreateModel
  <2>2. CASE Reserve(w) \/ Train(w) \/ FinishResource(w)
    BY <2>2, GotoMoves DEF Reserve, Train, FinishResource
  <2>3. CASE Stage(w)
    BY <2>3, GotoMoves DEF Stage, CheckCancelled, StageWrite
  <2> QED
    BY <2>1, <2>2, <2>3 DEF BodyStep
<1> USE <1>1, <1>2
    DEF TypeOK, ControlTypeOK, ResourceStates, JobStates, UnchangedControl, dataVars, localVars
<1>3. CASE Begin(w)
  BY <1>3 DEF Begin
<1>4. CASE Stage(w)
  <2>1. job' = job \/ SetJob(slot[w].job, "running")
    BY <1>4 DEF Stage, CheckCancelled, StageWrite
  <2>2. [job EXCEPT ![slot[w].job].state = "running"] \in [Jobs -> JobRow]
    BY StateType
  <2>3. job' \in [Jobs -> JobRow]
    BY <2>1, <2>2 DEF SetJob
  <2> QED
    BY <1>4, <2>3 DEF Stage, CheckCancelled, StageWrite
<1>5. CASE Reserve(w)
  <2>1. modelId' \in [Jobs -> ModelIds \cup {None}] /\ known' \in [Slots -> ModelIds \cup {None}]
    <3>1. CASE UNCHANGED <<modelId, known>>
      BY <3>1
    <3>2. ASSUME NEW m \in ModelIds,
                 modelId' = [modelId EXCEPT ![slot[w].job] = m], known' = [known EXCEPT ![w] = m]
          PROVE  /\ modelId' \in [Jobs -> ModelIds \cup {None}]
                 /\ known' \in [Slots -> ModelIds \cup {None}]
      BY <3>2
    <3> QED
      BY <1>5, <3>1, <3>2 DEF Reserve
  <2> QED
    BY <1>5, <2>1 DEF Reserve
<1>6. CASE Train(w)
  <2>1. object' \in [ModelIds -> Bytes \cup {None}] /\ made' \in [Slots -> Bytes \cup {None}]
    BY <1>6 DEF Train
  <2> QED
    BY <1>6, <2>1 DEF Train
<1>7. CASE Lookup(w)
  BY <1>7 DEF Lookup
<1>8. CASE CreateModel(w)
  <2>1. models' \in [ModelIds -> [experiment : Jobs \cup {None}, bytes : Bytes \cup {None}]]
    BY <1>8 DEF CreateModel
  <2> QED
    BY <1>8, <2>1 DEF CreateModel
<1>9. CASE FinishResource(w)
  BY <1>9 DEF FinishResource, SetResource
<1> QED
  BY <1>3, <1>4, <1>5, <1>6, <1>7, <1>8, <1>9 DEF BodyStep

\* The type invariant and BusyInv are preserved together.
LEMMA NextTypeOK == TypeOK /\ BusyInv /\ [Next]_vars => TypeOK' /\ BusyInv'
<1> SUFFICES ASSUME TypeOK, BusyInv, [Next]_vars PROVE TypeOK'
  BY NextBusyInv
<1>1. CASE UNCHANGED vars
  BY <1>1 DEF vars, controlVars, dataVars, localVars, TypeOK, ControlTypeOK
<1>2. CASE Next
  BY <1>2, ControlType, BodyType DEF Next
<1> QED
  BY <1>1, <1>2

\* No thread is busy at first.
LEMMA InitBusyInv == Init => BusyInv
BY DEF Init, ControlInit, IdleSlot, BusyInv

\* Every reachable state is well typed, and a thread is busy exactly while it
\* has a job.
LEMMA TypedAndBusy == Spec => [](TypeOK /\ BusyInv)
BY InitTypeOK, InitBusyInv, NextTypeOK, PTL DEF Spec

\* Type correctness: the rows, the runs, the threads and the handlers stay in
\* the sets their definitions give.
THEOREM TypeCorrectness == Spec => []TypeOK
BY TypedAndBusy, PTL

-----------------------------------------------------------------------------
(* The inductive invariant of the safety properties *)

\* Program points at which an attempt has a reserved id; those between the
\* bundle's storage and the model row; those at which the row exists.
Trained == {"check_packaging", "write_packaging", "lookup", "create"}
Finishing == {"finish_resource", "finish_job"}
Reserved == {"train"} \cup Trained \cup Finishing

Solo(j) == Spared(j, {"overlap"})

\* An attempt starts without locals.
LocalsInv == \A w \in Slots : slot[w].pc \in {"idle", "read"} => known[w] = None

\* Without a recorded overlap one thread at most works on a job.
SoloInv ==
    \A j \in Jobs : Solo(j) =>
        \A v, w \in Slots : slot[v].job = j /\ slot[w].job = j => v = w

\* Without an overlap an attempt's local model id is the one of the row.
KnownInv ==
    \A w \in Slots :
        /\ slot[w].pc \in Reserved => known[w] \in ModelIds
        /\ slot[w].pc \in (Early \cup Late) \ {"read"} /\ Solo(slot[w].job) =>
              known[w] = modelId[slot[w].job]

\* A model id is tied to one experiment at most, whatever overlaps.
PrivateInv == \A m \in ModelIds : \A i, j \in Jobs : Owns(m, i) /\ Owns(m, j) => i = j

\* A model row names an experiment, and has a bundle in the store.
RowsInv == \A m \in ModelIds : Exists(m) => models[m].experiment \in Jobs /\ object[m] # None

\* A bundle that was put stays; without an overlap it is the one last made.
StoredInv ==
    \A w \in Slots : slot[w].pc \in Trained =>
        /\ object[known[w]] # None
        /\ Solo(slot[w].job) => object[known[w]] = made[w]

\* An attempt that reports success does so for a model of its experiment.
FinishInv ==
    \A w \in Slots : slot[w].pc \in Finishing => models[known[w]].experiment = slot[w].job

DataInv == LocalsInv /\ SoloInv /\ KnownInv /\ PrivateInv /\ RowsInv /\ StoredInv /\ FinishInv

\* Nothing is reserved, stored or finished at first.
LEMMA InitDataInv == Init => DataInv
<1> SUFFICES ASSUME Init PROVE DataInv
  OBVIOUS
<1> USE ControlAssumption, ExperimentAssumption DEF Init, ControlInit, IdleSlot, NoModel
<1>1. \A m \in ModelIds, j \in Jobs : ~Owns(m, j)
  BY DEF Owns
<1>2. LocalsInv /\ SoloInv
  BY DEF LocalsInv, SoloInv
<1>3. KnownInv /\ StoredInv /\ FinishInv
  BY DEF KnownInv, StoredInv, FinishInv, Reserved, Trained, Finishing, Early, Late
<1>4. PrivateInv /\ RowsInv
  BY <1>1 DEF PrivateInv, RowsInv, Exists
<1> QED
  BY <1>2, <1>3, <1>4 DEF DataInv

\* How a control step treats a thread and its locals: it leaves them alone,
\* frees the thread, sends it into the error paths or starts an attempt.
Undisturbed(w) ==
    slot'[w].pc = slot[w].pc /\ slot'[w].job = slot[w].job /\ known'[w] = known[w]
        /\ (slot[w].pc # "idle" => made'[w] = made[w])
Ended(w) == slot'[w].pc = "idle" /\ slot'[w].job = None /\ known'[w] = None
Failing(w) == slot'[w].pc \in Unwinding /\ slot'[w].job = slot[w].job /\ known'[w] = known[w]
Entered(w) == slot'[w].pc = "read" /\ slot'[w].job \in Jobs /\ known'[w] = None

\* Control steps touch no data, and no thread in another way than these.
LEMMA ControlFrame ==
    ASSUME TypeOK, BusyInv, LocalsInv, ControlNext, LocalsEnd
    PROVE  /\ \A w \in Slots : Undisturbed(w) \/ Ended(w) \/ Failing(w) \/ Entered(w)
           /\ UNCHANGED dataVars
           /\ \A j \in Jobs : Solo(j)' => Solo(j)
<1>1. ControlMoves
  BY ControlNextMoves DEF TypeOK
<1>2. ASSUME NEW w \in Slots
      PROVE  /\ known'[w] = IF slot'[w].pc = "idle" THEN None ELSE known[w]
             /\ made'[w] = IF slot'[w].pc = "idle" THEN None ELSE made[w]
             /\ slot[w].pc = "idle" => known[w] = None
  BY DEF LocalsEnd, LocalsInv
<1>3. ASSUME NEW w \in Slots, Stays(w) PROVE Undisturbed(w)
  BY <1>2, <1>3 DEF Stays, Undisturbed
<1>4. ASSUME NEW w \in Slots, Freed(w) PROVE Ended(w)
  BY <1>2, <1>4 DEF Freed, Ended, IdleSlot
<1>5. ASSUME NEW w \in Slots, Unwinds(w) PROVE Failing(w)
  BY <1>2, <1>5 DEF Unwinds, Failing, Unwinding, Handling, Executing
<1>6. ASSUME NEW w \in Slots, Starts(w)
      PROVE  Entered(w) /\ \A v \in Slots \ {w} : Undisturbed(v)
  BY <1>2, <1>3, <1>6 DEF Starts, Entered, Stays
<1>7. \A w \in Slots : Undisturbed(w) \/ Ended(w) \/ Failing(w) \/ Entered(w)
  BY <1>1, <1>3, <1>4, <1>5, <1>6 DEF ControlMoves
<1>8. \A j \in Jobs : Solo(j)' => Solo(j)
  BY <1>1 DEF ControlMoves, Solo, Spared
<1> QED
  BY <1>7, <1>8 DEF LocalsEnd

\* A control step preserves every part of the invariant.
LEMMA ControlDataInv ==
    ASSUME TypeOK, BusyInv, DataInv, ControlNext, LocalsEnd
    PROVE  DataInv'
<1> USE ControlFrame DEF DataInv, Undisturbed, Ended, Failing, Entered, dataVars
<1>a. Unwinding \cap (Early \cup Late \cup {"idle"}) = {} /\ "read" \notin Reserved
  BY DEF Unwinding, Handling, Executing, Early, Late, Reserved, Trained, Finishing
<1>b. Reserved \subseteq (Early \cup Late) \ {"read"} /\ Trained \subseteq Reserved
      /\ Finishing \subseteq Reserved /\ "idle" \notin Early \cup Late
  BY DEF Reserved, Trained, Finishing, Early, Late
<1>c. \A w \in Slots : slot'[w].pc \in (Early \cup Late) \ {"read"} => Undisturbed(w)
  BY <1>a, <1>b
<1>d. \A w \in Slots : slot[w].pc \in (Early \cup Late) \ {"read"} => slot[w].job \in Jobs
  BY DEF TypeOK, BusyInv, ControlTypeOK, Thread, Early, Late
<1>1. LocalsInv'
  BY <1>a DEF LocalsInv, Early
<1>2. SoloInv'
  <2> SUFFICES ASSUME NEW j \in Jobs, Solo(j)', NEW v \in Slots, NEW w \in Slots,
                      slot'[v].job = j, slot'[w].job = j
               PROVE  v = w
    BY DEF SoloInv
  <2>1. CASE \A u \in Slots : Stays(u) \/ Freed(u) \/ Unwinds(u)
    BY <2>1, ControlAssumption DEF SoloInv, Stays, Freed, Unwinds, IdleSlot
  <2>2. ASSUME NEW u \in Slots, Starts(u)
        PROVE  v = w
    BY <2>2 DEF SoloInv, Starts, Solo, Spared
  <2> QED
    BY <2>1, <2>2, ControlNextMoves DEF ControlMoves, TypeOK
<1>3. KnownInv'
  BY <1>b, <1>c, <1>d DEF KnownInv
<1>4. PrivateInv'
  <2>1. ASSUME NEW m \in ModelIds, NEW j \in Jobs, Owns(m, j)'
        PROVE  Owns(m, j)
    BY <2>1, ExperimentAssumption, ControlAssumption DEF Owns
  <2> QED
    BY <2>1 DEF PrivateInv
<1>5. RowsInv'
  BY DEF RowsInv, Exists
<1>6. StoredInv'
  BY <1>b, <1>c, <1>d DEF StoredInv
<1>7. FinishInv'
  BY <1>b, <1>c DEF FinishInv
<1> QED
  BY <1>1, <1>2, <1>3, <1>4, <1>5, <1>6, <1>7

\* The facts about a step of the run method that its parts share.
LEMMA BodyFrame ==
    ASSUME TypeOK, BusyInv, NEW w \in Slots, BodyStep(w)
    PROVE  /\ slot[w].job \in Jobs /\ slot'[w].job = slot[w].job
           /\ \A v \in Slots \ {w} :
                /\ slot'[v] = slot[v]
                /\ known'[v] = known[v]
                /\ made'[v] = made[v]
           /\ history' = history
           /\ Begin(w) => Moved(w, "read", "return") \/ Moved(w, "read", "check_validating")
           /\ Stage(w) =>
                /\ slot[w].pc \in (Early \cup Late) \ ({"read"} \cup Finishing)
                /\ slot'[w].pc \in ((Early \cup Late) \ {"read"}) \cup Unwinding
                /\ slot'[w].pc \in Reserved => slot'[w].pc \in Trained /\ slot[w].pc \in Trained
                /\ UNCHANGED <<dataVars, localVars>>
           /\ Reserve(w) => Moved(w, "reserve", "train")
           /\ Train(w) => Moved(w, "train", "check_packaging")
           /\ Lookup(w) =>
                Moved(w, "lookup", IF Exists(known[w]) THEN "finish_resource" ELSE "create")
           /\ CreateModel(w) =>
                Moved(w, "create", IF Exists(known[w]) THEN "fail_resource" ELSE "finish_resource")
           /\ FinishResource(w) => Moved(w, "finish_resource", "finish_job")
<1>1. BodyMoves(w)
  BY BodyStepMoves DEF TypeOK
<1>2. slot[w].job \in Jobs
  BY <1>1 DEF BodyMoves, BusyInv, TypeOK, ControlTypeOK, Thread, Early, Late
<1>3. history' = history
  BY DEF BodyStep, Begin, Stage, CheckCancelled, StageWrite, Reserve, Train, Lookup, CreateModel,
         FinishResource, UnchangedControl
<1>4. \A v \in Slots \ {w} : known'[v] = known[v] /\ made'[v] = made[v]
  BY DEF BodyStep, Begin, Stage, Reserve, Train, Lookup, CreateModel, FinishResource,
         dataVars, localVars, TypeOK
<1>5. ASSUME NEW here, NEW next \in SlotPoints, Goto(w, here, next)
      PROVE  Moved(w, here, next)
  BY <1>5, GotoMoves DEF TypeOK
<1> USE <1>5 DEF SlotPoints, Early, Late, Unwinding, Handling
<1>6. Begin(w) => Moved(w, "read", "return") \/ Moved(w, "read", "check_validating")
  BY DEF Begin
<1>9. Stage(w) =>
        /\ slot[w].pc \in (Early \cup Late) \ ({"read"} \cup Finishing)
        /\ slot'[w].pc \in ((Early \cup Late) \ {"read"}) \cup Unwinding
        /\ slot'[w].pc \in Reserved => slot'[w].pc \in Trained /\ slot[w].pc \in Trained
        /\ UNCHANGED <<dataVars, localVars>>
  <2>1. ASSUME NEW here, NEW next \in SlotPoints, CheckCancelled(w, here, next)
        PROVE  Moved(w, here, "cancel_resource") \/ Moved(w, here, next)
    BY <2>1 DEF CheckCancelled
  <2>2. ASSUME NEW here, NEW next \in SlotPoints, StageWrite(w, here, next)
        PROVE  Moved(w, here, next)
    BY <2>2 DEF StageWrite
  <2>3. Stage(w) =>
          \E here \in {"check_validating", "check_backtesting", "check_packaging",
                      "write_validating", "write_backtesting", "write_packaging"} :
             \/ Moved(w, here, "cancel_resource")
             \/ here = "check_validating" /\ Moved(w, here, "write_validating")
             \/ here = "write_validating" /\ Moved(w, here, "check_backtesting")
             \/ here = "check_backtesting" /\ Moved(w, here, "write_backtesting")
             \/ here = "write_backtesting" /\ Moved(w, here, "reserve")
             \/ here = "check_packaging" /\ Moved(w, here, "write_packaging")
             \/ here = "write_packaging" /\ Moved(w, here, "lookup")
    BY <2>1, <2>2 DEF Stage
  <2>4. Stage(w) => UNCHANGED <<dataVars, localVars>>
    BY DEF Stage
  <2>5. ASSUME NEW here, NEW next, Moved(w, here, next)
        PROVE  slot[w].pc = here /\ slot'[w].pc = next
    BY <2>5 DEF Moved
  <2>6. Stage(w) =>
          /\ slot[w].pc \in (Early \cup Late) \ ({"read"} \cup Finishing)
          /\ slot'[w].pc \in ((Early \cup Late) \ {"read"}) \cup Unwinding
          /\ slot'[w].pc \in Reserved => slot'[w].pc \in Trained /\ slot[w].pc \in Trained
    BY <2>3, <2>5 DEF Reserved, Trained, Finishing
  <2> QED
    BY <2>4, <2>6
<1>7. /\ Reserve(w) => Moved(w, "reserve", "train")
      /\ Train(w) => Moved(w, "train", "check_packaging")
      /\ FinishResource(w) => Moved(w, "finish_resource", "finish_job")
  BY DEF Reserve, Train, FinishResource
<1>8. /\ Lookup(w) => Moved(w, "lookup", IF Exists(known[w]) THEN "finish_resource" ELSE "create")
      /\ CreateModel(w) =>
            Moved(w, "create", IF Exists(known[w]) THEN "fail_resource" ELSE "finish_resource")
  BY DEF Lookup, CreateModel
<1> QED
  BY <1>1, <1>2, <1>3, <1>4, <1>6, <1>7, <1>8, <1>9 DEF BodyMoves

\* A step of the run method preserves every part of the invariant.
LEMMA BodyDataInv ==
    ASSUME TypeOK, BusyInv, DataInv, NEW w \in Slots, BodyStep(w)
    PROVE  DataInv'
<1> DEFINE j == slot[w].job
<1> USE BodyFrame DEF DataInv, Moved, UnchangedControl, dataVars, localVars
<1>a. /\ j \in Jobs /\ j # None /\ slot'[w].job = j
      /\ \A v \in Slots \ {w} :
            slot'[v] = slot[v] /\ known'[v] = known[v] /\ made'[v] = made[v]
      /\ \A i : Solo(i)' <=> Solo(i)
  BY ControlAssumption DEF Solo, Spared
<1>b. /\ Reserved \subseteq (Early \cup Late) \ {"read"} /\ Trained \subseteq Reserved
      /\ Finishing \subseteq Reserved /\ Trained \cap Finishing = {} /\ "train" \notin Trained
      /\ "train" \notin Finishing /\ "reserve" \notin Reserved /\ "read" \notin Reserved
      /\ {"lookup", "create", "check_packaging"} \subseteq Trained
      /\ Unwinding \cap (Early \cup Late \cup {"idle"}) = {}
      /\ "idle" \notin Early \cup Late
      /\ {"reserve", "train", "check_validating"} \subseteq Early
  BY DEF Reserved, Trained, Finishing, Unwinding, Handling, Executing, Early, Late
<1>c. \A v \in Slots : slot[v].pc \in (Early \cup Late) => slot[v].job \in Jobs
  BY <1>b DEF TypeOK, BusyInv, ControlTypeOK, Thread
<1>d. slot[w].pc \in Reserved => known[w] \in ModelIds
  BY DEF KnownInv
<1>e. CreateModel(w) =>
        /\ known' = known /\ made' = made /\ object' = object
        /\ \A m \in ModelIds :
              models'[m] = IF m = known[w] /\ ~Exists(m)
                           THEN [experiment |-> j, bytes |-> made[w]] ELSE models[m]
  BY DEF CreateModel, TypeOK
<1>f. Train(w) =>
        /\ known' = known /\ models' = models
        /\ made'[w] # None
        /\ \A m \in ModelIds : object'[m] = IF m = known[w] THEN made'[w] ELSE object[m]
  BY ExperimentAssumption DEF Train, TypeOK
<1>1. LocalsInv'
  <2>1. slot'[w].pc \notin {"idle", "read"}
    BY DEF BodyStep, Finishing, Early, Late, Unwinding, Handling, Executing
  <2> QED
    BY <1>a, <2>1 DEF LocalsInv
<1>2. SoloInv'
  BY <1>a DEF SoloInv
<1>3. KnownInv'
  <2>1. ASSUME NEW v \in Slots, v # w
        PROVE  /\ slot[v].pc \in Reserved => known[v] \in ModelIds
               /\ slot[v].pc \in (Early \cup Late) \ {"read"} /\ Solo(slot[v].job) =>
                     known[v] = modelId'[slot[v].job]
    <3>1. slot[v].pc \in Early \cup Late /\ Solo(slot[v].job) => slot[v].job # j
      BY <2>1, <1>a, <1>b, <1>c DEF SoloInv
    <3>2. \A i \in Jobs \ {j} : modelId'[i] = modelId[i]
      BY DEF BodyStep, Begin, Reserve, Train, Lookup, CreateModel, FinishResource, TypeOK
    <3> QED
      BY <2>1, <3>1, <3>2, <1>b, <1>c DEF KnownInv
  <2>2. slot'[w].pc \in Reserved => known'[w] \in ModelIds
    <3>1. CASE Reserve(w)
      BY <3>1 DEF Reserve, TypeOK
    <3>2. CASE Begin(w)
      BY <3>2 DEF Reserved, Trained, Finishing
    <3>3. CASE Stage(w) \/ Train(w) \/ Lookup(w) \/ CreateModel(w) \/ FinishResource(w)
      <4>1. known' = known
        BY <3>3 DEF Train, Lookup, CreateModel, FinishResource
      <4>2. slot'[w].pc \in Reserved => slot[w].pc \in Reserved
        BY <3>3, <1>b DEF Reserved, Finishing
      <4> QED
        BY <4>1, <4>2 DEF KnownInv
    <3> QED
      BY <3>1, <3>2, <3>3 DEF BodyStep
  <2>3. slot'[w].pc \in (Early \cup Late) \ {"read"} /\ Solo(j) => known'[w] = modelId'[j]
    <3>1. CASE Begin(w)
      BY <3>1 DEF Begin, TypeOK
    <3>2. CASE Reserve(w)
      BY <3>2, <1>a, <1>b DEF Reserve, TypeOK, KnownInv
    <3>3. CASE FinishResource(w)
      BY <3>3, <1>a DEF FinishResource, TypeOK
    <3>4. CASE Stage(w) \/ Train(w) \/ Lookup(w) \/ CreateModel(w)
      BY <3>4, <1>a, <1>b DEF Train, Lookup, CreateModel, KnownInv
    <3> QED
      BY <3>1, <3>2, <3>3, <3>4 DEF BodyStep
  <2>4. \A v \in Slots \ {w} : slot'[v] = slot[v] /\ known'[v] = known[v]
    BY <1>a
  <2> QED
    BY <1>a, <1>c, <2>1, <2>2, <2>3, <2>4 DEF KnownInv
<1>4. PrivateInv'
  <2>1. CASE Reserve(w) /\ known[w] = None
    <3>1. PICK m \in ModelIds :
            /\ \A i \in Jobs : ~Owns(m, i)
            /\ modelId' = [modelId EXCEPT ![j] = m]
            /\ known' = [known EXCEPT ![w] = m]
      BY <2>1 DEF Reserve
    <3>2. ASSUME NEW n \in ModelIds, NEW i \in Jobs, Owns(n, i)', ~Owns(n, i)
          PROVE  n = m /\ i = j
      BY <3>1, <3>2, <2>1, <1>a DEF Owns, Reserve, TypeOK
    <3>3. ASSUME NEW i \in Jobs, Owns(m, i)'
          PROVE  i = j
      BY <3>1, <3>2, <3>3
    <3> QED
      BY <3>2, <3>3 DEF PrivateInv
  <2>2. CASE ~(Reserve(w) /\ known[w] = None)
    <3>1. ASSUME NEW n \in ModelIds, NEW i \in Jobs, Owns(n, i)'
          PROVE  Owns(n, i)
      <4>1. CASE Begin(w)
        BY <3>1, <4>1, <1>a DEF Begin, Owns, TypeOK
      <4>2. CASE CreateModel(w)
        BY <3>1, <4>2, <1>a, <1>b DEF CreateModel, Owns, TypeOK
      <4>3. CASE FinishResource(w)
        <5>1. models' = models /\ known' = known /\ modelId' = [modelId EXCEPT ![j] = known[w]]
          BY <4>3 DEF FinishResource
        <5> QED
          BY <3>1, <5>1, <1>a DEF Owns, TypeOK
      <4>4. CASE Stage(w) \/ Train(w) \/ Lookup(w) \/ Reserve(w)
        BY <3>1, <4>4, <2>2, <1>a DEF Train, Lookup, Reserve, Owns
      <4> QED
        BY <4>1, <4>2, <4>3, <4>4 DEF BodyStep
    <3> QED
      BY <3>1 DEF PrivateInv
  <2> QED
    BY <2>1, <2>2
<1>5. RowsInv'
  <2>1. CASE CreateModel(w)
    BY <2>1, <1>a, <1>b, <1>e DEF RowsInv, StoredInv, Exists
  <2>2. CASE Train(w)
    BY <2>2, <1>f DEF RowsInv, Exists
  <2>3. CASE models' = models /\ object' = object
    BY <2>3 DEF RowsInv, Exists
  <2> QED
    BY <2>1, <2>2, <2>3 DEF BodyStep, Begin, Reserve, Lookup, FinishResource
<1>6. StoredInv'
  <2>1. ASSUME NEW v \in Slots, v # w, slot[v].pc \in Trained
        PROVE  object'[known[v]] # None /\ (Solo(slot[v].job) => object'[known[v]] = made[v])
    <3>1. CASE Train(w)
      <4>1. known[v] = known[w] => slot[v].job = j /\ ~Solo(j)
        BY <2>1, <3>1, <1>a, <1>b, <1>c DEF KnownInv, PrivateInv, SoloInv, Owns
      <4> QED
        BY <2>1, <3>1, <4>1, <1>a, <1>b, <1>f DEF StoredInv, KnownInv
    <3>2. CASE object' = object
      BY <2>1, <3>2 DEF StoredInv
    <3> QED
      BY <3>1, <3>2 DEF BodyStep, Begin, Reserve, Lookup, FinishResource, CreateModel
  <2>2. slot'[w].pc \in Trained =>
            object'[known'[w]] # None /\ (Solo(j) => object'[known'[w]] = made'[w])
    <3>1. CASE Train(w)
      BY <3>1, <1>d, <1>f DEF Reserved
    <3>2. CASE Stage(w) \/ Lookup(w) \/ CreateModel(w)
      <4>1. UNCHANGED <<object, known, made>>
        BY <3>2 DEF Lookup, CreateModel
      <4>2. slot'[w].pc \in Trained => slot[w].pc \in Trained
        BY <3>2, <1>b
      <4> QED
        BY <4>1, <4>2, <1>a DEF StoredInv
    <3>3. CASE Begin(w) \/ Reserve(w) \/ FinishResource(w)
      BY <3>3, <1>b DEF Trained
    <3> QED
      BY <3>1, <3>2, <3>3 DEF BodyStep
  <2>3. \A v \in Slots \ {w} : slot'[v] = slot[v] /\ known'[v] = known[v] /\ made'[v] = made[v]
    BY <1>a
  <2> QED
    BY <1>a, <2>1, <2>2, <2>3 DEF StoredInv
<1>7. FinishInv'
  <2>1. ASSUME NEW v \in Slots, v # w, slot[v].pc \in Finishing
        PROVE  models'[known[v]].experiment = slot[v].job
    <3>1. CASE CreateModel(w)
      <4>1. known[v] \in ModelIds /\ slot[v].job \in Jobs
        BY <2>1, <1>b, <1>c DEF KnownInv
      <4>2. Exists(known[v])
        BY <2>1, <4>1, ControlAssumption DEF FinishInv, Exists, NoModel
      <4> QED
        BY <2>1, <3>1, <4>1, <4>2, <1>e DEF FinishInv
    <3>2. CASE models' = models
      BY <2>1, <3>2 DEF FinishInv
    <3> QED
      BY <3>1, <3>2 DEF BodyStep, Begin, Reserve, Lookup, FinishResource, Train
  <2>2. slot'[w].pc \in Finishing => models'[known'[w]].experiment = j
    <3>1. CASE Lookup(w)
      <4>1. known[w] \in ModelIds /\ Owns(known[w], j)
        BY <3>1, <1>b DEF KnownInv, Owns
      <4>2. Exists(known[w]) => models[known[w]].experiment = j
        BY <4>1, <1>a DEF RowsInv, PrivateInv, Owns
      <4> QED
        BY <3>1, <4>2 DEF Lookup, Finishing
    <3>2. CASE CreateModel(w)
      BY <3>2, <1>b, <1>d, <1>e DEF Finishing
    <3>3. CASE FinishResource(w)
      BY <3>3, <1>a DEF FinishResource, FinishInv, Finishing
    <3>4. CASE Begin(w) \/ Stage(w) \/ Reserve(w) \/ Train(w)
      BY <3>4, <1>b DEF Finishing
    <3> QED
      BY <3>1, <3>2, <3>3, <3>4 DEF BodyStep
  <2>3. \A v \in Slots \ {w} : slot'[v] = slot[v] /\ known'[v] = known[v]
    BY <1>a
  <2> QED
    BY <1>a, <2>1, <2>2, <2>3 DEF FinishInv
<1> QED
  BY <1>1, <1>2, <1>3, <1>4, <1>5, <1>6, <1>7

IInv == TypeOK /\ BusyInv /\ DataInv

\* The inductive invariant is preserved.
LEMMA NextIInv == IInv /\ [Next]_vars => IInv'
<1> SUFFICES ASSUME IInv, [Next]_vars PROVE IInv'
  OBVIOUS
<1>1. TypeOK' /\ BusyInv'
  BY NextTypeOK DEF IInv
<1>2. DataInv'
  <2>1. CASE UNCHANGED vars
    BY <2>1 DEF IInv, DataInv, LocalsInv, SoloInv, KnownInv, PrivateInv, RowsInv, StoredInv,
                FinishInv, Owns, Exists, Solo, Spared, vars, controlVars, dataVars, localVars
  <2>2. CASE Next
    BY <2>2, ControlDataInv, BodyDataInv DEF IInv, Next
  <2> QED
    BY <2>1, <2>2
<1> QED
  BY <1>1, <1>2 DEF IInv

\* The invariant the properties rest on holds in every reachable state.
THEOREM InductiveInvariance == Spec => []IInv
<1>1. Init => IInv
  BY InitTypeOK, InitBusyInv, InitDataInv DEF IInv
<1> QED
  BY <1>1, NextIInv, PTL DEF Spec

-----------------------------------------------------------------------------
(* The properties *)

\* What a step does to an experiment's model id, when no attempts overlap.
LEMMA NextLineage ==
    ASSUME IInv, [Next]_vars, NEW j \in Jobs, Solo(j)'
    PROVE  /\ Solo(j)
           /\ modelId[j] # None => modelId'[j] = modelId[j]
<1> USE DEF IInv
<1>1. CASE UNCHANGED vars
  BY <1>1 DEF vars, controlVars, dataVars, Solo, Spared
<1>2. CASE ControlNext /\ LocalsEnd
  BY <1>2, ControlFrame DEF DataInv, dataVars
<1>3. ASSUME NEW w \in Slots, BodyStep(w)
      PROVE  Solo(j) /\ (modelId[j] # None => modelId'[j] = modelId[j])
  <2>1. Solo(j)
    BY <1>3, BodyFrame DEF Solo, Spared
  <2>2. slot[w].pc \in {"reserve", "finish_resource"} /\ slot[w].job = j => known[w] = modelId[j]
    BY <2>1 DEF DataInv, KnownInv, Early, Late
  <2>3. CASE Reserve(w)
    BY <1>3, <2>1, <2>2, <2>3, BodyFrame DEF Reserve, Moved, TypeOK
  <2>4. CASE FinishResource(w)
    BY <1>3, <2>1, <2>2, <2>4, BodyFrame DEF FinishResource, Moved, TypeOK
  <2>5. CASE modelId' = modelId
    BY <2>1, <2>5
  <2> QED
    BY <1>3, <2>3, <2>4, <2>5
       DEF BodyStep, Begin, Stage, Train, Lookup, CreateModel, dataVars
<1> QED
  BY <1>1, <1>2, <1>3 DEF Next

\* Retries of an experiment share one model: unless attempts overlapped, each
\* of its model rows is the one it points at.
THEOREM OneModel == Spec => []OneModelPerExperiment
<1>1. Init => OneModelPerExperiment
  BY ControlAssumption DEF Init, OneModelPerExperiment, NoModel
<1>2. IInv /\ OneModelPerExperiment /\ [Next]_vars => OneModelPerExperiment'
  <2> SUFFICES ASSUME IInv, OneModelPerExperiment, [Next]_vars,
                      NEW j \in Jobs, Solo(j)', NEW m \in ModelIds, models'[m].experiment = j
               PROVE  modelId'[j] = m
    BY DEF OneModelPerExperiment, Solo
  <2>1. Solo(j) /\ (modelId[j] # None => modelId'[j] = modelId[j])
    BY NextLineage
  <2>2. CASE models[m].experiment = j
    BY <2>1, <2>2, ExperimentAssumption DEF OneModelPerExperiment, Solo
  <2>3. ASSUME NEW w \in Slots, CreateModel(w)
        PROVE  modelId'[j] = m
    <3>1. BodyStep(w) /\ modelId' = modelId
      BY <2>3 DEF BodyStep, CreateModel
    <3>2. slot[w].pc = "create" /\ (\/ known[w] = m /\ slot[w].job = j
                                 \/ models'[m] = models[m] \/ models'[m].experiment # j)
      BY <2>3 DEF CreateModel, Goto, IInv, TypeOK
    <3>3. slot[w].job = j => known[w] = modelId[j]
      BY <2>1, <3>2 DEF IInv, DataInv, KnownInv, Early, Late
    <3> QED
      BY <2>2, <3>1, <3>2, <3>3
  <2>4. CASE models' = models
    BY <2>2, <2>4
  <2> QED
    BY <2>3, <2>4
       DEF Next, LocalsEnd, BodyStep, Begin, Stage, Reserve, Train, Lookup, FinishResource,
           dataVars, vars
<1> QED
  BY <1>1, <1>2, InductiveInvariance, PTL DEF Spec

\* The model id of an experiment never changes once reserved.
THEOREM LineageIsFixed == Spec => LineageFixed
<1>1. IInv /\ [Next]_vars =>
        [\A j \in Jobs : modelId[j] # None /\ "overlap" \notin history'[j] =>
            modelId'[j] = modelId[j]]_vars
  BY NextLineage DEF Solo, Spared
<1> QED
  BY <1>1, InductiveInvariance, PTL DEF Spec, LineageFixed

\* Model rows are never changed or deleted, and bundles never disappear.
LEMMA RowsStay ==
    ASSUME IInv, [Next]_vars, NEW m \in ModelIds
    PROVE  /\ Exists(m) => models'[m] = models[m]
           /\ object[m] # None => object'[m] # None
<1>1. ASSUME NEW w \in Slots, CreateModel(w)
      PROVE  (Exists(m) => models'[m] = models[m]) /\ object' = object
  BY <1>1 DEF CreateModel, IInv, TypeOK, Exists
<1>2. ASSUME NEW w \in Slots, Train(w)
      PROVE  models' = models /\ (object[m] # None => object'[m] # None)
  BY <1>2, ExperimentAssumption DEF Train, IInv, TypeOK
<1>3. CASE models' = models /\ object' = object
  BY <1>3
<1> QED
  BY <1>1, <1>2, <1>3
     DEF Next, LocalsEnd, BodyStep, Begin, Stage, Reserve, Lookup, FinishResource, dataVars, vars

\* The step that makes a report of success possible: success appears in the
\* rows only by these two steps of an attempt that has its model.
LEMMA NextSuccess ==
    ASSUME IInv, [Next]_vars, NEW j \in Jobs
    PROVE  /\ resource'[j] = "succeeded" =>
                \/ resource[j] = "succeeded"
                \/ \E w \in Slots : FinishResource(w) /\ slot[w].job = j /\ slot[w].pc \in Finishing
           /\ job'[j].state = "succeeded" =>
                \/ job[j].state = "succeeded"
                \/ \E w \in Slots : slot[w].job = j /\ slot[w].pc \in Finishing
<1>1. CASE UNCHANGED vars
  BY <1>1 DEF vars, controlVars
<1>2. CASE ControlNext
  BY <1>2, ControlNextMoves DEF IInv, TypeOK, ControlMoves, Finishing
<1>3. ASSUME NEW w \in Slots, FinishResource(w)
      PROVE  /\ slot[w].pc \in Finishing /\ job' = job
             /\ resource'[j] = "succeeded" => resource[j] = "succeeded" \/ slot[w].job = j
  BY <1>3 DEF FinishResource, Goto, SetResource, Finishing, IInv, TypeOK, ControlTypeOK
<1>4. ASSUME NEW w \in Slots, Stage(w)
      PROVE  resource' = resource /\ (job'[j].state = "succeeded" => job[j].state = "succeeded")
  <2>1. resource' = resource /\ (job' = job \/ SetJob(slot[w].job, "running"))
    BY <1>4 DEF Stage, CheckCancelled, StageWrite
  <2>2. job[j] \in JobRow
    BY DEF IInv, TypeOK, ControlTypeOK
  <2>3. SetJob(slot[w].job, "running") => job'[j] = job[j] \/ job'[j].state = "running"
    BY <2>2 DEF SetJob, JobRow, IInv, TypeOK, ControlTypeOK
  <2> QED
    BY <2>1, <2>3
<1>5. CASE resource' = resource /\ job' = job
  BY <1>5
<1> QED
  BY <1>1, <1>2, <1>3, <1>4, <1>5
     DEF Next, BodyStep, Begin, Reserve, Train, Lookup, CreateModel, UnchangedControl

\* An experiment that succeeded points at a model row trained for it, unless
\* attempts overlapped.
THEOREM Lineage == Spec => []LineageIntact
<1>1. Init => LineageIntact
  BY DEF Init, ControlInit, LineageIntact
<1>2. IInv /\ LineageIntact /\ [Next]_vars => LineageIntact'
  <2> SUFFICES ASSUME IInv, LineageIntact, [Next]_vars,
                      NEW j \in Jobs, Solo(j)', resource'[j] = "succeeded"
               PROVE  modelId'[j] # None /\ models'[modelId'[j]].experiment = j
    BY DEF LineageIntact, Solo
  <2>1. Solo(j) /\ (modelId[j] # None => modelId'[j] = modelId[j])
    BY NextLineage
  <2>2. CASE resource[j] = "succeeded"
    <3>1. modelId[j] # None /\ models[modelId[j]].experiment = j
      BY <2>1, <2>2 DEF LineageIntact, Solo
    <3>2. modelId[j] \in ModelIds /\ Exists(modelId[j])
      BY <3>1, ControlAssumption DEF IInv, TypeOK, Exists, NoModel
    <3> QED
      BY <2>1, <3>1, <3>2, RowsStay
  <2>3. ASSUME NEW w \in Slots, FinishResource(w), slot[w].job = j, slot[w].pc \in Finishing
        PROVE  modelId'[j] # None /\ models'[modelId'[j]].experiment = j
    <3>1. known[w] \in ModelIds /\ models[known[w]].experiment = j
      BY <2>3 DEF IInv, DataInv, KnownInv, FinishInv, Reserved
    <3> QED
      BY <2>3, <3>1, ExperimentAssumption DEF FinishResource, IInv, TypeOK
  <2> QED
    BY <2>2, <2>3, NextSuccess
<1> QED
  BY <1>1, <1>2, InductiveInvariance, PTL DEF Spec

\* Success is never reported, in either row, without a model row of the
\* experiment and a bundle under its key; this holds even when attempts overlap.
THEOREM Success == Spec => []SuccessHasModel
<1> DEFINE Backed(j) == \E m \in ModelIds : models[m].experiment = j /\ object[m] # None
<1>1. Init => SuccessHasModel
  BY DEF Init, ControlInit, SuccessHasModel
<1>2. IInv /\ SuccessHasModel /\ [Next]_vars => SuccessHasModel'
  <2> SUFFICES ASSUME IInv, SuccessHasModel, [Next]_vars,
                      NEW j \in Jobs, "succeeded" \in {resource'[j], job'[j].state}
               PROVE  Backed(j)'
    BY DEF SuccessHasModel
  <2>1. Backed(j)
    <3>1. CASE "succeeded" \in {resource[j], job[j].state}
      BY <3>1 DEF SuccessHasModel
    <3>2. ASSUME NEW w \in Slots, slot[w].job = j, slot[w].pc \in Finishing
          PROVE  Backed(j)
      <4>1. known[w] \in ModelIds /\ models[known[w]].experiment = j
        BY <3>2 DEF IInv, DataInv, KnownInv, FinishInv, Reserved
      <4>2. Exists(known[w])
        BY <4>1, ControlAssumption DEF Exists, NoModel
      <4> QED
        BY <4>1, <4>2 DEF IInv, DataInv, RowsInv
    <3> QED
      BY <3>1, <3>2, NextSuccess
  <2>2. PICK m \in ModelIds : models[m].experiment = j /\ object[m] # None
    BY <2>1
  <2>3. Exists(m)
    BY <2>2, ControlAssumption DEF Exists, NoModel
  <2> QED
    BY <2>2, <2>3, RowsStay
<1> QED
  BY <1>1, <1>2, InductiveInvariance, PTL DEF Spec

\* The digest recorded in a new model row is that of the bundle in the store.
THEOREM ArtifactAtBirth == Spec => ArtifactMatchesAtBirth
<1>1. ASSUME IInv, [Next]_vars, NEW m \in ModelIds, ~Exists(m), Exists(m)',
             "overlap" \notin history[models'[m].experiment]
      PROVE  object'[m] = models'[m].bytes
  <2>1. PICK w \in Slots : CreateModel(w)
    BY <1>1 DEF Next, LocalsEnd, BodyStep, Begin, Stage, Reserve, Train, Lookup, FinishResource,
                dataVars, vars, Exists
  <2>2. /\ slot[w].pc = "create" /\ known[w] = m /\ object' = object
        /\ models'[m] = [experiment |-> slot[w].job, bytes |-> made[w]]
    BY <1>1, <2>1 DEF CreateModel, Goto, Exists, IInv, TypeOK
  <2>3. Solo(slot[w].job) => object[m] = made[w]
    <3>1. slot[w].pc \in Trained /\ known[w] = m
      BY <2>2 DEF Trained
    <3> QED
      BY <1>1, <3>1 DEF IInv, DataInv, StoredInv
  <2> QED
    BY <1>1, <2>2, <2>3 DEF Solo, Spared
<1>2. IInv /\ [Next]_vars =>
        [\A m \in ModelIds : ~Exists(m) /\ Exists(m)'
            /\ "overlap" \notin history[models'[m].experiment] =>
                object'[m] = models'[m].bytes]_vars
  BY <1>1
<1> QED
  BY <1>2, InductiveInvariance, PTL DEF Spec, ArtifactMatchesAtBirth

-----------------------------------------------------------------------------
(* What one step does to one job *)

Body == Early \cup Late

\* Nothing that concerns job j changes.
Elsewhere(j) ==
    /\ resource'[j] = resource[j] /\ job'[j].state = job[j].state
    /\ hatchet'[j] = hatchet[j] /\ history'[j] = history[j]
    /\ \A w \in Slots : slot'[w] = slot[w] \/ j \notin {slot[w].job, slot'[w].job}
    /\ \A r \in Requests : JobOf[r] = j => request'[r] = request[r]
    /\ \A c \in Cancels : JobOf[c] = j => cancel'[c] = cancel[c]

\* The two rows of job j become s and t.
Rows(j, s, t) == resource'[j] = s /\ job'[j].state = t
SameRows(j) == Rows(j, resource[j], job[j].state)

Moves(w, here, next) == slot[w].pc \in here /\ slot'[w].pc \in next

\* The attempt of thread w goes on.
Advances(w, j) ==
    /\ slot'[w].job = slot[w].job /\ slot'[w].orphan = slot[w].orphan
    /\ slot'[w].stop = slot[w].stop /\ slot'[w].retry = slot[w].retry
    /\ hatchet'[j] = hatchet[j] /\ history'[j] = history[j]

\* The program points before the experiment row says succeeded, and those
\* after the job row has said running.
Unfinished == Body \ {"finish_job"}
Running == Body \ {"read", "check_validating", "write_validating"}

\* A step of an attempt that writes neither row.
Silent(w, j) ==
    /\ Advances(w, j) /\ SameRows(j)
    /\ \/ /\ Moves(w, Unfinished, Unfinished \ {"read"})
          /\ slot'[w].pc \in Running => slot[w].pc \in Running
       \/ Moves(w, Body, {"fail_resource"})
       \/ /\ SeesCancel(w)
          /\ Moves(w, Body \cup {"triage"}, {"cancel_resource", "execute_cancel_resource"})
       \/ Moves(w, {"read"}, {"return"}) /\ resource[j] = "succeeded"
       \/ Moves(w, {"triage"}, {"requeue_resource"}) /\ slot[w].retry < JOB_RETRIES
       \/ Moves(w, {"triage"}, {"raise"}) /\ ~(slot[w].retry < JOB_RETRIES)

\* A step of an attempt that writes one of the rows.
Writes(w, j) ==
    /\ Advances(w, j)
    /\ \/ Moves(w, Unfinished, Running \ {"finish_job"}) /\ Rows(j, resource[j], "running")
       \/ Moves(w, {"finish_resource"}, {"finish_job"}) /\ Rows(j, "succeeded", job[j].state)
       \/ Moves(w, {"finish_job"}, {"return"}) /\ Rows(j, resource[j], "succeeded")
       \/ Moves(w, {"fail_resource"}, {"fail_job"}) /\ Rows(j, "failed", job[j].state)
       \/ Moves(w, {"fail_job"}, {"triage"}) /\ Rows(j, resource[j], "failed")
       \/ Moves(w, {"requeue_resource"}, {"requeue_job"}) /\ Rows(j, "queued", job[j].state)
       \/ Moves(w, {"requeue_job"}, {"raise"}) /\ Rows(j, resource[j], "queued")
       \/ /\ Moves(w, {"cancel_resource", "execute_cancel_resource"},
                      {"cancel_job", "execute_cancel_job"})
          /\ Rows(j, "cancelled", job[j].state)
       \/ /\ Moves(w, {"cancel_job", "execute_cancel_job"}, {"return"})
          /\ Rows(j, resource[j], "cancelled")

\* The attempt ends, and unless it is an orphan its run gets status s.
Ends(w, j, s) ==
    /\ slot'[w] = IdleSlot /\ SameRows(j)
    /\ hatchet'[j].status = IF slot[w].orphan THEN hatchet[j].status ELSE s

Finishes(w, j) ==
    \/ slot[w].pc = "return" /\ Ends(w, j, "done") /\ history'[j] = history[j]
    \/ /\ slot[w].pc = "raise" /\ slot[w].retry < JOB_RETRIES
       /\ Ends(w, j, "pending") /\ history'[j] = history[j]
    \/ /\ slot[w].pc = "raise" /\ ~(slot[w].retry < JOB_RETRIES)
       /\ Ends(w, j, "done") /\ history'[j] = history[j]
    \/ /\ Ends(w, j, "pending") /\ history'[j] = history[j] \cup {"worker_crash"}
    \/ /\ Ends(w, j, "done") /\ history'[j] = history[j] \cup {"worker_crash"}
       /\ ~slot[w].orphan => hatchet'[j].retry = JOB_RETRIES

Delivers(w, j) ==
    /\ slot[w].stop = "sent"
    /\ slot'[w].pc = slot[w].pc /\ slot'[w].job = slot[w].job
    /\ slot'[w].orphan = slot[w].orphan /\ slot'[w].retry = slot[w].retry
    /\ hatchet'[j] = hatchet[j] /\ history'[j] = history[j] /\ SameRows(j)

\* A step of an attempt of job j that is none of the faults below.
AttemptStep(w, j) ==
    /\ slot[w].job = j
    /\ \A v \in Slots \ {w} : slot'[v] = slot[v]
    /\ request' = request /\ cancel' = cancel
    /\ Silent(w, j) \/ Writes(w, j) \/ Finishes(w, j) \/ Delivers(w, j)

\* A step of Hatchet about job j: an attempt starts, or nobody takes the run.
StartStep(w, j) ==
    /\ hatchet[j].status = "pending" /\ hatchet'[j].status = "active"
    /\ slot[w].pc = "idle"
    /\ slot'[w].pc = "read" /\ slot'[w].job = j
    /\ slot'[w].stop = "no" /\ ~slot'[w].orphan
    /\ \A v \in Slots \ {w} : slot'[v] = slot[v]
    /\ request' = request /\ cancel' = cancel
    /\ SameRows(j) /\ history[j] \subseteq history'[j]

GiveUpStep(j) ==
    /\ hatchet[j].status = "pending" /\ hatchet'[j].status = "done"
    /\ slot' = slot /\ request' = request /\ cancel' = cancel
    /\ SameRows(j) /\ history'[j] = history[j] \cup {"unscheduled"}

\* A step of a create handler of job j.
Asks(r, here, next) == request[r].pc \in here /\ request'[r].pc = next
SameRun(j) == hatchet'[j] = hatchet[j]

AskStep(r, j) ==
    /\ JobOf[r] = j
    /\ \A q \in Requests \ {r} : request'[q] = request[q]
    /\ slot' = slot /\ cancel' = cancel
    /\ history[j] \subseteq history'[j]
    /\ \/ /\ Asks(r, {"idle"}, "submit") /\ SameRun(j)
          /\ resource[j] = "absent" /\ Rows(j, "queued", "queued")
       \/ /\ Asks(r, {"idle"}, "dispatch_required") /\ SameRun(j) /\ SameRows(j)
          /\ resource[j] # "absent"
       \/ Asks(r, {"dispatch_required"}, "done") /\ SameRun(j) /\ SameRows(j)
       \/ request[r].pc \in {"reset_resource", "reset_job"}
       \/ /\ Asks(r, {"submit"}, "record") /\ SameRows(j)
          /\ hatchet'[j].status = IF KeyFree(j) THEN "pending" ELSE hatchet[j].status
       \/ Asks(r, {"submit"}, "fail_resource") /\ SameRows(j) /\ SameRun(j)
       \/ /\ Asks(r, {"submit"}, "fail_resource") /\ SameRows(j)
          /\ hatchet'[j].status = "pending" /\ "lost_answer" \in history'[j]
       \/ Asks(r, {"fail_resource"}, "fail_job") /\ SameRun(j) /\ Rows(j, "failed", job[j].state)
       \/ Asks(r, {"fail_job"}, "done") /\ SameRun(j) /\ Rows(j, resource[j], "failed")
       \/ /\ request[r].pc # "idle" /\ request'[r].pc = "done"
          /\ SameRun(j) /\ SameRows(j)

\* A step of a cancel handler of job j.
CancellingStep(c, j) ==
    /\ JobOf[c] = j
    /\ \A d \in Cancels \ {c} : cancel'[d] = cancel[d]
    /\ request' = request
    /\ history[j] \subseteq history'[j]
    /\ cancel[c].pc = "idle" => "cancel" \in history'[j] /\ resource[j] # "absent"
    /\ \/ SameRun(j) /\ slot' = slot
       \/ /\ hatchet[j].status \in {"pending", "active"} /\ hatchet'[j].status = "done"
          /\ \A w \in Slots : slot'[w] =
                IF slot[w].job = j /\ ~slot[w].orphan
                THEN [slot[w] EXCEPT !.orphan = TRUE, !.stop = "sent"] ELSE slot[w]
    /\ \/ SameRows(j)
       \/ Rows(j, resource[j], "cancelled")
       \/ Rows(j, "cancelled", job[j].state)

-----------------------------------------------------------------------------
(* The attempts of a job that was spared the events that leave one behind *)

Trouble == {"replay", "timeout", "lost_worker", "store_error"}
Calm(j) == Spared(j, Trouble)

\* A step of the system, as a job sees it.
JobStep(j) ==
    \/ Elsewhere(j)
    \/ \E w \in Slots : AttemptStep(w, j) \/ StartStep(w, j)
    \/ GiveUpStep(j)
    \/ \E r \in Requests : AskStep(r, j)
    \/ \E c \in Cancels : CancellingStep(c, j)

\* A step of the run method.
LEMMA BodyEffect ==
    ASSUME TypeOK, BusyInv, NEW w \in Slots, BodyStep(w), NEW j \in Jobs
    PROVE  Elsewhere(j) \/ AttemptStep(w, j)
<1>1. /\ \A v \in Slots \ {w} : slot'[v] = slot[v]
      /\ slot'[w].job = slot[w].job /\ slot[w].job \in Jobs
  BY BodyStepMoves DEF BodyMoves, TypeOK, ControlTypeOK, BusyInv, Thread, Early, Late
<1>2. hatchet' = hatchet /\ request' = request /\ cancel' = cancel /\ history' = history
  BY DEF BodyStep, Begin, Stage, Reserve, Train, Lookup, CreateModel, FinishResource,
         CheckCancelled, StageWrite, UnchangedControl
<1>3. ASSUME NEW here, NEW next, Goto(w, here, next)
      PROVE  /\ slot[w].pc = here /\ slot'[w].pc = next
             /\ slot'[w].orphan = slot[w].orphan
             /\ slot'[w].stop = slot[w].stop /\ slot'[w].retry = slot[w].retry
  BY <1>3 DEF Goto, TypeOK, ControlTypeOK, Thread
<1>4. CASE slot[w].job # j
  <2>1. resource'[j] = resource[j]
    BY <1>4 DEF BodyStep, Begin, Stage, Reserve, Train, Lookup, CreateModel, FinishResource,
         CheckCancelled, StageWrite, UnchangedControl, SetResource, TypeOK, ControlTypeOK
  <2>2. job'[j] = job[j]
    BY <1>4 DEF BodyStep, Begin, Stage, Reserve, Train, Lookup, CreateModel, FinishResource,
         CheckCancelled, StageWrite, UnchangedControl, SetJob, TypeOK, ControlTypeOK
  <2> QED
    BY <1>1, <1>2, <1>4, <2>1, <2>2 DEF Elsewhere
<1>5. CASE slot[w].job = j
  <2>1. ASSUME NEW here, NEW next, Goto(w, here, next)
        PROVE  Advances(w, j)
    BY <1>1, <1>2, <1>3, <2>1 DEF Advances
  <2> USE <1>3, <1>5, <2>1
      DEF Silent, Moves, SameRows, Rows, UnchangedControl, Body, Unfinished, Running, Early, Late
  <2>2. Begin(w) => Silent(w, j)
    BY DEF Begin
  <2>3. Stage(w) => Silent(w, j) \/ Writes(w, j)
    <3>1. ASSUME NEW here \in Unfinished, NEW next \in Unfinished \ {"read"},
                 next \in Running => here \in Running, CheckCancelled(w, here, next)
          PROVE  Silent(w, j)
      BY <3>1 DEF CheckCancelled
    <3>2. ASSUME NEW here \in Unfinished, NEW next \in Running \ {"finish_job"},
                 StageWrite(w, here, next)
          PROVE  Writes(w, j)
      <4>1. job'[j].state = "running"
        BY <3>2, StateType DEF StageWrite, SetJob, TypeOK, ControlTypeOK, JobRow
      <4> QED
        BY <3>2, <4>1 DEF StageWrite, Writes
    <3> QED
      BY <3>1, <3>2 DEF Stage
  <2>4. Reserve(w) => Silent(w, j)
    BY DEF Reserve
  <2>5. Train(w) => Silent(w, j)
    BY DEF Train
  <2>6. Lookup(w) => Silent(w, j)
    BY DEF Lookup
  <2>7. CreateModel(w) => Silent(w, j)
    BY DEF CreateModel
  <2>8. ASSUME FinishResource(w) PROVE Writes(w, j)
    <3>1. resource'[j] = "succeeded" /\ job' = job
      BY <2>8 DEF FinishResource, SetResource, TypeOK, ControlTypeOK
    <3> QED
      BY <2>8, <3>1 DEF FinishResource, Writes
  <2>9. Silent(w, j) \/ Writes(w, j)
    BY <2>2, <2>3, <2>4, <2>5, <2>6, <2>7, <2>8 DEF BodyStep
  <2> QED
    BY <1>1, <1>2, <1>5, <2>9 DEF AttemptStep
<1> QED
  BY <1>4, <1>5

\* A thread that unwinds, delivers a stop or suffers a fault.
LEMMA ThreadEffect ==
    ASSUME TypeOK, BusyInv, NEW w \in Slots, NEW j \in Jobs, Calm(j)',
           UnwindStep(w) \/ Error(w) \/ StoreError(w) \/ WorkerCrash(w) \/ LostWorker(w)
               \/ Timeout(w)
    PROVE  Elsewhere(j) \/ AttemptStep(w, j)
<1>1. /\ \A v \in Slots \ {w} : slot'[v] = slot[v]
      /\ request' = request /\ cancel' = cancel
  BY DEF UnwindStep, FinishJob, DeliverStop, SlotCancelResource, SlotCancelJob, SlotFailResource,
         SlotFailJob, Triage, RequeueResource, RequeueJob, Return, Raise, Error, StoreError,
         WorkerCrash, LostWorker, Timeout, Goto, TypeOK, ControlTypeOK
<1>2. ASSUME NEW next, slot' = [slot EXCEPT ![w].pc = next]
      PROVE  /\ slot'[w].pc = next /\ slot'[w].job = slot[w].job
             /\ slot'[w].orphan = slot[w].orphan
             /\ slot'[w].stop = slot[w].stop /\ slot'[w].retry = slot[w].retry
  BY <1>2 DEF TypeOK, ControlTypeOK, Thread
<1>3. CASE slot[w].job # j
  <2>1. slot'[w].job \in {slot[w].job, None}
    BY DEF UnwindStep, FinishJob, DeliverStop, SlotCancelResource, SlotCancelJob,
           SlotFailResource, SlotFailJob, Triage, RequeueResource, RequeueJob, Return, Raise,
           Error, StoreError, WorkerCrash, LostWorker, Timeout, Goto, IdleSlot, TypeOK,
           ControlTypeOK, Thread
  <2>2. resource'[j] = resource[j]
    BY <1>3 DEF UnwindStep, FinishJob, DeliverStop, SlotCancelResource, SlotCancelJob,
           SlotFailResource, SlotFailJob, Triage, RequeueResource, RequeueJob, Return, Raise,
           Error, StoreError, WorkerCrash, LostWorker, Timeout, SetResource, TypeOK,
           ControlTypeOK
  <2>3. job'[j] = job[j]
    BY <1>3 DEF UnwindStep, FinishJob, DeliverStop, SlotCancelResource, SlotCancelJob,
           SlotFailResource, SlotFailJob, Triage, RequeueResource, RequeueJob, Return, Raise,
           Error, StoreError, WorkerCrash, LostWorker, Timeout, SetJob, TypeOK, ControlTypeOK
  <2>4. hatchet'[j] = hatchet[j]
    BY <1>3 DEF UnwindStep, FinishJob, DeliverStop, SlotCancelResource, SlotCancelJob,
           SlotFailResource, SlotFailJob, Triage, RequeueResource, RequeueJob, Return, Raise,
           Error, StoreError, WorkerCrash, LostWorker, Timeout, Recover, AttemptOver, TypeOK,
           ControlTypeOK
  <2>5. history'[j] = history[j]
    BY <1>3 DEF UnwindStep, FinishJob, DeliverStop, SlotCancelResource, SlotCancelJob,
           SlotFailResource, SlotFailJob, Triage, RequeueResource, RequeueJob, Return, Raise,
           Error, StoreError, WorkerCrash, LostWorker, Timeout, Suffer, Note, TypeOK,
           ControlTypeOK
  <2> QED
    BY <1>1, <1>3, <2>1, <2>2, <2>3, <2>4, <2>5, ControlAssumption DEF Elsewhere
<1>4. CASE slot[w].job = j
  <2>1. ASSUME NEW next, slot' = [slot EXCEPT ![w].pc = next],
               hatchet' = hatchet, history' = history
        PROVE  Advances(w, j)
    BY <1>2, <2>1 DEF Advances
  <2>2. ASSUME NEW s \in ResourceStates, SetResource(j, s), job' = job
        PROVE  Rows(j, s, job[j].state)
    BY <2>2 DEF SetResource, Rows, TypeOK, ControlTypeOK
  <2>3. ASSUME NEW s \in JobStates, SetJob(j, s), resource' = resource
        PROVE  Rows(j, resource[j], s)
    BY <2>3 DEF SetJob, Rows, TypeOK, ControlTypeOK, JobRow
  <2>4. ASSUME NEW s \in {"pending", "done"}, NEW n, AttemptOver(w, s, n)
        PROVE  /\ hatchet'[j].status = IF slot[w].orphan THEN hatchet[j].status ELSE s
               /\ ~slot[w].orphan => hatchet'[j].retry = n
    BY <1>4, <2>4 DEF AttemptOver, TypeOK, ControlTypeOK, Run
  <2>5. FinishJob(w) => Writes(w, j)
    BY <1>2, <1>4, <2>1, <2>3 DEF FinishJob, Goto, Writes, Moves, JobStates, ResourceStates
  <2>6. DeliverStop(w) => Delivers(w, j)
    BY <1>4 DEF DeliverStop, Delivers, SameRows, Rows, TypeOK, ControlTypeOK, Thread
  <2>7. SlotCancelResource(w, "cancel_resource", "cancel_job")
            \/ SlotCancelResource(w, "execute_cancel_resource", "execute_cancel_job")
        => Writes(w, j)
    BY <1>2, <1>4, <2>1, <2>2 DEF SlotCancelResource, Goto, Writes, Moves, ResourceStates
  <2>8. SlotCancelJob(w, "cancel_job") \/ SlotCancelJob(w, "execute_cancel_job") => Writes(w, j)
    BY <1>2, <1>4, <2>1, <2>3 DEF SlotCancelJob, Goto, Writes, Moves, JobStates, ResourceStates
  <2>9. SlotFailResource(w) => Writes(w, j)
    BY <1>2, <1>4, <2>1, <2>2 DEF SlotFailResource, Goto, Writes, Moves, ResourceStates
  <2>10. SlotFailJob(w) => Writes(w, j)
    BY <1>2, <1>4, <2>1, <2>3 DEF SlotFailJob, Goto, Writes, Moves, JobStates, ResourceStates
  <2>11. ASSUME Triage(w) PROVE Silent(w, j)
    <3>1. /\ slot[w].pc = "triage" /\ SameRows(j)
          /\ hatchet' = hatchet /\ history' = history
      BY <2>11 DEF Triage, SameRows, Rows
    <3>2. CASE SeesCancel(w) /\ Goto(w, "triage", "execute_cancel_resource")
      BY <1>2, <2>1, <3>1, <3>2 DEF Goto, Silent, Moves
    <3>3. CASE slot[w].retry < JOB_RETRIES /\ Goto(w, "triage", "requeue_resource")
      BY <1>2, <2>1, <3>1, <3>3 DEF Goto, Silent, Moves
    <3>4. CASE slot[w].retry >= JOB_RETRIES /\ Goto(w, "triage", "raise")
      <4>1. ~(slot[w].retry < JOB_RETRIES)
        BY <3>4, ControlAssumption DEF TypeOK, ControlTypeOK, Thread
      <4> QED
        BY <1>2, <2>1, <3>1, <3>4, <4>1 DEF Goto, Silent, Moves
    <3> QED
      BY <2>11, <3>2, <3>3, <3>4 DEF Triage
  <2>12. RequeueResource(w) => Writes(w, j)
    BY <1>2, <1>4, <2>1, <2>2 DEF RequeueResource, Goto, Writes, Moves, ResourceStates
  <2>13. RequeueJob(w) => Writes(w, j)
    BY <1>2, <1>4, <2>1, <2>3 DEF RequeueJob, Goto, Writes, Moves, JobStates, ResourceStates
  <2> USE DEF Ends, SameRows, Rows
  <2>14. Return(w) => Finishes(w, j)
    BY <1>4, <2>4 DEF Return, Finishes, TypeOK, ControlTypeOK
  <2>15. Raise(w) => Finishes(w, j)
    BY <1>4, <2>4 DEF Raise, Finishes, TypeOK, ControlTypeOK
  <2>16. WorkerCrash(w) => Finishes(w, j)
    BY <1>4, <2>4 DEF WorkerCrash, Recover, Suffer, Note, Finishes, TypeOK, ControlTypeOK
  <2>17. ASSUME Error(w) PROVE Silent(w, j)
    <3>1. slot[w].pc \in Body
      BY <2>17 DEF Error, Body, TypeOK, ControlTypeOK, Thread, SlotPoints
    <3> QED
      BY <1>2, <2>1, <2>17, <3>1 DEF Error, Silent, Moves
  <2>18. ~(StoreError(w) \/ LostWorker(w) \/ Timeout(w))
    BY <1>4 DEF StoreError, LostWorker, Timeout, Suffer, Note, Calm, Trouble, Spared, TypeOK,
           ControlTypeOK
  <2>19. Silent(w, j) \/ Writes(w, j) \/ Finishes(w, j) \/ Delivers(w, j)
    BY <2>5, <2>6, <2>7, <2>8, <2>9, <2>10, <2>11, <2>12, <2>13, <2>14, <2>15, <2>16, <2>17,
       <2>18 DEF UnwindStep
  <2> QED
    BY <1>1, <1>4, <2>19 DEF AttemptStep
<1> QED
  BY <1>3, <1>4

\* A step of a create handler.
LEMMA AskEffect ==
    ASSUME TypeOK, NEW r \in Requests, NEW j \in Jobs, Calm(j)',
           Create(r) \/ Replay(r) \/ HandlerStep(r) \/ SubmitFails(r) \/ SubmitAnswerLost(r)
               \/ ApiCrash(r)
    PROVE  Elsewhere(j) \/ AskStep(r, j)
<1>1. JobOf[r] \in Jobs
  BY ControlAssumption
<1>2. slot' = slot /\ cancel' = cancel /\ \A q \in Requests \ {r} : request'[q] = request[q]
  BY DEF HandlerStep, Create, Replay, DispatchRequired, ResetResource, ResetJob, SubmitAccepted,
         SubmitCollides, SubmitFails, SubmitAnswerLost, FailResourceOfRequest, FailJobOfRequest,
         RecordRun, ApiCrash, RequestGoto, TypeOK, ControlTypeOK
<1>3. \A i \in Jobs : /\ history[i] \subseteq history'[i]
                      /\ JobOf[r] # i => history'[i] = history[i]
  BY <1>1 DEF HandlerStep, Create, Replay, DispatchRequired, ResetResource, ResetJob,
         SubmitAccepted, SubmitCollides, SubmitFails, SubmitAnswerLost, FailResourceOfRequest,
         FailJobOfRequest, RecordRun, ApiCrash, Suffer, Note, TypeOK, ControlTypeOK
<1>4. CASE JobOf[r] # j
  <2>1. resource'[j] = resource[j]
    BY <1>4 DEF HandlerStep, Create, Replay, DispatchRequired, ResetResource, ResetJob,
         SubmitAccepted, SubmitCollides, SubmitFails, SubmitAnswerLost, FailResourceOfRequest,
         FailJobOfRequest, RecordRun, ApiCrash, SetResource, TypeOK, ControlTypeOK
  <2>2. job'[j] = job[j]
    BY <1>4 DEF HandlerStep, Create, Replay, DispatchRequired, ResetResource, ResetJob,
         SubmitAccepted, SubmitCollides, SubmitFails, SubmitAnswerLost, FailResourceOfRequest,
         FailJobOfRequest, RecordRun, ApiCrash, SetJob, TypeOK, ControlTypeOK
  <2>3. hatchet'[j] = hatchet[j]
    BY <1>4 DEF HandlerStep, Create, Replay, DispatchRequired, ResetResource, ResetJob,
         SubmitAccepted, SubmitCollides, SubmitFails, SubmitAnswerLost, FailResourceOfRequest,
         FailJobOfRequest, RecordRun, ApiCrash, NewRun, TypeOK, ControlTypeOK
  <2> QED
    BY <1>2, <1>3, <1>4, <2>1, <2>2, <2>3 DEF Elsewhere
<1>5. CASE JobOf[r] = j
  <2>1. ASSUME NEW here, NEW next, RequestGoto(r, here, next)
        PROVE  Asks(r, {here}, next)
    BY <2>1 DEF RequestGoto, Asks, TypeOK, ControlTypeOK, Handler
  <2>2. ASSUME NEW s \in JobStates, SetJob(j, s)
        PROVE  job'[j].state = s
    BY <2>2 DEF SetJob, TypeOK, ControlTypeOK, JobRow
  <2>3. ASSUME NEW s, SetResource(j, s)
        PROVE  resource'[j] = s
    BY <2>3 DEF SetResource, TypeOK, ControlTypeOK
  <2>4. NewRun(j) => hatchet'[j].status = "pending"
    BY DEF NewRun, TypeOK, ControlTypeOK, Run
  <2>5. ASSUME NEW p, NEW n, request' = [request EXCEPT ![r] = [pc |-> p, run |-> n]]
        PROVE  request'[r].pc = p
    BY <2>5 DEF TypeOK, ControlTypeOK
  <2>6. SUFFICES AskStep(r, j)
    OBVIOUS
  <2> USE <1>2, <1>3, <1>5 DEF AskStep, SameRun, SameRows, Rows
  <2>7. CASE Create(r)
    BY <2>1, <2>2, <2>3, <2>7 DEF Create, Asks, JobStates, ResourceStates
  <2>8. CASE Replay(r)
    BY <2>1, <2>8 DEF Replay, Asks
  <2>9. CASE DispatchRequired(r)
    <3>1. ~("replay" \in history'[j])
      BY DEF Calm, Trouble, Spared
    <3>2. ~Note(j, "replay")
      BY <3>1 DEF Note, TypeOK, ControlTypeOK
    <3> QED
      BY <2>1, <2>9, <3>2 DEF DispatchRequired, Asks
  <2>10. CASE ResetResource(r) \/ ResetJob(r)
    BY <2>1, <2>10 DEF ResetResource, ResetJob, RequestGoto, Asks
  <2>11. CASE SubmitAccepted(r)
    <3>1. hatchet'[j].status = IF KeyFree(j) THEN "pending" ELSE hatchet[j].status
      BY <2>4, <2>11 DEF SubmitAccepted
    <3> QED
      BY <2>5, <2>11, <3>1 DEF SubmitAccepted, Asks
  <2>12. CASE SubmitCollides(r)
    BY <2>1, <2>12 DEF SubmitCollides, Asks
  <2>13. CASE SubmitFails(r)
    BY <2>1, <2>13 DEF SubmitFails, Asks
  <2>14. CASE SubmitAnswerLost(r)
    <3>1. "lost_answer" \in history'[j]
      BY <2>14 DEF SubmitAnswerLost, Suffer, Note, TypeOK, ControlTypeOK
    <3> QED
      BY <2>1, <2>4, <2>14, <3>1 DEF SubmitAnswerLost, Asks
  <2>15. CASE FailResourceOfRequest(r)
    BY <2>1, <2>3, <2>15 DEF FailResourceOfRequest, Asks
  <2>16. CASE FailJobOfRequest(r)
    BY <2>1, <2>2, <2>16 DEF FailJobOfRequest, Asks, JobStates, ResourceStates
  <2>17. CASE RecordRun(r)
    <3>1. job'[j].state = job[j].state
      BY <2>17 DEF RecordRun, TypeOK, ControlTypeOK, JobRow
    <3> QED
      BY <2>5, <2>17, <3>1 DEF RecordRun
  <2>18. CASE ApiCrash(r)
    BY <2>5, <2>18 DEF ApiCrash
  <2> QED
    BY <2>7, <2>8, <2>9, <2>10, <2>11, <2>12, <2>13, <2>14, <2>15, <2>16, <2>17, <2>18
       DEF HandlerStep
<1> QED
  BY <1>4, <1>5

\* A step of a cancel handler.
LEMMA CancelEffect ==
    ASSUME TypeOK, NEW c \in Cancels, NEW j \in Jobs,
           CancelRead(c) \/ CancelStep(c) \/ CancelCrash(c)
    PROVE  Elsewhere(j) \/ CancellingStep(c, j)
<1>1. JobOf[c] \in Jobs
  BY ControlAssumption
<1>2. request' = request /\ \A d \in Cancels \ {c} : cancel'[d] = cancel[d]
  BY DEF CancelStep, CancelRead, CancelSignal, CancelJob, CancelResource, CancelCrash, CancelGoto,
         TypeOK, ControlTypeOK
<1>3. \A i \in Jobs : /\ history[i] \subseteq history'[i]
                      /\ JobOf[c] # i => history'[i] = history[i]
  <2>1. history' = history \/ \E e : Note(JobOf[c], e)
    BY DEF CancelStep, CancelRead, CancelSignal, CancelJob, CancelResource, CancelCrash, Suffer
  <2> QED
    BY <1>1, <2>1 DEF Note, TypeOK, ControlTypeOK
<1>4. CASE JobOf[c] # j
  <2>1. resource'[j] = resource[j] /\ job'[j] = job[j] /\ hatchet'[j] = hatchet[j]
    BY <1>4 DEF CancelStep, CancelRead, CancelSignal, CancelJob, CancelResource, CancelCrash,
           SetResource, SetJob, TypeOK, ControlTypeOK
  <2>2. ASSUME NEW w \in Slots
        PROVE  slot'[w] = slot[w] \/ j \notin {slot[w].job, slot'[w].job}
    <3>1. CASE CancelSignal(c)
      <4>1. \/ slot'[w] = slot[w]
            \/ /\ slot[w].job = JobOf[c]
               /\ slot'[w] = [slot[w] EXCEPT !.orphan = TRUE, !.stop = "sent"]
        BY <3>1 DEF CancelSignal
      <4> QED
        BY <1>4, <4>1 DEF TypeOK, ControlTypeOK, Thread
    <3>2. CASE slot' = slot
      BY <3>2
    <3> QED
      BY <3>1, <3>2 DEF CancelStep, CancelRead, CancelJob, CancelResource, CancelCrash
  <2> QED
    BY <1>2, <1>3, <1>4, <2>1, <2>2 DEF Elsewhere
<1>5. CASE JobOf[c] = j
  <2>1. cancel[c].pc = "idle" => "cancel" \in history'[j] /\ resource[j] # "absent"
    BY <1>5 DEF CancelStep, CancelRead, CancelSignal, CancelJob, CancelResource, CancelCrash,
           CancelGoto, Note, TypeOK, ControlTypeOK
  <2>2. ASSUME NEW s \in JobStates, SetJob(j, s)
        PROVE  job'[j].state = s
    BY <2>2 DEF SetJob, TypeOK, ControlTypeOK, JobRow
  <2>3. ASSUME NEW s, SetResource(j, s)
        PROVE  resource'[j] = s
    BY <2>3 DEF SetResource, TypeOK, ControlTypeOK
  <2>4. SUFFICES CancellingStep(c, j)
    OBVIOUS
  <2> USE <1>2, <1>3, <1>5, <2>1 DEF CancellingStep, SameRun, SameRows, Rows
  <2>5. CASE CancelRead(c)
    BY <2>5 DEF CancelRead
  <2>6. CASE CancelSignal(c)
    <3>1. CASE hatchet[j].run = cancel[c].run /\ hatchet[j].status \in {"pending", "active"}
      <4>1. hatchet'[j].status = "done"
        BY <2>6, <3>1 DEF CancelSignal, TypeOK, ControlTypeOK, Run
      <4>2. \A w \in Slots : slot'[w] =
                IF slot[w].job = j /\ ~slot[w].orphan
                THEN [slot[w] EXCEPT !.orphan = TRUE, !.stop = "sent"] ELSE slot[w]
        BY <2>6, <3>1 DEF CancelSignal
      <4> QED
        BY <2>6, <3>1, <4>1, <4>2 DEF CancelSignal
    <3>2. CASE ~(hatchet[j].run = cancel[c].run /\ hatchet[j].status \in {"pending", "active"})
      <4>1. hatchet' = hatchet /\ slot' = slot
        BY <2>6, <3>2 DEF CancelSignal, TypeOK, ControlTypeOK
      <4> QED
        BY <2>6, <4>1 DEF CancelSignal
    <3> QED
      BY <3>1, <3>2
  <2>7. CASE CancelJob(c)
    BY <2>2, <2>7 DEF CancelJob, JobStates, ResourceStates
  <2>8. CASE CancelResource(c)
    BY <2>3, <2>8 DEF CancelResource
  <2>9. CASE CancelCrash(c)
    BY <2>9 DEF CancelCrash
  <2> QED
    BY <2>5, <2>6, <2>7, <2>8, <2>9 DEF CancelStep
<1> QED
  BY <1>4, <1>5

\* Hatchet starts an attempt, or gives up on a run nobody takes.
LEMMA HatchetEffect ==
    ASSUME TypeOK, BusyInv, NEW j \in Jobs, NEW i \in Jobs,
           ScheduleTimeout(i) \/ \E w \in Slots : StartAttempt(w, i)
    PROVE  JobStep(j)
<1>1. ASSUME ScheduleTimeout(i), i # j PROVE Elsewhere(j)
  BY <1>1 DEF ScheduleTimeout, Suffer, Note, Elsewhere, TypeOK, ControlTypeOK
<1>2. ASSUME ScheduleTimeout(j) PROVE GiveUpStep(j)
  BY <1>2
     DEF ScheduleTimeout, Suffer, Note, GiveUpStep, SameRows, Rows, TypeOK, ControlTypeOK, Run
<1>3. ASSUME NEW w \in Slots, StartAttempt(w, i)
      PROVE  /\ i # j => Elsewhere(j)
             /\ i = j => StartStep(w, j)
  <2>1. /\ slot[w].pc = "idle" /\ slot'[w].pc = "read" /\ slot'[w].job = i
        /\ slot'[w].stop = "no" /\ ~slot'[w].orphan
        /\ \A v \in Slots \ {w} : slot'[v] = slot[v]
    BY <1>3 DEF StartAttempt, Busy, IdleSlot, TypeOK, ControlTypeOK
  <2>2. /\ hatchet[i].status = "pending" /\ hatchet'[i].status = "active"
        /\ i # j => hatchet'[j] = hatchet[j]
    BY <1>3 DEF StartAttempt, TypeOK, ControlTypeOK, Run
  <2>3. history[i] \subseteq history'[i] /\ (i # j => history'[j] = history[j])
    BY <1>3 DEF StartAttempt, Note, TypeOK, ControlTypeOK
  <2>4. slot[w].job = None /\ None \notin Jobs
    BY <2>1, ControlAssumption DEF BusyInv
  <2>5. resource' = resource /\ job' = job /\ request' = request /\ cancel' = cancel
    BY <1>3 DEF StartAttempt
  <2> QED
    BY <2>1, <2>2, <2>3, <2>4, <2>5 DEF Elsewhere, StartStep, SameRows, Rows
<1> QED
  BY <1>1, <1>2, <1>3 DEF JobStep

\* Every step is one of these for a job that is still calm after it.
LEMMA NextJobStep ==
    ASSUME TypeOK, BusyInv, [Next]_vars, NEW j \in Jobs, Calm(j)'
    PROVE  JobStep(j)
<1>1. CASE UNCHANGED vars
  BY <1>1 DEF vars, controlVars, JobStep, Elsewhere
<1>2. ASSUME NEW w \in Slots, BodyStep(w)
      PROVE  JobStep(j)
  BY <1>2, BodyEffect DEF JobStep
<1>3. ASSUME NEW r \in Requests,
             Create(r) \/ Replay(r) \/ HandlerStep(r) \/ SubmitFails(r) \/ SubmitAnswerLost(r)
                 \/ ApiCrash(r)
      PROVE  JobStep(j)
  BY <1>3, AskEffect DEF JobStep
<1>4. ASSUME NEW c \in Cancels, CancelRead(c) \/ CancelStep(c) \/ CancelCrash(c)
      PROVE  JobStep(j)
  BY <1>4, CancelEffect DEF JobStep
<1>5. ASSUME NEW w \in Slots,
             UnwindStep(w) \/ Error(w) \/ StoreError(w) \/ WorkerCrash(w) \/ LostWorker(w)
                 \/ Timeout(w)
      PROVE  JobStep(j)
  BY <1>5, ThreadEffect DEF JobStep
<1>6. ASSUME NEW i \in Jobs, ScheduleTimeout(i) \/ \E w \in Slots : StartAttempt(w, i)
      PROVE  JobStep(j)
  BY <1>6, HatchetEffect
<1> QED
  BY <1>1, <1>2, <1>3, <1>4, <1>5, <1>6 DEF Next, ControlNext, FaultStep

\* The record only grows.
LEMMA HistoryGrows ==
    ASSUME TypeOK, [Next]_vars, NEW j \in Jobs
    PROVE  history[j] \subseteq history'[j]
<1>1. CASE UNCHANGED vars
  BY <1>1 DEF vars, controlVars
<1>2. CASE ControlNext
  BY <1>2, ControlNextMoves DEF ControlMoves, TypeOK
<1>3. ASSUME NEW w \in Slots, BodyStep(w)
      PROVE  history' = history
  BY <1>3 DEF BodyStep, Begin, Stage, Reserve, Train, Lookup, CreateModel, FinishResource,
         CheckCancelled, StageWrite, UnchangedControl
<1> QED
  BY <1>1, <1>2, <1>3 DEF Next

-----------------------------------------------------------------------------
(* A calm job: who can be working on it *)

\* Before the resource exists nothing has been asked of Hatchet.
UnbornInv(j) ==
    resource[j] = "absent" =>
        /\ hatchet[j].status = "none"
        /\ \A r \in Requests : JobOf[r] = j => request[r].pc = "idle"

\* One create handler at most submits the job, and before Hatchet has a run.
Submitting == {"submit", "record", "fail_resource", "fail_job"}

SubmitInv(j) ==
    \A r \in Requests : JobOf[r] = j =>
        /\ request[r].pc \notin {"reset_resource", "reset_job"}
        /\ request[r].pc = "submit" => hatchet[j].status = "none"
        /\ request[r].pc \in Submitting =>
              \A q \in Requests : JobOf[q] = j /\ request[q].pc \in Submitting => q = r

\* One attempt at most exists, and Hatchet has its run as active, unless it was
\* cancelled and is written off; an attempt that requeues has a retry left.
AttemptInv(j) ==
    \A w \in Slots : slot[w].job = j =>
        /\ hatchet[j].status = IF slot[w].orphan THEN "done" ELSE "active"
        /\ slot[w].stop # "no" => slot[w].orphan
        /\ slot[w].pc \in {"requeue_resource", "requeue_job"} => slot[w].retry < JOB_RETRIES
        /\ \A v \in Slots : slot[v].job = j => v = w

\* Without a cancel request nothing is cancelled or written off.
CancelPoints == {"cancel_resource", "cancel_job", "execute_cancel_resource", "execute_cancel_job"}

UncancelledInv(j) ==
    "cancel" \notin history[j] =>
        /\ resource[j] # "cancelled" /\ job[j].state # "cancelled"
        /\ \A c \in Cancels : JobOf[c] = j => cancel[c].pc = "idle"
        /\ \A w \in Slots : slot[w].job = j => ~slot[w].orphan /\ slot[w].pc \notin CancelPoints

CalmInv(j) == UnbornInv(j) /\ SubmitInv(j) /\ AttemptInv(j) /\ UncancelledInv(j)

\* The types a proof about one job needs.
LEMMA JobTypes ==
    ASSUME TypeOK, NEW j \in Jobs
    PROVE  /\ hatchet[j].status \in {"none", "pending", "active", "done"}
           /\ \A w \in Slots : slot[w].orphan \in BOOLEAN
           /\ IdleSlot.job = None /\ None \notin Jobs
BY ControlAssumption DEF TypeOK, ControlTypeOK, Run, Thread, IdleSlot

\* Steps about other jobs keep the invariant of a job.
LEMMA ElsewhereCalm ==
    ASSUME NEW j \in Jobs, CalmInv(j), Elsewhere(j)
    PROVE  CalmInv(j)'
<1>1. \A w \in Slots : slot'[w].job = j => slot'[w] = slot[w]
  BY DEF Elsewhere
<1>2. UnbornInv(j)' /\ SubmitInv(j)'
  BY DEF Elsewhere, CalmInv, UnbornInv, SubmitInv
<1>3. AttemptInv(j)' /\ UncancelledInv(j)'
  BY <1>1 DEF Elsewhere, CalmInv, AttemptInv, UncancelledInv
<1> QED
  BY <1>2, <1>3 DEF CalmInv

\* An attempt keeps it.
LEMMA AttemptCalm ==
    ASSUME TypeOK, BusyInv, NEW j \in Jobs, CalmInv(j), NEW w \in Slots, AttemptStep(w, j)
    PROVE  CalmInv(j)'
<1> USE DEF CalmInv, AttemptStep
<1>0. hatchet[j].status \in {"active", "done"} /\ slot[w].pc # "idle"
  BY ControlAssumption DEF AttemptInv, BusyInv
<1>a. resource[j] # "absent" /\ (resource'[j] = resource[j] \/ resource'[j] # "absent")
  BY <1>0 DEF UnbornInv, Silent, Writes, Finishes, Ends, Delivers, SameRows, Rows
<1>b. history[j] \subseteq history'[j]
  BY DEF Silent, Writes, Finishes, Delivers, Advances
<1>c. \A v \in Slots : slot'[v].job = j => v = w
  BY DEF AttemptInv
<1>1. UnbornInv(j)'
  BY <1>a DEF UnbornInv
<1>2. SubmitInv(j)'
  BY <1>0 DEF SubmitInv
<1>3. AttemptInv(j)'
  <2>1. CASE Silent(w, j) \/ Writes(w, j)
    BY <1>c, <2>1 DEF AttemptInv, Silent, Writes, Advances, Moves, Body, Unfinished, Running,
        Early, Late
  <2>2. CASE Finishes(w, j)
    BY <1>c, <2>2, JobTypes DEF AttemptInv, Finishes, Ends
  <2>3. CASE Delivers(w, j)
    BY <1>c, <2>3 DEF AttemptInv, Delivers
  <2> QED
    BY <2>1, <2>2, <2>3
<1>4. UncancelledInv(j)'
  <2> SUFFICES ASSUME "cancel" \notin history'[j] PROVE UncancelledInv(j)'
    BY DEF UncancelledInv
  <2>1. "cancel" \notin history[j]
    BY <1>b
  <2>2. ~slot[w].orphan /\ slot[w].stop = "no" /\ slot[w].pc \notin CancelPoints /\ ~SeesCancel(w)
    BY <2>1 DEF UncancelledInv, AttemptInv, SeesCancel
  <2>3. CASE Silent(w, j) \/ Writes(w, j)
    BY <1>c, <2>1, <2>2, <2>3
       DEF UncancelledInv, CancelPoints, Silent, Writes, Advances, Moves, SameRows, Rows, Body,
           Unfinished, Running, Early, Late
  <2>4. CASE Finishes(w, j)
    BY <1>c, <2>1, <2>4, JobTypes DEF UncancelledInv, Finishes, Ends, SameRows, Rows
  <2>5. CASE Delivers(w, j)
    BY <2>2, <2>5 DEF Delivers
  <2> QED
    BY <2>3, <2>4, <2>5
<1> QED
  BY <1>1, <1>2, <1>3, <1>4

\* Hatchet keeps it.
LEMMA HatchetCalm ==
    ASSUME TypeOK, BusyInv, NEW j \in Jobs, CalmInv(j),
           GiveUpStep(j) \/ \E w \in Slots : StartStep(w, j)
    PROVE  CalmInv(j)'
<1>1. CASE GiveUpStep(j)
  BY <1>1 DEF GiveUpStep, SameRows, Rows, CalmInv, UnbornInv, SubmitInv, AttemptInv, UncancelledInv
<1>2. ASSUME NEW w \in Slots, StartStep(w, j)
      PROVE  CalmInv(j)'
  <2>1. \A v \in Slots : slot[v].job # j
    BY <1>2 DEF StartStep, CalmInv, AttemptInv
  <2>2. \A v \in Slots : slot'[v].job = j => v = w
    BY <1>2, <2>1 DEF StartStep
  <2>3. UnbornInv(j)' /\ SubmitInv(j)'
    BY <1>2 DEF StartStep, SameRows, Rows, CalmInv, UnbornInv, SubmitInv
  <2>4. AttemptInv(j)' /\ UncancelledInv(j)'
    BY <1>2, <2>2
       DEF StartStep, SameRows, Rows, CalmInv, AttemptInv, UncancelledInv, CancelPoints
  <2> QED
    BY <2>3, <2>4 DEF CalmInv
<1> QED
  BY <1>1, <1>2

\* A create handler keeps it.
LEMMA AskCalm ==
    ASSUME TypeOK, BusyInv, NEW j \in Jobs, CalmInv(j), NEW r \in Requests, AskStep(r, j)
    PROVE  CalmInv(j)'
<1> USE JobTypes DEF CalmInv, AskStep, Asks, SameRun, SameRows, Rows
<1>1. UnbornInv(j)'
  BY DEF UnbornInv, SubmitInv
<1>2. SubmitInv(j)'
  <2>1. CASE request[r].pc = "idle"
    BY <2>1 DEF SubmitInv, UnbornInv, Submitting
  <2>2. CASE request[r].pc \in Submitting \cup {"dispatch_required"}
    BY <2>2 DEF SubmitInv, Submitting
  <2>3. CASE request'[r].pc = "done"
    BY <2>3 DEF SubmitInv, Submitting
  <2> QED
    BY <2>1, <2>2, <2>3 DEF Submitting, SubmitInv
<1>3. AttemptInv(j)'
  <2>1. hatchet'[j].status = hatchet[j].status \/ request[r].pc = "submit" \/ resource[j] = "absent"
    BY DEF SubmitInv
  <2>2. ASSUME NEW w \in Slots, slot[w].job = j
        PROVE  hatchet[j].status # "none"
    BY <2>2 DEF AttemptInv
  <2> QED
    BY <2>1, <2>2 DEF AttemptInv, SubmitInv, UnbornInv
<1>4. UncancelledInv(j)'
  BY DEF UncancelledInv, SubmitInv
<1> QED
  BY <1>1, <1>2, <1>3, <1>4

\* A cancel handler keeps it.
LEMMA CancelCalm ==
    ASSUME TypeOK, BusyInv, NEW j \in Jobs, CalmInv(j), NEW c \in Cancels, CancellingStep(c, j)
    PROVE  CalmInv(j)'
<1> USE DEF CalmInv, CancellingStep, SameRun, SameRows, Rows
<1>0. "cancel" \in history'[j]
  BY DEF UncancelledInv
<1>1. UncancelledInv(j)'
  BY <1>0 DEF UncancelledInv
<1>2. UnbornInv(j)' /\ SubmitInv(j)'
  BY DEF UnbornInv, SubmitInv
<1>3. AttemptInv(j)'
  <2>1. CASE SameRun(j) /\ slot' = slot
    BY <2>1 DEF AttemptInv
  <2>2. CASE /\ hatchet[j].status \in {"pending", "active"} /\ hatchet'[j].status = "done"
             /\ \A w \in Slots : slot'[w] =
                   IF slot[w].job = j /\ ~slot[w].orphan
                   THEN [slot[w] EXCEPT !.orphan = TRUE, !.stop = "sent"] ELSE slot[w]
    <3>1. ASSUME NEW t \in Thread, NEW u, u = [t EXCEPT !.orphan = TRUE, !.stop = "sent"]
          PROVE  u.orphan /\ u.pc = t.pc /\ u.retry = t.retry /\ u.job = t.job
      BY <3>1 DEF Thread
    <3>2. \A w \in Slots : slot[w] \in Thread
      BY DEF TypeOK, ControlTypeOK
    <3>3. ASSUME NEW w \in Slots
          PROVE  slot'[w].job = slot[w].job
      BY <2>2, <3>1, <3>2
    <3>4. ASSUME NEW w \in Slots, slot[w].job = j
          PROVE  slot'[w].orphan /\ slot'[w].pc = slot[w].pc /\ slot'[w].retry = slot[w].retry
      <4>1. ~slot[w].orphan
        BY <2>2, <3>4 DEF AttemptInv
      <4> QED
        BY <2>2, <3>1, <3>2, <3>4, <4>1
    <3>5. AttemptInv(j)
      OBVIOUS
    <3>6. ASSUME NEW w \in Slots, slot'[w].job = j
          PROVE  /\ hatchet'[j].status = IF slot'[w].orphan THEN "done" ELSE "active"
                 /\ slot'[w].stop # "no" => slot'[w].orphan
                 /\ slot'[w].pc \in {"requeue_resource", "requeue_job"} =>
                       slot'[w].retry < JOB_RETRIES
                 /\ \A v \in Slots : slot'[v].job = j => v = w
      <4>1. slot[w].job = j /\ hatchet'[j].status = "done"
        BY <2>2, <3>3, <3>6
      <4>2. slot'[w].orphan /\ slot'[w].pc = slot[w].pc /\ slot'[w].retry = slot[w].retry
        BY <3>4, <4>1
      <4>3. \A v \in Slots : slot'[v].job = j => v = w
        BY <3>3, <3>5, <4>1 DEF AttemptInv
      <4> QED
        BY <3>5, <4>1, <4>2, <4>3 DEF AttemptInv
    <3> QED
      BY <3>6 DEF AttemptInv
  <2> QED
    BY <2>1, <2>2
<1> QED
  BY <1>1, <1>2, <1>3

\* The invariant of all the jobs that are calm.
CalmJobs == \A j \in Jobs : Calm(j) => CalmInv(j)

\* Every step keeps the invariant of a calm job.
LEMMA CalmStep ==
    ASSUME TypeOK, BusyInv, NEW j \in Jobs, CalmInv(j), JobStep(j)
    PROVE  CalmInv(j)'
BY ElsewhereCalm, AttemptCalm, HatchetCalm, AskCalm, CancelCalm DEF JobStep

\* A job spared something after a step was spared it before.
LEMMA CalmBefore ==
    ASSUME TypeOK, [Next]_vars, NEW j \in Jobs, NEW events, Spared(j, events)'
    PROVE  Spared(j, events)
BY HistoryGrows DEF Spared

\* CalmJobs holds in every reachable state.
LEMMA CalmJobsInvariance == Spec => []CalmJobs
<1>1. Init => CalmJobs
  BY ControlAssumption DEF Init, ControlInit, IdleSlot, CalmJobs, CalmInv, UnbornInv, SubmitInv,
         AttemptInv, UncancelledInv, Submitting
<1>2. TypeOK /\ BusyInv /\ CalmJobs /\ [Next]_vars => CalmJobs'
  <2> SUFFICES ASSUME TypeOK, BusyInv, CalmJobs, [Next]_vars, NEW j \in Jobs, Calm(j)'
               PROVE  CalmInv(j)'
    BY DEF CalmJobs
  <2>1. CalmInv(j)
    BY CalmBefore DEF CalmJobs, Calm
  <2> QED
    BY <2>1, NextJobStep, CalmStep
<1> QED
  BY <1>1, <1>2, TypedAndBusy, PTL DEF Spec

-----------------------------------------------------------------------------
(* The rows of a job at rest *)

\* The last attempt of a run is about to report its failure to Hatchet.
GivesUp(w) == slot[w].pc = "raise" /\ ~(slot[w].retry < JOB_RETRIES)

\* When an attempt may show the job as queued: before its first stage, and
\* from its decision to retry on.
QueuedInv(j) ==
    /\ hatchet[j].status = "done" /\ job[j].state = "queued" =>
          "worker_crash" \in history[j] /\ hatchet[j].retry = JOB_RETRIES
    /\ resource[j] = "succeeded" => job[j].state # "queued"
    /\ \A w \in Slots : slot[w].job = j =>
          /\ slot[w].pc \in Running \cup {"triage", "return"} \/ GivesUp(w) =>
                job[j].state # "queued"
          /\ slot[w].pc \in {"fail_job", "triage", "requeue_resource", "requeue_job"} =>
                resource[j] # "succeeded"

\* A cancel handler that acts is on record, before and after its step.
LEMMA CancelOnRecord ==
    ASSUME NEW j \in Jobs, CalmInv(j), NEW c \in Cancels, CancellingStep(c, j)
    PROVE  "cancel" \in history'[j]
BY DEF CalmInv, UncancelledInv, CancellingStep

\* An attempt keeps QueuedInv.
LEMMA AttemptQueued ==
    ASSUME TypeOK, BusyInv, NEW j \in Jobs, CalmInv(j), CalmInv(j)', QueuedInv(j),
           "cancel" \notin history[j], NEW w \in Slots, AttemptStep(w, j)
    PROVE  QueuedInv(j)'
<1> USE JobTypes DEF AttemptStep
<1>1. /\ hatchet[j].status = "active" /\ ~slot[w].orphan /\ ~SeesCancel(w)
      /\ slot[w].pc \notin CancelPoints
      /\ slot[w].pc \in {"requeue_resource", "requeue_job"} => slot[w].retry < JOB_RETRIES
      /\ \A v \in Slots : slot'[v].job = j => v = w
  BY DEF CalmInv, AttemptInv, UncancelledInv, SeesCancel
<1>2. CASE Silent(w, j)
  BY <1>1, <1>2
     DEF QueuedInv, Silent, Advances, Moves, SameRows, Rows, GivesUp, Body, Unfinished, Running,
         Early, Late
<1>3. CASE Writes(w, j)
  BY <1>1, <1>3
     DEF QueuedInv, Writes, Advances, Moves, Rows, GivesUp, CancelPoints, Body, Unfinished, Running,
         Early, Late
<1>4. CASE Finishes(w, j)
  BY <1>1, <1>4 DEF QueuedInv, Finishes, Ends, SameRows, Rows, GivesUp
<1>5. CASE Delivers(w, j)
  BY <1>1, <1>5 DEF Delivers, CalmInv, AttemptInv
<1> QED
  BY <1>2, <1>3, <1>4, <1>5

\* Every step keeps it, as long as no cancellation and no expiry is on record.
LEMMA QueuedStep ==
    ASSUME TypeOK, BusyInv, NEW j \in Jobs, CalmInv(j), CalmInv(j)', QueuedInv(j), JobStep(j),
           Spared(j, {"cancel", "unscheduled"}), Spared(j, {"cancel", "unscheduled"})'
    PROVE  QueuedInv(j)'
<1>1. CASE Elsewhere(j)
  <2>1. \A w \in Slots : slot'[w].job = j => slot'[w] = slot[w]
    BY <1>1 DEF Elsewhere
  <2> QED
    BY <1>1, <2>1 DEF Elsewhere, QueuedInv, GivesUp
<1>2. ASSUME NEW w \in Slots, AttemptStep(w, j)
      PROVE  QueuedInv(j)'
  BY <1>2, AttemptQueued DEF Spared
<1>3. ASSUME NEW w \in Slots, StartStep(w, j)
      PROVE  QueuedInv(j)'
  <2>1. \A v \in Slots : slot'[v].job = j => v = w
    BY <1>3 DEF StartStep, CalmInv, AttemptInv
  <2> QED
    BY <1>3, <2>1
       DEF StartStep, SameRows, Rows, QueuedInv, GivesUp, Running, Body, Early, Late
<1>4. ~GiveUpStep(j)
  BY DEF GiveUpStep, Spared
<1>5. ASSUME NEW r \in Requests, AskStep(r, j)
      PROVE  QueuedInv(j)'
  <2>1. CASE resource[j] = "absent"
    <3>1. \A w \in Slots : slot[w].job # j
      BY <2>1 DEF CalmInv, UnbornInv, AttemptInv
    <3> QED
      BY <1>5, <2>1, <3>1
         DEF AskStep, Asks, SameRows, SameRun, Rows, QueuedInv, CalmInv, UnbornInv
  <2>2. CASE resource[j] # "absent"
    BY <1>5, <2>2
       DEF AskStep, Asks, SameRows, SameRun, Rows, QueuedInv, GivesUp, CalmInv, SubmitInv
  <2> QED
    BY <2>1, <2>2
<1>6. ASSUME NEW c \in Cancels PROVE ~CancellingStep(c, j)
  BY CancelOnRecord DEF Spared
<1> QED
  BY <1>1, <1>2, <1>3, <1>4, <1>5, <1>6 DEF JobStep

QueuedJobs == \A j \in Jobs : Calm(j) /\ Spared(j, {"cancel", "unscheduled"}) => QueuedInv(j)

\* A job shown as queued once everything has come to rest, a job nobody will
\* ever run, has been through a replay, a cancellation, a timeout, a lost
\* worker, a store error in a handler, was not taken by any worker, or lost the
\* worker of its last attempt to a crash.
THEOREM QueuedJobsLive == Spec => []QueuedIsLive
<1>1. Init => QueuedJobs
  BY ControlAssumption DEF Init, ControlInit, IdleSlot, QueuedJobs, QueuedInv
<1>2. /\ TypeOK /\ BusyInv /\ CalmJobs /\ CalmJobs' /\ QueuedJobs /\ [Next]_vars
      => QueuedJobs'
  <2> SUFFICES ASSUME TypeOK, BusyInv, CalmJobs, CalmJobs', QueuedJobs, [Next]_vars,
                      NEW j \in Jobs, Calm(j)', Spared(j, {"cancel", "unscheduled"})'
               PROVE  QueuedInv(j)'
    BY DEF QueuedJobs
  <2>1. Calm(j) /\ Spared(j, {"cancel", "unscheduled"})
    BY CalmBefore DEF Calm
  <2>2. QueuedInv(j) /\ CalmInv(j) /\ CalmInv(j)'
    BY <2>1 DEF QueuedJobs, CalmJobs
  <2> QED
    BY <2>1, <2>2, NextJobStep, QueuedStep
<1>3. QueuedJobs => QueuedIsLive
  BY DEF QueuedJobs, QueuedInv, QueuedIsLive, Settled, Calm, Trouble, Spared
<1> QED
  BY <1>1, <1>2, <1>3, TypedAndBusy, CalmJobsInvariance, PTL DEF Spec

\* While Hatchet has the run of a job shown as failed, its attempt is unwinding;
\* a create handler that reports a failure does so before there is a run.
FailedInv(j) ==
    /\ \A r \in Requests : JobOf[r] = j =>
          /\ request[r].pc \in {"fail_resource", "fail_job"} => hatchet[j].status = "none"
          /\ request[r].pc = "submit" => job[j].state # "failed"
    /\ \A w \in Slots : slot[w].job = j /\ slot[w].pc = "raise" /\ ~GivesUp(w) =>
          job[j].state # "failed"
    /\ job[j].state = "failed" /\ hatchet[j].status \in {"pending", "active"} =>
          \E w \in Slots :
              slot[w].job = j
                  /\ slot[w].pc \in {"triage", "requeue_resource", "requeue_job", "raise"}

\* An attempt keeps FailedInv.
LEMMA AttemptFailed ==
    ASSUME TypeOK, BusyInv, NEW j \in Jobs, CalmInv(j), FailedInv(j), NEW w \in Slots,
           "worker_crash" \notin history'[j], AttemptStep(w, j)
    PROVE  FailedInv(j)'
<1> USE JobTypes DEF AttemptStep
<1>1. /\ hatchet[j].status = IF slot[w].orphan THEN "done" ELSE "active"
      /\ slot[w].stop # "no" => slot[w].orphan
      /\ slot[w].pc \in {"requeue_resource", "requeue_job"} => slot[w].retry < JOB_RETRIES
      /\ \A v \in Slots : slot[v].job = j => v = w
      /\ \A v \in Slots : slot'[v].job = j => v = w
  BY DEF CalmInv, AttemptInv
<1>2. /\ hatchet'[j].status # "none"
      /\ \A r \in Requests : JobOf[r] = j =>
            request[r].pc \notin {"submit", "fail_resource", "fail_job"}
  BY <1>1 DEF Silent, Writes, Finishes, Ends, Delivers, Advances, FailedInv, CalmInv, SubmitInv
<1>3. job[j].state = "failed" /\ hatchet[j].status = "active" =>
          slot[w].pc \in {"triage", "requeue_resource", "requeue_job", "raise"}
  BY <1>1 DEF FailedInv
<1>4. slot[w].pc = "raise" /\ ~GivesUp(w) => job[j].state # "failed"
  BY DEF FailedInv
<1>5. CASE Silent(w, j)
  BY <1>1, <1>2, <1>3, <1>4, <1>5
     DEF FailedInv, Silent, Advances, Moves, SameRows, Rows, SeesCancel, GivesUp, Body, Unfinished,
         Running, Early, Late
<1>6. CASE Writes(w, j)
  BY <1>1, <1>2, <1>3, <1>4, <1>6
     DEF FailedInv, Writes, Advances, Moves, Rows, GivesUp, Body, Unfinished, Running, Early, Late
<1>7. CASE Finishes(w, j)
  BY <1>1, <1>2, <1>3, <1>4, <1>7 DEF FailedInv, Finishes, Ends, SameRows, Rows, GivesUp
<1>8. CASE Delivers(w, j)
  BY <1>1, <1>2, <1>3, <1>4, <1>8 DEF FailedInv, Delivers, SameRows, Rows, GivesUp
<1> QED
  BY <1>5, <1>6, <1>7, <1>8

\* Every step keeps it, as long as no attempt crashed and no answer was lost.
LEMMA FailedStep ==
    ASSUME TypeOK, BusyInv, NEW j \in Jobs, CalmInv(j), CalmInv(j)', FailedInv(j), JobStep(j),
           Spared(j, {"worker_crash", "lost_answer"})'
    PROVE  FailedInv(j)'
<1>1. CASE Elsewhere(j)
  <2>1. \A w \in Slots : slot'[w].job = j => slot'[w] = slot[w]
    BY <1>1 DEF Elsewhere
  <2>2. \A w \in Slots : slot[w].job = j => slot'[w] = slot[w]
    BY <1>1 DEF Elsewhere
  <2> QED
    BY <1>1, <2>1, <2>2 DEF Elsewhere, FailedInv, GivesUp
<1>2. ASSUME NEW w \in Slots, AttemptStep(w, j)
      PROVE  FailedInv(j)'
  BY <1>2, AttemptFailed DEF Spared
<1>3. ASSUME NEW w \in Slots, StartStep(w, j)
      PROVE  FailedInv(j)'
  <2>1. /\ \A v \in Slots : slot[v].job # j
        /\ \A v \in Slots : slot'[v].job = j => v = w
    BY <1>3 DEF StartStep, CalmInv, AttemptInv
  <2> QED
    BY <1>3, <2>1 DEF StartStep, SameRows, Rows, FailedInv, GivesUp, CalmInv, SubmitInv
<1>4. CASE GiveUpStep(j)
  BY <1>4 DEF GiveUpStep, SameRows, Rows, FailedInv, GivesUp
<1>5. ASSUME NEW r \in Requests, AskStep(r, j)
      PROVE  FailedInv(j)'
  <2> USE <1>5 DEF AskStep, Asks, SameRows, SameRun, Rows
  <2>1. CASE resource[j] = "absent"
    BY <2>1 DEF FailedInv, CalmInv, UnbornInv, AttemptInv
  <2>2. CASE resource[j] # "absent" /\ request[r].pc \notin Submitting
    BY <2>2 DEF FailedInv, GivesUp, CalmInv, SubmitInv, Submitting
  <2>3. CASE resource[j] # "absent" /\ request[r].pc \in Submitting
    <3>1. /\ \A q \in Requests \ {r} : JobOf[q] = j => request'[q].pc \notin Submitting
          /\ \A q \in Requests : JobOf[q] = j /\ request[q].pc \in Submitting => q = r
      BY <2>3 DEF CalmInv, SubmitInv
    <3>2. request[r].pc # "record" => hatchet[j].status = "none" /\ \A w \in Slots : slot[w].job # j
      BY <2>3 DEF FailedInv, CalmInv, SubmitInv, AttemptInv, Submitting
    <3> QED
      BY <2>3, <3>1, <3>2 DEF FailedInv, GivesUp, CalmInv, SubmitInv, Submitting, Spared
  <2> QED
    BY <2>1, <2>2, <2>3
<1>6. ASSUME NEW c \in Cancels, CancellingStep(c, j)
      PROVE  FailedInv(j)'
  <2> USE <1>6 DEF CancellingStep, SameRun, SameRows, Rows
  <2>1. job'[j].state = job[j].state \/ job'[j].state = "cancelled"
    OBVIOUS
  <2>2. CASE SameRun(j) /\ slot' = slot
    BY <2>1, <2>2 DEF FailedInv, GivesUp
  <2>3. CASE /\ hatchet[j].status \in {"pending", "active"} /\ hatchet'[j].status = "done"
             /\ \A w \in Slots : slot'[w] =
                   IF slot[w].job = j /\ ~slot[w].orphan
                   THEN [slot[w] EXCEPT !.orphan = TRUE, !.stop = "sent"] ELSE slot[w]
    <3>1. ASSUME NEW t \in Thread, NEW u, u = [t EXCEPT !.orphan = TRUE, !.stop = "sent"]
          PROVE  u.pc = t.pc /\ u.retry = t.retry /\ u.job = t.job
      BY <3>1 DEF Thread
    <3>2. \A w \in Slots : slot[w] \in Thread
      BY DEF TypeOK, ControlTypeOK
    <3>3. ASSUME NEW w \in Slots
          PROVE  /\ slot'[w].job = slot[w].job /\ slot'[w].pc = slot[w].pc
                 /\ slot'[w].retry = slot[w].retry
      BY <2>3, <3>1, <3>2
    <3> QED
      BY <2>1, <2>3, <3>3 DEF FailedInv, GivesUp
  <2> QED
    BY <2>2, <2>3
<1> QED
  BY <1>1, <1>2, <1>3, <1>4, <1>5, <1>6 DEF JobStep

FailedJobs == \A j \in Jobs : Calm(j) /\ Spared(j, {"worker_crash", "lost_answer"}) => FailedInv(j)

\* FailedInv holds in every reachable state of a job spared all that could
\* leave a stale failure behind.
LEMMA FailedJobsInvariance == Spec => []FailedJobs
<1>1. Init => FailedJobs
  BY ControlAssumption DEF Init, ControlInit, IdleSlot, FailedJobs, FailedInv
<1>2. TypeOK /\ BusyInv /\ CalmJobs /\ CalmJobs' /\ FailedJobs /\ [Next]_vars => FailedJobs'
  <2> SUFFICES ASSUME TypeOK, BusyInv, CalmJobs, CalmJobs', FailedJobs, [Next]_vars,
                      NEW j \in Jobs, Calm(j)', Spared(j, {"worker_crash", "lost_answer"})'
               PROVE  FailedInv(j)'
    BY DEF FailedJobs
  <2>1. Calm(j) /\ Spared(j, {"worker_crash", "lost_answer"})
    BY CalmBefore DEF Calm
  <2>2. FailedInv(j) /\ CalmInv(j) /\ CalmInv(j)'
    BY <2>1 DEF FailedJobs, CalmJobs
  <2> QED
    BY <2>1, <2>2, NextJobStep, FailedStep
<1> QED
  BY <1>1, <1>2, TypedAndBusy, CalmJobsInvariance, PTL DEF Spec

\* A poller that sees a job failed may take it for the end, although Hatchet
\* still has the run, only while its attempt is between its own failure and the
\* decision to retry, or after one of the named events.
THEOREM FailedAnswerFinal == Spec => []FailedOnlyBetweenAttempts
<1>1. FailedJobs => FailedOnlyBetweenAttempts
  BY DEF FailedJobs, FailedInv, FailedOnlyBetweenAttempts, Calm, Trouble, Spared
<1> QED
  BY <1>1, FailedJobsInvariance, PTL

\* How the two rows follow the run of a job that nothing disturbed but its own
\* errors.
AgreedInv(j) ==
    /\ hatchet[j].status = "done" =>
          resource[j] = job[j].state /\ resource[j] \in {"succeeded", "failed"}
    /\ hatchet[j].status \in {"none", "pending"} => resource[j] # "succeeded"
    /\ \A w \in Slots : slot[w].job = j =>
          /\ slot[w].pc = "return" => resource[j] = "succeeded" /\ job[j].state = "succeeded"
          /\ slot[w].pc = "triage" \/ GivesUp(w) =>
                resource[j] = "failed" /\ job[j].state = "failed"
          /\ slot[w].pc = "fail_job" => resource[j] = "failed"
          /\ slot[w].pc = "finish_job" => resource[j] = "succeeded"
          /\ slot[w].pc \in Unfinished \cup {"requeue_job"} => resource[j] # "succeeded"
          /\ slot[w].pc = "raise" /\ ~GivesUp(w) => resource[j] # "succeeded"

\* An attempt keeps AgreedInv.
LEMMA AttemptAgreed ==
    ASSUME TypeOK, BusyInv, NEW j \in Jobs, CalmInv(j), AgreedInv(j), NEW w \in Slots,
           Spared(j, {"cancel", "worker_crash"}), Spared(j, {"cancel", "worker_crash"})',
           AttemptStep(w, j)
    PROVE  AgreedInv(j)'
<1> USE JobTypes DEF AttemptStep
<1>1. /\ hatchet[j].status = "active" /\ ~slot[w].orphan /\ ~SeesCancel(w)
      /\ slot[w].pc \notin CancelPoints
      /\ slot[w].pc \in {"requeue_resource", "requeue_job"} => slot[w].retry < JOB_RETRIES
      /\ \A v \in Slots : slot'[v].job = j => v = w
  BY DEF CalmInv, AttemptInv, UncancelledInv, SeesCancel, Spared
<1>2. CASE Silent(w, j)
  BY <1>1, <1>2
     DEF AgreedInv, Silent, Advances, Moves, SameRows, Rows, GivesUp, Body, Unfinished, Running,
         Early, Late
<1>3. CASE Writes(w, j)
  BY <1>1, <1>3
     DEF AgreedInv, Writes, Advances, Moves, Rows, GivesUp, CancelPoints, Body, Unfinished, Running,
         Early, Late
<1>4. CASE Finishes(w, j)
  BY <1>1, <1>4 DEF AgreedInv, Finishes, Ends, SameRows, Rows, GivesUp, Spared
<1>5. CASE Delivers(w, j)
  BY <1>1, <1>5 DEF Delivers, CalmInv, AttemptInv
<1> QED
  BY <1>2, <1>3, <1>4, <1>5

\* Every step keeps it, as long as none of the events is on record.
LEMMA AgreedStep ==
    ASSUME TypeOK, BusyInv, NEW j \in Jobs, CalmInv(j), CalmInv(j)', FailedInv(j), AgreedInv(j),
           JobStep(j),
           Spared(j, {"cancel", "worker_crash", "lost_answer", "unscheduled"}),
           Spared(j, {"cancel", "worker_crash", "lost_answer", "unscheduled"})'
    PROVE  AgreedInv(j)'
<1>1. CASE Elsewhere(j)
  <2>1. \A w \in Slots : slot'[w].job = j => slot'[w] = slot[w]
    BY <1>1 DEF Elsewhere
  <2> QED
    BY <1>1, <2>1 DEF Elsewhere, AgreedInv, GivesUp
<1>2. ASSUME NEW w \in Slots, AttemptStep(w, j)
      PROVE  AgreedInv(j)'
  BY <1>2, AttemptAgreed DEF Spared
<1>3. ASSUME NEW w \in Slots, StartStep(w, j)
      PROVE  AgreedInv(j)'
  <2>1. \A v \in Slots : slot'[v].job = j => v = w
    BY <1>3 DEF StartStep, CalmInv, AttemptInv
  <2> QED
    BY <1>3, <2>1
       DEF StartStep, SameRows, Rows, AgreedInv, GivesUp, Unfinished, Body, Early, Late
<1>4. ~GiveUpStep(j)
  BY DEF GiveUpStep, Spared
<1>5. ASSUME NEW r \in Requests, AskStep(r, j)
      PROVE  AgreedInv(j)'
  <2> USE <1>5 DEF AskStep, Asks, SameRows, SameRun, Rows
  <2>1. CASE request[r].pc \in {"idle", "submit", "fail_resource", "fail_job"}
             /\ (request[r].pc = "idle" => resource[j] = "absent")
    <3>1. hatchet[j].status = "none" /\ \A w \in Slots : slot[w].job # j
      BY <2>1 DEF FailedInv, CalmInv, UnbornInv, SubmitInv, AttemptInv
    <3> QED
      BY <2>1, <3>1 DEF AgreedInv, Spared
  <2>2. CASE SameRun(j) /\ SameRows(j)
    BY <2>2 DEF AgreedInv, GivesUp
  <2> QED
    BY <2>1, <2>2 DEF CalmInv, SubmitInv
<1>6. ASSUME NEW c \in Cancels PROVE ~CancellingStep(c, j)
  BY CancelOnRecord DEF Spared
<1> QED
  BY <1>1, <1>2, <1>3, <1>4, <1>5, <1>6 DEF JobStep

Disturbances == {"cancel", "worker_crash", "lost_answer", "unscheduled"}
AgreedJobs == \A j \in Jobs : Calm(j) /\ Spared(j, Disturbances) => AgreedInv(j)

\* At rest the two rows a client can poll give the same, final answer, unless
\* the job went through one of the named events.
THEOREM SettledRows == Spec => []SettledRowsAgree
<1>1. Init => AgreedJobs
  BY ControlAssumption DEF Init, ControlInit, IdleSlot, AgreedJobs, AgreedInv
<1>2. /\ TypeOK /\ BusyInv /\ CalmJobs /\ CalmJobs' /\ FailedJobs /\ AgreedJobs /\ [Next]_vars
      => AgreedJobs'
  <2> SUFFICES ASSUME TypeOK, BusyInv, CalmJobs, CalmJobs', FailedJobs, AgreedJobs, [Next]_vars,
                      NEW j \in Jobs, Calm(j)', Spared(j, Disturbances)'
               PROVE  AgreedInv(j)'
    BY DEF AgreedJobs
  <2>1. Calm(j) /\ Spared(j, Disturbances)
    BY CalmBefore DEF Calm, Disturbances
  <2>2. AgreedInv(j) /\ CalmInv(j) /\ CalmInv(j)'
    BY <2>1 DEF AgreedJobs, CalmJobs
  <2>3. FailedInv(j)
    BY <2>1 DEF FailedJobs, Spared, Disturbances
  <2> QED
    BY <2>1, <2>2, <2>3, NextJobStep, AgreedStep DEF Disturbances
<1>3. AgreedJobs => SettledRowsAgree
  BY DEF AgreedJobs, AgreedInv, SettledRowsAgree, Settled, Calm, Trouble, Disturbances, Spared
<1> QED
  BY <1>1, <1>2, <1>3, TypedAndBusy, CalmJobsInvariance, FailedJobsInvariance, PTL DEF Spec

=============================================================================
