----------------------------- MODULE ForecastRuns -----------------------------
(***************************************************************************)
(* Forecast jobs: JobControl with the body of Runtime.run_forecast, for    *)
(* models that ModelRegistry promotes and retires meanwhile.               *)
(*                                                                         *)
(* create_forecast looks at the state of the model before it looks at the  *)
(* idempotency key, so that a request that repeats an earlier one can be   *)
(* refused.  An attempt looks at its cancellation once more between the    *)
(* prediction and the file it stores under the key of the forecast.        *)
(***************************************************************************)
EXTENDS JobControl, ModelRegistry

CONSTANTS
    ModelOf,  \* the model of each forecast
    Contents  \* what the predictions of an attempt can be

ASSUME ForecastAssumption == ModelOf \in [Jobs -> Models] /\ None \notin Contents

VARIABLES
    admitted,  \* what each request was told of its model: "no" (not read yet),
               \* "yes", or "refused" (409)
    stored,    \* the predictions.json of each forecast in the object store
    recorded,  \* the contents whose digest is in each row's prediction_object
    made       \* run_forecast's local prediction_ref, per thread

rowVars == <<admitted, stored, recorded>>
forecastVars == <<rowVars, made>>
vars == <<controlVars, registryVars, forecastVars>>

Init ==
    /\ ControlInit
    /\ RegistryInit
    /\ admitted = [r \in Requests |-> "no"]
    /\ stored = [j \in Jobs |-> None]
    /\ recorded = [j \in Jobs |-> None]
    /\ made = [w \in Slots |-> None]

-----------------------------------------------------------------------------
(* create_forecast *)

\* Mistake: a request for a forecast that exists is refused.
AdmitOnce(r) ==
    /\ request[r].pc = "idle" /\ admitted[r] = "no"
    /\ admitted' = [admitted EXCEPT ![r] =
            IF ModelOf[JobOf[r]] \in ready /\ resource[JobOf[r]] = "absent"
            THEN "yes" ELSE "refused"]
    /\ UNCHANGED <<controlVars, registryVars, stored, recorded, made>>

\* The first read of the handler: 409 unless the model is ready.
Admit(r) ==
    /\ request[r].pc = "idle" /\ admitted[r] = "no"
    /\ admitted' = [admitted EXCEPT ![r] =
            IF ModelOf[JobOf[r]] \in ready THEN "yes" ELSE "refused"]
    /\ UNCHANGED <<controlVars, registryVars, stored, recorded, made>>

\* create_idempotent comes after it, in a transaction of its own.
Enters(r) == admitted[r] = "yes" /\ (Create(r) \/ Replay(r))

-----------------------------------------------------------------------------
(* run_forecast, on thread w *)

UnchangedControl == UNCHANGED <<resource, job, hatchet, request, cancel, history>>

\* Mistake: a forecast that has succeeded is run once more.
BeginAgain(w) ==
    /\ Goto(w, "read", "check_validating")
    /\ UnchangedControl
    /\ UNCHANGED forecastVars

\* Read the forecast: return if an earlier attempt finished it.
Begin(w) ==
    /\ slot[w].pc = "read"
    /\ Goto(w, "read",
            IF resource[slot[w].job] = "succeeded" THEN "return" ELSE "check_validating")
    /\ UnchangedControl
    /\ UNCHANGED forecastVars

\* _stage, twice, and _check_cancelled once more.  What is read and computed
\* between them touches no shared state; where it raises, Error is taken.
Stage(w) ==
    /\ \/ CheckCancelled(w, "check_validating", "write_validating")
       \/ StageWrite(w, "write_validating", "check_predicting")
       \/ CheckCancelled(w, "check_predicting", "write_predicting")
       \/ StageWrite(w, "write_predicting", "check_storing")
       \/ CheckCancelled(w, "check_storing", "put")
    /\ UNCHANGED forecastVars

\* put_file of predictions.json: what an earlier attempt has put is replaced.
StorePredictions(w) ==
    /\ Goto(w, "put", "finish_resource")
    /\ \E c \in Contents :
          /\ stored' = [stored EXCEPT ![slot[w].job] = c]
          /\ made' = [made EXCEPT ![w] = c]
    /\ UnchangedControl
    /\ UNCHANGED <<admitted, recorded>>

\* The forecast has succeeded, with this object.
FinishResource(w) ==
    LET j == slot[w].job IN
    /\ Goto(w, "finish_resource", "finish_job")
    /\ SetResource(j, "succeeded")
    /\ recorded' = [recorded EXCEPT ![j] = made[w]]
    /\ UNCHANGED <<job, hatchet, request, cancel, history, admitted, stored, made>>

BodyStep(w) == Begin(w) \/ Stage(w) \/ StorePredictions(w) \/ FinishResource(w)

\* The steps of the control plane a forecast job takes after its creation.
ForecastControlNext ==
    \/ \E r \in Requests : Enters(r) \/ HandlerStep(r)
    \/ \E c \in Cancels : CancelRead(c) \/ CancelStep(c)
    \/ \E w \in Slots, j \in Jobs : StartAttempt(w, j)
    \/ \E w \in Slots : UnwindStep(w) \/ Error(w)
    \/ FaultStep

\* They touch no forecast row; the local of an attempt ends with it.
LocalsEnd ==
    /\ made' = [w \in Slots |-> IF slot'[w].pc = "idle" THEN None ELSE made[w]]
    /\ UNCHANGED rowVars

Next ==
    \/ \E r \in Requests : Admit(r)
    \/ \E w \in Slots : BodyStep(w) /\ UNCHANGED registryVars
    \/ ForecastControlNext /\ LocalsEnd /\ UNCHANGED registryVars
    \/ RegistryNext /\ UNCHANGED <<controlVars, forecastVars>>

Spec == Init /\ [][Next]_vars

-----------------------------------------------------------------------------
(* The type invariant *)

\* Program points of the try body, up to the last check for a cancellation and
\* after it.
Early == {"read", "check_validating", "write_validating", "check_predicting",
          "write_predicting", "check_storing"}
Late == {"put", "finish_resource", "finish_job"}
SlotPoints == Early \cup Late \cup Unwinding \cup {"idle"}

Thread == [pc : SlotPoints, job : Jobs \cup {None}, run : Nat, retry : 0..JOB_RETRIES,
           stop : {"no", "sent", "yes"}, orphan : BOOLEAN]

ControlTypeOK ==
    /\ resource \in [Jobs -> ResourceStates]
    /\ job \in [Jobs -> JobRow]
    /\ hatchet \in [Jobs -> Run]
    /\ slot \in [Slots -> Thread]
    /\ request \in [Requests -> Handler]
    /\ cancel \in [Cancels -> Canceller]
    /\ history \in [Jobs -> SUBSET Events]

TypeOK ==
    /\ ControlTypeOK
    /\ RegistryTypeOK
    /\ admitted \in [Requests -> {"no", "yes", "refused"}]
    /\ stored \in [Jobs -> Contents \cup {None}]
    /\ recorded \in [Jobs -> Contents \cup {None}]
    /\ made \in [Slots -> Contents \cup {None}]

-----------------------------------------------------------------------------
(* Safety *)

\* A forecast that shows as succeeded, in either row, has a reference in its row
\* and a file in the store, and unless two attempts overlapped the file is the
\* one the reference was taken of, so that it can be downloaded: whatever workers
\* died, updates failed and requests were repeated, no attempt leaves its file
\* under the success of another.
SucceededIsReadable ==
    \A j \in Jobs : "succeeded" \in {resource[j], job[j].state} =>
        /\ recorded[j] # None /\ stored[j] # None
        /\ Spared(j, {"overlap"}) => stored[j] = recorded[j]

\* A client that repeats its request gets the job to Hatchet although the API
\* died before it submitted, unless the model was retired meanwhile: the check of
\* the model comes before the idempotency key, so that the repeated request is
\* refused and the forecast it has created stays queued.
StrandedOnlyByRetirement ==
    \A j \in Jobs :
        /\ resource[j] # "absent" /\ hatchet[j].run = 0
        /\ "dispatch_error" \notin history[j]
        /\ Cardinality({r \in Requests : JobOf[r] = j}) > 1
        /\ \A r \in Requests : JobOf[r] = j => request[r].pc = "done" \/ admitted[r] = "refused"
        => ModelOf[j] \notin ready

=============================================================================
