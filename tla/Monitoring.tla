------------------------------ MODULE Monitoring ------------------------------
(***************************************************************************)
(* Runtime.monitoring: the predictions of the forecasts of one model,      *)
(* matched with the actuals that clients have posted.  The two lists are   *)
(* read in one transaction each, and then a file per forecast, while other *)
(* processes create, finish, fail and repeat forecasts, post actuals, and  *)
(* share the cache of the r2 store.                                        *)
(*                                                                         *)
(* A key is an item and a time.  The predictions of a forecast are the     *)
(* keys it covers, with values that stand for their bytes and digest.      *)
(***************************************************************************)
EXTENDS Integers, FiniteSetsExt

CONSTANTS
    Forecasts,  \* numbers, in the order of created_at
    Keys,
    Bytes,      \* what the predictions of a forecast can be
    Backends,   \* object stores the service may be configured with
    None

ASSUME MonitoringAssumption ==
    /\ Forecasts \subseteq Nat /\ \E f \in Forecasts : \A g \in Forecasts : g <= f
    /\ Backends \subseteq {"local", "r2"}
    /\ None \notin Bytes

VARIABLES
    backend,   \* the configured object store
    covers,    \* the keys of each forecast, as its request has them
    state,     \* its row: "absent", "queued", "failed" or "succeeded",
    recorded,  \* and the digest in its prediction_object
    stored,    \* its predictions.json in the object store
    cached,    \* the digests in the r2 cache of this host
    actuals,   \* the keys for which an actual has been posted
    call,      \* the call to monitoring: its program counter and locals
    report,    \* its outcome: "none" yet, "failed" at a forecast, or "done" with scores
    previous,  \* the scores of the last call that was done before it
    unsettled  \* forecasts whose success was taken back, repeated or overlapped (auxiliary)

rowVars == <<backend, covers, state, recorded, stored, cached, actuals, unsettled>>
callVars == <<call, report, previous>>
monitoringVars == <<rowVars, callVars>>

NoCall == [pc |-> "idle", listed |-> {}, points |-> {}, predicted |-> << >>]

NoReport == [outcome |-> "none", at |-> None, scores |-> << >>]

MonitoringInit ==
    /\ backend \in Backends
    /\ covers \in [Forecasts -> SUBSET Keys]
    /\ state = [f \in Forecasts |-> "absent"]
    /\ recorded = [f \in Forecasts |-> None]
    /\ stored = [f \in Forecasts |-> None]
    /\ cached = {}
    /\ actuals = {}
    /\ call = NoCall
    /\ report = NoReport /\ previous = << >>
    /\ unsettled = {}

-----------------------------------------------------------------------------
(* Forecasts and actuals *)

\* What happens to a forecast that shows as succeeded unsettles it.
Unsettle(f) == unsettled' = IF state[f] = "succeeded" THEN unsettled \cup {f} ELSE unsettled

\* created_at is set before the transaction: an older row may be committed later.
Create(f) ==
    /\ state[f] = "absent"
    /\ state' = [state EXCEPT ![f] = "queued"]
    /\ UNCHANGED <<backend, covers, recorded, stored, cached, actuals, unsettled>>

\* An attempt puts its predictions in the place of earlier ones, also one that
\* goes on while its retry has succeeded, ...
StorePredictions(f, bytes) ==
    /\ state[f] # "absent"
    /\ stored' = [stored EXCEPT ![f] = bytes]
    /\ Unsettle(f)
    /\ UNCHANGED <<backend, covers, state, recorded, cached, actuals>>

\* ... and records their digest with its success.
Succeed(f) ==
    /\ state[f] # "absent" /\ stored[f] # None
    /\ state' = [state EXCEPT ![f] = "succeeded"]
    /\ recorded' = [recorded EXCEPT ![f] = stored[f]]
    /\ UNCHANGED <<backend, covers, stored, cached, actuals, unsettled>>

\* An attempt that overlaps its retry records the digest of its own file, which
\* is no longer there.
SucceedOverlapped(f, digest) ==
    /\ state[f] # "absent" /\ stored[f] \notin {None, digest}
    /\ state' = [state EXCEPT ![f] = "succeeded"]
    /\ recorded' = [recorded EXCEPT ![f] = digest]
    /\ unsettled' = unsettled \cup {f}
    /\ UNCHANGED <<backend, covers, stored, cached, actuals>>

\* The attempt fails, or is stopped; its submission reports an error.  Either can
\* come after the forecast row has said succeeded: the update of the job row that
\* follows raises, the answer of Hatchet is lost.
Fail(f) ==
    /\ state[f] \in {"queued", "succeeded"}
    /\ state' = [state EXCEPT ![f] = "failed"]
    /\ Unsettle(f)
    /\ UNCHANGED <<backend, covers, recorded, stored, cached, actuals>>

\* _execute schedules a retry, or a repeated request queues a forecast whose job
\* has no run id, succeeded or not.
Requeue(f) ==
    /\ state[f] \in {"failed", "succeeded"}
    /\ state' = [state EXCEPT ![f] = "queued"]
    /\ Unsettle(f)
    /\ UNCHANGED <<backend, covers, recorded, stored, cached, actuals>>

PostActuals(keys) ==
    /\ keys \cap actuals = {}
    /\ actuals' = actuals \cup keys
    /\ UNCHANGED <<backend, covers, state, recorded, stored, cached, unsettled>>

\* Other requests on this host download files into the cache, and prune it.
OthersCache ==
    /\ backend = "r2"
    /\ cached' \in SUBSET (cached \cup ({stored[f] : f \in Forecasts} \ {None}))
    /\ UNCHANGED <<backend, covers, state, recorded, stored, actuals, unsettled>>

-----------------------------------------------------------------------------
(* monitoring *)

UnchangedRows == UNCHANGED <<backend, covers, state, recorded, stored, actuals, unsettled>>

\* store.list of the forecasts that have succeeded, with what their rows say.
ListForecasts ==
    /\ call.pc = "idle"
    /\ call' = [NoCall EXCEPT !.pc = "actuals",
            !.listed = {[forecast |-> f, digest |-> recorded[f]] :
                f \in {f \in Forecasts : state[f] = "succeeded"}}]
    /\ previous' = IF report.outcome = "done" THEN report.scores ELSE previous
    /\ report' = NoReport
    /\ UNCHANGED cached

ListActuals ==
    /\ call.pc = "actuals"
    /\ call' = [call EXCEPT !.pc = "materialize", !.points = actuals]
    /\ UNCHANGED <<report, previous, cached>>

\* Mistake: from the oldest to the youngest.
NextListedOldest == CHOOSE l \in call.listed : \A m \in call.listed : l.forecast <= m.forecast

\* The list has the youngest forecast first.
NextListed == CHOOSE l \in call.listed : \A m \in call.listed : m.forecast <= l.forecast

\* An exception leaves the call.
FailCall ==
    /\ call' = NoCall
    /\ report' = [NoReport EXCEPT !.outcome = "failed", !.at = NextListed.forecast]

\* materialize: the local file must have the digest on record; r2 trusts its
\* cache, and otherwise checks what it downloads, and prunes.
MaterializePredictions ==
    LET l == NextListed IN
    /\ call.pc = "materialize" /\ call.listed # {}
    /\ \/ /\ IF backend = "local" THEN stored[l.forecast] = l.digest ELSE l.digest \in cached
          /\ call' = [call EXCEPT !.pc = "open"]
          /\ UNCHANGED <<report, cached>>
       \/ /\ backend = "r2" /\ l.digest \notin cached /\ stored[l.forecast] = l.digest
          /\ \E kept \in SUBSET cached : cached' = kept \cup {l.digest}
          /\ call' = [call EXCEPT !.pc = "open"]
          /\ UNCHANGED report
       \/ /\ stored[l.forecast] # l.digest
          /\ backend = "r2" => l.digest \notin cached
          /\ FailCall
          /\ UNCHANGED cached
    /\ UNCHANGED previous

\* The file is opened and read.  On local disk it may by now be another one; in
\* the cache it may be gone, or be the empty file of a touch that came after a
\* prune.  A prediction replaces one that was read before it.
ReadPredictions ==
    LET l == NextListed
        read == [l EXCEPT !.digest = IF backend = "local" THEN stored[l.forecast] ELSE @]
    IN
    /\ call.pc = "open"
    /\ \/ /\ backend = "r2" => l.digest \in cached
          /\ call' = [call EXCEPT !.pc = "materialize", !.listed = @ \ {l},
                !.predicted = [k \in DOMAIN @ \cup covers[l.forecast] |->
                    IF k \in covers[l.forecast] THEN read ELSE @[k]]]
          /\ UNCHANGED report
       \/ backend = "r2" /\ FailCall
    /\ UNCHANGED <<previous, cached>>

\* The actuals that have a prediction, and which.
Match ==
    /\ call.pc = "materialize" /\ call.listed = {}
    /\ report' = [NoReport EXCEPT !.outcome = "done",
            !.scores = [k \in call.points \cap DOMAIN call.predicted |-> call.predicted[k]]]
    /\ call' = NoCall
    /\ UNCHANGED <<previous, cached>>

MonitoringStep ==
    ListForecasts \/ ListActuals \/ MaterializePredictions \/ ReadPredictions \/ Match

MonitoringNext ==
    \/ /\ \/ \E f \in Forecasts : Create(f) \/ Succeed(f) \/ Fail(f) \/ Requeue(f)
          \/ \E f \in Forecasts, bytes \in Bytes :
                StorePredictions(f, bytes) \/ SucceedOverlapped(f, bytes)
          \/ \E keys \in SUBSET Keys \ {{}} : PostActuals(keys)
          \/ OthersCache
       /\ UNCHANGED callVars
    \/ MonitoringStep /\ UnchangedRows

MonitoringSpec == MonitoringInit /\ [][MonitoringNext]_monitoringVars

-----------------------------------------------------------------------------
(* Properties *)

\* What a report says stands: a later one has every point of it, scored with the
\* same prediction, or with that of a forecast created even earlier, which has
\* succeeded only now; the oldest forecast of a point is the one that counts,
\* not the latest.  Only a forecast whose success was taken back, or that was run
\* again, or twice at a time, has points taken back or scored anew; and on local
\* disk only such a forecast makes a call fail half-way.
ReportsStand ==
    /\ report.outcome = "failed" => backend = "r2" \/ report.at \in unsettled
    /\ report.outcome = "done" =>
        \A k \in DOMAIN previous :
            \/ previous[k].forecast \in unsettled
            \/ /\ k \in DOMAIN report.scores
               /\ \/ report.scores[k] = previous[k]
                  \/ report.scores[k].forecast < previous[k].forecast

=============================================================================
