-------------------------- MODULE ForecastRunsProofs --------------------------
(***************************************************************************)
(* Proofs about forecast jobs and the registry of models they are made     *)
(* from, for any number of jobs, threads, requests, models, promotions and *)
(* retirements.                                                            *)
(***************************************************************************)
EXTENDS ForecastRuns, FiniteSetTheorems, TLAPS

\* Forecast jobs leave the registry to its own operations: ForecastRuns
\* implements RegistrySpec.
THEOREM ImplementsRegistry == Spec => RegistrySpec
<1>1. Init => RegistryInit
  BY DEF Init
<1>2. [Next]_vars => [RegistryNext]_registryVars
  BY DEF Next, vars, Admit
<1> QED
  BY <1>1, <1>2, PTL DEF Spec, RegistrySpec

-----------------------------------------------------------------------------
(* The registry: its inductive invariant *)

Done(p) == promotion[p].pc = "done"

\* Promotions under way at once are on record; and a champion that a promotion
\* under way will not demote is the model of one that it raced.
Met(p, q) == {p, q} \in raced

RacedInv ==
    /\ \A p, q \in Promotions : UnderWay(p) /\ UnderWay(q) /\ p # q => Met(p, q)
    /\ \A p \in Promotions : UnderWay(p) =>
          \A m \in Champions \ promotion[p].todo :
              \E q \in Promotions : Target[q] = m /\ Met(p, q)
    /\ \A m, n \in Champions : m # n =>
          \E p, q \in Promotions : Target[p] = m /\ Target[q] = n /\ Met(p, q)

\* A champion was promoted by a request that is done, or it was the champion
\* before any request was, and everybody under way will demote it.
OriginInv ==
    \A m \in Champions :
        \/ \E p \in Promotions : Done(p) /\ Target[p] = m
        \/ \A p \in Promotions : ~Done(p) /\ (UnderWay(p) => m \in promotion[p].todo)

RegistryInv == RegistryTypeOK /\ RacedInv /\ OriginInv /\ ChampionRemains

\* The pairs on record have no order, and stay while the record does.
LEMMA MetIsSymmetric == \A p, q : Met(p, q) <=> Met(q, p)
<1>1. \A p, q : {p, q} = {q, p}
  OBVIOUS
<1> QED
  BY <1>1, Zenon DEF Met

LEMMA MetStays == raced' = raced => \A p, q : Met(p, q)' <=> Met(p, q)
BY Zenon DEF Met

\* The invariant holds of models just trained, one perhaps a champion already.
LEMMA InitRegistryInv == RegistryInit => RegistryInv
<1> SUFFICES ASSUME RegistryInit PROVE RegistryInv
  OBVIOUS
<1>1. \A p \in Promotions : promotion[p].pc = "idle"
  BY DEF RegistryInit
<1>2. \A m, n \in Champions : m = n
  BY DEF RegistryInit, Champions
<1>3. RegistryTypeOK
  BY DEF RegistryInit, RegistryTypeOK
<1> QED
  BY <1>1, <1>2, <1>3 DEF RegistryInv, RacedInv, OriginInv, ChampionRemains, UnderWay, Done

\* A refused promotion changes nothing but its program counter.
LEMMA RefuseInv ==
    ASSUME RegistryInv, NEW p \in Promotions, RefusePromotion(p)
    PROVE  RegistryInv'
<1> USE DEF RegistryInv, RegistryTypeOK
<1>1. RegistryTypeOK'
  BY DEF RefusePromotion
<1>2. Champions' = Champions
  BY DEF RefusePromotion, Champions
<1>3. \A q \in Promotions : (UnderWay(q)' <=> UnderWay(q)) /\ (Done(q)' <=> Done(q))
          /\ promotion'[q].todo = promotion[q].todo
  BY DEF RefusePromotion, UnderWay, Done
<1>4. RacedInv'
  <2>1. \A q, o : Met(q, o)' <=> Met(q, o)
    BY MetStays, Zenon DEF RefusePromotion
  <2> QED
    BY <1>2, <1>3, <2>1, Zenon DEF RacedInv
<1>5. OriginInv'
  BY <1>2, <1>3 DEF OriginInv
<1>6. ChampionRemains'
  BY <1>2, <1>3 DEF ChampionRemains, RefusePromotion, Done
<1> QED
  BY <1>1, <1>4, <1>5, <1>6

\* A promotion that begins has every champion in its list, and is on record as
\* racing whoever is under way.
LEMMA ListInv ==
    ASSUME RegistryInv, NEW p \in Promotions, ListChampions(p)
    PROVE  RegistryInv'
<1> USE DEF RegistryInv, RegistryTypeOK
<1>1. RegistryTypeOK'
  BY DEF ListChampions, Champions, UnderWay
<1>2. Champions' = Champions
  BY DEF ListChampions, Champions
<1>3. UnderWay(p)' /\ promotion'[p].todo = Champions /\ ~Done(p) /\ ~Done(p)'
  BY DEF ListChampions, UnderWay, Done
<1>4. \A q \in Promotions \ {p} : (UnderWay(q)' <=> UnderWay(q)) /\ (Done(q)' <=> Done(q))
          /\ promotion'[q].todo = promotion[q].todo
  BY DEF ListChampions, UnderWay, Done
<1>5. RacedInv'
  <2>1. /\ \A q, o : Met(q, o) => Met(q, o)'
        /\ \A q \in Promotions : UnderWay(q) => Met(p, q)' /\ Met(q, p)'
    <3>1. raced' = raced \cup {{p, q} : q \in {q \in Promotions : UnderWay(q)}}
      BY DEF ListChampions
    <3>2. \A q : {q, p} = {p, q}
      OBVIOUS
    <3> QED
      BY <3>1, <3>2, Zenon DEF Met
  <2>2. \A q, o \in Promotions : UnderWay(q)' /\ UnderWay(o)' /\ q # o => Met(q, o)'
    <3> SUFFICES ASSUME NEW q \in Promotions, NEW o \in Promotions, UnderWay(q)', UnderWay(o)', q # o
                 PROVE  Met(q, o)'
      OBVIOUS
    <3>1. CASE q = p
      BY <1>4, <2>1, <3>1
    <3>2. CASE o = p
      BY <1>4, <2>1, <3>2
    <3>3. CASE q # p /\ o # p
      BY <1>4, <2>1, <3>3 DEF RacedInv
    <3> QED
      BY <3>1, <3>2, <3>3
  <2>3. ASSUME NEW q \in Promotions, UnderWay(q)', NEW m \in Champions' \ promotion'[q].todo
        PROVE  \E o \in Promotions : Target[o] = m /\ Met(q, o)'
    <3>1. q # p
      BY <1>2, <1>3, <2>3
    <3>2. UnderWay(q) /\ m \in Champions \ promotion[q].todo
      BY <1>2, <1>4, <2>3, <3>1
    <3>3. PICK o \in Promotions : Target[o] = m /\ Met(q, o)
      BY <3>2 DEF RacedInv
    <3> QED
      BY <2>1, <3>3
  <2>4. ASSUME NEW m \in Champions, NEW n \in Champions, m # n
        PROVE  \E q, o \in Promotions : Target[q] = m /\ Target[o] = n /\ Met(q, o)'
    <3>1. PICK q, o \in Promotions : Target[q] = m /\ Target[o] = n /\ Met(q, o)
      BY <2>4 DEF RacedInv
    <3> QED
      BY <2>1, <3>1
  <2> QED
    BY <1>2, <2>2, <2>3, <2>4 DEF RacedInv
<1>6. OriginInv'
  BY <1>2, <1>3, <1>4 DEF OriginInv
<1>7. ChampionRemains'
  BY <1>3 DEF ChampionRemains
<1> QED
  BY <1>1, <1>5, <1>6, <1>7

\* A demotion takes a champion off the table and off the list.
LEMMA DemoteInv ==
    ASSUME RegistryInv, NEW p \in Promotions, Demote(p)
    PROVE  RegistryInv'
<1> USE DEF RegistryInv, RegistryTypeOK
<1>1. PICK m \in promotion[p].todo :
          /\ stage' = [stage EXCEPT ![m] = "candidate"]
          /\ promotion' = [promotion EXCEPT ![p].todo = @ \ {m}]
  BY DEF Demote
<1>2. RegistryTypeOK'
  BY <1>1 DEF Demote
<1>3. Champions' = Champions \ {m}
  BY <1>1 DEF Champions
<1>4. \A q \in Promotions : (UnderWay(q)' <=> UnderWay(q)) /\ (Done(q)' <=> Done(q))
          /\ promotion[q].todo \ {m} \subseteq promotion'[q].todo
  BY <1>1 DEF UnderWay, Done
<1>5. RacedInv'
  <2>1. \A q, o : Met(q, o)' <=> Met(q, o)
    BY MetStays, Zenon DEF Demote
  <2>2. ASSUME NEW q \in Promotions, UnderWay(q)', NEW n \in Champions' \ promotion'[q].todo
        PROVE  UnderWay(q) /\ n \in Champions \ promotion[q].todo
    BY <1>3, <1>4, <2>2
  <2> QED
    BY <1>3, <1>4, <2>1, <2>2 DEF RacedInv
<1>6. OriginInv'
  BY <1>3, <1>4 DEF OriginInv
<1>7. ChampionRemains'
  BY <1>4 DEF ChampionRemains, Demote
<1> QED
  BY <1>2, <1>5, <1>6, <1>7

\* The model that is promoted joins the champions no list has left.
LEMMA PromoteInv ==
    ASSUME RegistryInv, NEW p \in Promotions, Promote(p)
    PROVE  RegistryInv'
<1> USE DEF RegistryInv, RegistryTypeOK
<1>a. Target[p] \in Models
  BY RegistryAssumption
<1>1. RegistryTypeOK'
  BY <1>a DEF Promote, UnderWay
<1>2. Champions' = Champions \cup {Target[p]}
  BY <1>a DEF Promote, Champions
<1>3. UnderWay(p) /\ promotion[p].todo = {} /\ ~UnderWay(p)' /\ Done(p)'
  BY DEF Promote, UnderWay, Done
<1>4. \A q \in Promotions \ {p} : (UnderWay(q)' <=> UnderWay(q)) /\ (Done(q)' <=> Done(q))
          /\ promotion'[q].todo = promotion[q].todo
  BY DEF Promote, UnderWay, Done
<1>5. RacedInv'
  <2>1. \A q, o : (Met(q, o)' <=> Met(q, o)) /\ (Met(q, o) <=> Met(o, q))
    BY MetStays, MetIsSymmetric, Zenon DEF Promote
  <2>2. ASSUME NEW m \in Champions
        PROVE  \E q \in Promotions : Target[q] = m /\ Met(p, q)
    BY <1>3, <2>2 DEF RacedInv
  <2>3. \A q, o \in Promotions : UnderWay(q)' /\ UnderWay(o)' /\ q # o => Met(q, o)'
    BY <1>3, <1>4, <2>1, Zenon DEF RacedInv
  <2>4. ASSUME NEW q \in Promotions, UnderWay(q)', NEW m \in Champions' \ promotion'[q].todo
        PROVE  \E o \in Promotions : Target[o] = m /\ Met(q, o)'
    <3>1. q # p /\ UnderWay(q) /\ promotion'[q].todo = promotion[q].todo
      BY <1>3, <1>4, <2>4
    <3>2. CASE m = Target[p]
      BY <1>3, <2>1, <3>1, <3>2 DEF RacedInv
    <3>3. CASE m \in Champions
      BY <2>1, <2>4, <3>1, <3>3 DEF RacedInv
    <3> QED
      BY <1>2, <2>4, <3>2, <3>3
  <2>5. ASSUME NEW m \in Champions', NEW n \in Champions', m # n
        PROVE  \E q, o \in Promotions : Target[q] = m /\ Target[o] = n /\ Met(q, o)'
    <3>1. CASE m = Target[p]
      BY <1>2, <2>1, <2>2, <2>5, <3>1
    <3>2. CASE n = Target[p]
      <4>1. PICK q \in Promotions : Target[q] = m /\ Met(p, q)
        BY <1>2, <2>2, <2>5, <3>2
      <4> QED
        BY <2>1, <3>2, <4>1
    <3>3. CASE m \in Champions /\ n \in Champions
      BY <2>1, <2>5, <3>3 DEF RacedInv
    <3> QED
      BY <1>2, <2>5, <3>1, <3>2, <3>3
  <2> QED
    BY <2>3, <2>4, <2>5, Zenon DEF RacedInv
<1>6. OriginInv'
  <2> SUFFICES ASSUME NEW m \in Champions'
               PROVE  \E q \in Promotions : Done(q)' /\ Target[q] = m
    BY DEF OriginInv
  <2>1. CASE m = Target[p]
    BY <1>3, <2>1
  <2>2. CASE m \in Champions
    <3>1. PICK q \in Promotions : Done(q) /\ Target[q] = m
      BY <1>3, <2>2 DEF OriginInv
    <3>2. Done(q)'
      BY <1>3, <1>4, <3>1
    <3> QED
      BY <3>1, <3>2
  <2> QED
    BY <1>2, <2>1, <2>2
<1>7. ChampionRemains'
  BY <1>2 DEF ChampionRemains
<1> QED
  BY <1>1, <1>5, <1>6, <1>7

\* A promotion that dies is not under way, and leaves fewer champions at worst.
LEMMA AbandonInv ==
    ASSUME RegistryInv, NEW p \in Promotions, AbandonPromotion(p)
    PROVE  RegistryInv'
<1> USE DEF RegistryInv, RegistryTypeOK
<1>1. RegistryTypeOK'
  BY DEF AbandonPromotion
<1>2. Champions' = Champions
  BY DEF AbandonPromotion, Champions
<1>3. ~UnderWay(p)' /\ ~Done(p)' /\ ~Done(p)
  BY DEF AbandonPromotion, UnderWay, Done
<1>4. \A q \in Promotions \ {p} : (UnderWay(q)' <=> UnderWay(q)) /\ (Done(q)' <=> Done(q))
          /\ promotion'[q].todo = promotion[q].todo
  BY DEF AbandonPromotion, UnderWay, Done
<1>5. RacedInv'
  <2>1. \A q, o : Met(q, o)' <=> Met(q, o)
    BY MetStays, Zenon DEF AbandonPromotion
  <2> QED
    BY <1>2, <1>3, <1>4, <2>1 DEF RacedInv
<1>6. OriginInv'
  BY <1>2, <1>3, <1>4 DEF OriginInv
<1>7. ChampionRemains'
  BY DEF ChampionRemains, AbandonPromotion
<1> QED
  BY <1>1, <1>5, <1>6, <1>7

\* A champion that is retired is one a request has promoted, if any request is
\* done at all.
LEMMA RetireInv ==
    ASSUME RegistryInv, NEW t \in Retirements, Retire(t)
    PROVE  RegistryInv'
<1> USE DEF RegistryInv, RegistryTypeOK
<1>a. Target[t] \in Models
  BY RegistryAssumption
<1>1. RegistryTypeOK'
  BY DEF Retire
<1>2. Champions' = Champions \ {Target[t]}
  BY <1>a DEF Retire, Champions
<1>3. \A q \in Promotions : (UnderWay(q)' <=> UnderWay(q)) /\ (Done(q)' <=> Done(q))
  BY DEF Retire, UnderWay, Done
<1>4. RacedInv'
  <2>1. \A q, o : Met(q, o)' <=> Met(q, o)
    BY MetStays, Zenon DEF Retire
  <2>2. \A q \in Promotions : promotion'[q].todo = promotion[q].todo
    BY DEF Retire
  <2> QED
    BY <1>2, <1>3, <2>1, <2>2 DEF RacedInv
<1>5. OriginInv'
  BY <1>2, <1>3 DEF OriginInv, Retire
<1>6. ChampionRemains'
  <2>1. CASE Target[t] \in Champions
    <3>1. ASSUME NEW p \in Promotions, Done(p)
          PROVE  \E q \in Promotions : Done(q)' /\ Target[q] \notin ready'
      <4>1. PICK q \in Promotions : Done(q) /\ Target[q] = Target[t]
        BY <2>1, <3>1 DEF OriginInv
      <4> QED
        BY <1>3, <4>1 DEF Retire
    <3> QED
      BY <1>3, <3>1 DEF ChampionRemains, Done
  <2>2. CASE Target[t] \notin Champions
    BY <1>2, <1>3, <2>2 DEF ChampionRemains, Retire, Done
  <2> QED
    BY <2>1, <2>2
<1> QED
  BY <1>1, <1>4, <1>5, <1>6

\* Every step keeps the invariant.
LEMMA NextRegistryInv == RegistryInv /\ [RegistryNext]_registryVars => RegistryInv'
<1> SUFFICES ASSUME RegistryInv, [RegistryNext]_registryVars PROVE RegistryInv'
  OBVIOUS
<1>1. CASE RegistryNext
  BY <1>1, RefuseInv, ListInv, DemoteInv, PromoteInv, AbandonInv, RetireInv DEF RegistryNext
<1>2. CASE UNCHANGED registryVars
  <2> USE <1>2 DEF registryVars
  <2>1. RegistryTypeOK' /\ OriginInv' /\ ChampionRemains'
    BY DEF RegistryInv, RegistryTypeOK, OriginInv, ChampionRemains, Champions, UnderWay, Done
  <2>2. /\ Champions' = Champions /\ promotion' = promotion
        /\ \A q, o : Met(q, o)' <=> Met(q, o)
        /\ \A q : UnderWay(q)' <=> UnderWay(q)
    BY MetStays DEF Champions, UnderWay
  <2>3. RacedInv'
    BY <2>2 DEF RegistryInv, RacedInv
  <2> QED
    BY <2>1, <2>3 DEF RegistryInv
<1> QED
  BY <1>1, <1>2

\* The invariant of the registry, in the composed system.
THEOREM RegistryInvariance == Spec => []RegistryInv
  BY InitRegistryInv, NextRegistryInv, ImplementsRegistry, PTL DEF RegistrySpec

\* Two champions of a dataset are the models of two promotions that overlapped
\* one another, whatever others did, died or retired meanwhile.
THEOREM ChampionsOnlyRace == Spec => []ChampionsRaced
<1>1. RegistryInv => ChampionsRaced
  BY Zenon DEF RegistryInv, RacedInv, ChampionsRaced, Met
<1> QED
  BY <1>1, RegistryInvariance, PTL

\* Once promotions are over a champion remains, however they overlapped.
THEOREM SomeChampion == Spec => []ChampionRemains
<1>1. RegistryInv => ChampionRemains
  BY DEF RegistryInv
<1> QED
  BY <1>1, RegistryInvariance, PTL

-----------------------------------------------------------------------------
(* Type correctness of the composed system *)

\* Updating one field keeps the type of each table.
LEMMA PcType ==
    ASSUME slot \in [Slots -> Thread], NEW w \in Slots, NEW p \in SlotPoints
    PROVE  [slot EXCEPT ![w].pc = p] \in [Slots -> Thread]
BY DEF Thread

\* Stopping a thread, or writing its attempt off, keeps its type.
LEMMA OrphanType ==
    ASSUME NEW t \in Thread, NEW s \in {"no", "sent", "yes"}
    PROVE  /\ [t EXCEPT !.stop = s] \in Thread
           /\ [t EXCEPT !.orphan = TRUE] \in Thread
           /\ [t EXCEPT !.orphan = TRUE, !.stop = s] \in Thread
BY DEF Thread

\* Writing the state of a job keeps the type of the table.
LEMMA StateType ==
    ASSUME job \in [Jobs -> JobRow], NEW j, NEW s \in JobStates
    PROVE  [job EXCEPT ![j].state = s] \in [Jobs -> JobRow]
BY DEF JobRow

\* Moving a create handler keeps its type.
LEMMA RequestPcType ==
    ASSUME request \in [Requests -> Handler], NEW r \in Requests,
           NEW p \in {"idle", "dispatch_required", "reset_resource", "reset_job", "submit",
                      "record", "fail_resource", "fail_job", "done"}
    PROVE  /\ [request EXCEPT ![r].pc = p] \in [Requests -> Handler]
           /\ \A n \in Nat : [request EXCEPT ![r] = [pc |-> p, run |-> n]] \in [Requests -> Handler]
BY DEF Handler

\* Moving a cancel handler keeps its type.
LEMMA CancelPcType ==
    ASSUME cancel \in [Cancels -> Canceller], NEW c \in Cancels,
           NEW p \in {"idle", "signal", "cancel_job", "cancel_resource", "done"}
    PROVE  /\ [cancel EXCEPT ![c].pc = p] \in [Cancels -> Canceller]
           /\ \A n \in Nat : [cancel EXCEPT ![c] = [pc |-> p, run |-> n]] \in [Cancels -> Canceller]
BY DEF Canceller

\* Recording a run keeps the type of the job table.
LEMMA RecordType ==
    ASSUME job \in [Jobs -> JobRow], NEW j, NEW n \in Nat
    PROVE  [job EXCEPT ![j].run = n] \in [Jobs -> JobRow]
BY DEF JobRow

\* Changing the status of a run keeps its type.
LEMMA StatusType ==
    ASSUME hatchet \in [Jobs -> Run], NEW j, NEW s \in {"none", "pending", "active", "done"}
    PROVE  [hatchet EXCEPT ![j].status = s] \in [Jobs -> Run]
BY DEF Run

\* A new run has the type of a run.
LEMMA NewRunType ==
    ASSUME hatchet \in [Jobs -> Run], NEW j \in Jobs, NewRun(j)
    PROVE  hatchet' \in [Jobs -> Run]
BY ControlAssumption DEF NewRun, Run

\* The end of an attempt leaves a run.
LEMMA AttemptOverType ==
    ASSUME hatchet \in [Jobs -> Run], NEW w \in Slots, NEW s \in {"pending", "done"},
           NEW n \in 0..JOB_RETRIES, AttemptOver(w, s, n)
    PROVE  hatchet' \in [Jobs -> Run]
BY DEF AttemptOver, Run

\* Recording a fault or a race keeps the type of the record.
LEMMA HistoryType ==
    ASSUME history \in [Jobs -> SUBSET Events], NEW j, NEW e \in Events, Note(j, e) \/ Suffer(j, e)
    PROVE  history' \in [Jobs -> SUBSET Events]
BY DEF Note, Suffer

\* The steps of a create handler, of a cancel handler and of a thread keep the
\* types of the control variables.
LEMMA HandlerType ==
    ASSUME ControlTypeOK, NEW r \in Requests,
           Create(r) \/ Replay(r) \/ HandlerStep(r) \/ SubmitFails(r) \/ SubmitAnswerLost(r)
               \/ ApiCrash(r)
    PROVE  ControlTypeOK'
<1>a. JobOf[r] \in Jobs
  BY ControlAssumption
<1> USE <1>a, RequestPcType, StateType, HistoryType
    DEF ControlTypeOK, ResourceStates, JobStates, SetResource, SetJob, RequestGoto
<1>1. CASE Create(r)
  BY <1>1 DEF Create
<1>2. CASE Replay(r)
  BY <1>2 DEF Replay
<1>3. CASE DispatchRequired(r)
  <2>1. history' \in [Jobs -> SUBSET Events]
    BY <1>3 DEF DispatchRequired, Events
  <2>2. request' \in [Requests -> Handler]
    <3>1. CASE RequestGoto(r, "dispatch_required", "done")
      BY <3>1
    <3>2. CASE RequestGoto(r, "dispatch_required", "reset_resource")
      BY <3>2
    <3> QED
      BY <1>3, <3>1, <3>2 DEF DispatchRequired
  <2> QED
    BY <1>3, <2>1, <2>2 DEF DispatchRequired
<1>4. CASE ResetResource(r)
  BY <1>4 DEF ResetResource
<1>5. CASE ResetJob(r)
  BY <1>5 DEF ResetJob
<1>6. CASE SubmitAccepted(r)
  <2>1. hatchet' \in [Jobs -> Run]
    BY <1>6, NewRunType DEF SubmitAccepted
  <2>2. hatchet'[JobOf[r]].run \in Nat
    BY <2>1 DEF Run
  <2> QED
    BY <1>6, <2>1, <2>2 DEF SubmitAccepted
<1>7. CASE SubmitCollides(r)
  BY <1>7 DEF SubmitCollides
<1>8. CASE SubmitFails(r)
  BY <1>8 DEF SubmitFails, Events, FaultKinds
<1>9. CASE SubmitAnswerLost(r)
  BY <1>9, NewRunType DEF SubmitAnswerLost, Events, FaultKinds
<1>10. CASE FailResourceOfRequest(r)
  BY <1>10 DEF FailResourceOfRequest
<1>11. CASE FailJobOfRequest(r)
  BY <1>11 DEF FailJobOfRequest
<1>12. CASE RecordRun(r)
  <2>1. request[r].run \in Nat
    BY DEF Handler
  <2> QED
    BY <1>12, <2>1, RecordType DEF RecordRun
<1>13. CASE ApiCrash(r)
  BY <1>13 DEF ApiCrash, Events, FaultKinds
<1> QED
  BY <1>1, <1>2, <1>3, <1>4, <1>5, <1>6, <1>7, <1>8, <1>9, <1>10, <1>11, <1>12, <1>13
     DEF HandlerStep

\* The steps of a cancel handler.
LEMMA CancelType ==
    ASSUME ControlTypeOK, NEW c \in Cancels, CancelRead(c) \/ CancelStep(c) \/ CancelCrash(c)
    PROVE  ControlTypeOK'
<1>a. JobOf[c] \in Jobs
  BY ControlAssumption
<1> USE <1>a, CancelPcType, StateType, HistoryType
    DEF ControlTypeOK, ResourceStates, JobStates, SetResource, SetJob, CancelGoto
<1>1. CASE CancelRead(c)
  <2>1. job[JobOf[c]].run \in Nat
    BY DEF JobRow
  <2> QED
    BY <1>1, <2>1 DEF CancelRead, Events
<1>2. CASE CancelSignal(c)
  <2>1. hatchet' \in [Jobs -> Run]
    BY <1>2, StatusType DEF CancelSignal
  <2>2. slot' \in [Slots -> Thread]
    BY <1>2, OrphanType DEF CancelSignal
  <2> QED
    BY <1>2, <2>1, <2>2 DEF CancelSignal
<1>3. CASE CancelJob(c)
  BY <1>3 DEF CancelJob
<1>4. CASE CancelResource(c)
  BY <1>4 DEF CancelResource
<1>5. CASE CancelCrash(c)
  BY <1>5 DEF CancelCrash, Events, FaultKinds
<1> QED
  BY <1>1, <1>2, <1>3, <1>4, <1>5 DEF CancelStep

\* The steps of a thread.
LEMMA ThreadType ==
    ASSUME ControlTypeOK, NEW w \in Slots,
           \/ UnwindStep(w) \/ Error(w) \/ StoreError(w)
           \/ WorkerCrash(w) \/ LostWorker(w) \/ Timeout(w)
           \/ \E j \in Jobs : StartAttempt(w, j)
    PROVE  ControlTypeOK'
<1>a. IdleSlot \in Thread
  BY ControlAssumption DEF IdleSlot, Thread, SlotPoints
<1>b. Unwinding \subseteq SlotPoints
  BY DEF SlotPoints
<1>c. slot[w] \in Thread
  BY DEF ControlTypeOK
<1>d. /\ slot[w].retry \in 0..JOB_RETRIES
      /\ slot[w].retry < JOB_RETRIES => slot[w].retry + 1 \in 0..JOB_RETRIES
      /\ RecoveredRetries(w) \subseteq 0..JOB_RETRIES
  BY <1>c, ControlAssumption DEF Thread, RecoveredRetries
<1> USE <1>b, PcType, StateType, HistoryType
    DEF ControlTypeOK, ResourceStates, JobStates, SetResource, SetJob, Goto,
        Unwinding, Handling, Executing
<1>1. CASE FinishJob(w)
  BY <1>1 DEF FinishJob
<1>2. CASE DeliverStop(w)
  BY <1>2, <1>c, OrphanType DEF DeliverStop
<1>3. CASE SlotCancelResource(w, "cancel_resource", "cancel_job")
  BY <1>3 DEF SlotCancelResource
<1>4. CASE SlotCancelResource(w, "execute_cancel_resource", "execute_cancel_job")
  BY <1>4 DEF SlotCancelResource
<1>5. ASSUME NEW here, SlotCancelJob(w, here)
      PROVE  ControlTypeOK'
  BY <1>5 DEF SlotCancelJob
<1>6. CASE SlotFailResource(w)
  BY <1>6 DEF SlotFailResource
<1>7. CASE SlotFailJob(w)
  BY <1>7 DEF SlotFailJob
<1>8. CASE Triage(w)
  <2>1. slot' \in [Slots -> Thread]
    <3>1. CASE Goto(w, "triage", "execute_cancel_resource")
      BY <3>1
    <3>2. CASE Goto(w, "triage", "requeue_resource")
      BY <3>2
    <3>3. CASE Goto(w, "triage", "raise")
      BY <3>3
    <3> QED
      BY <1>8, <3>1, <3>2, <3>3 DEF Triage
  <2> QED
    BY <1>8, <2>1 DEF Triage
<1>9. CASE RequeueResource(w)
  BY <1>9 DEF RequeueResource
<1>10. CASE RequeueJob(w)
  BY <1>10 DEF RequeueJob
<1>11. CASE Return(w)
  BY <1>11, <1>a, <1>d, AttemptOverType DEF Return
<1>12. CASE Raise(w)
  BY <1>12, <1>a, <1>d, AttemptOverType DEF Raise
<1>13. CASE Error(w)
  BY <1>13 DEF Error
<1>14. CASE StoreError(w)
  BY <1>14 DEF StoreError, Events, FaultKinds
<1>15. CASE WorkerCrash(w)
  BY <1>15, <1>a, <1>d, AttemptOverType DEF WorkerCrash, Recover, Events, FaultKinds
<1>16. CASE LostWorker(w)
  BY <1>16, <1>c, <1>d, AttemptOverType, OrphanType DEF LostWorker, Recover, Events, FaultKinds
<1>17. CASE Timeout(w)
  BY <1>17, <1>c, <1>d, AttemptOverType, OrphanType DEF Timeout, Events, FaultKinds
<1>18. CASE \E j \in Jobs : StartAttempt(w, j)
  <2> PICK j \in Jobs : StartAttempt(w, j)
    BY <1>18
  <2>1. hatchet' \in [Jobs -> Run] /\ hatchet[j] \in Run
    BY StatusType DEF StartAttempt
  <2>2. slot' \in [Slots -> Thread]
    BY <1>a, <2>1 DEF StartAttempt, IdleSlot, Thread, Run, SlotPoints, Early
  <2> QED
    BY <2>1, <2>2 DEF StartAttempt, Events
<1> QED
  BY <1>1, <1>2, <1>3, <1>4, <1>5, <1>6, <1>7, <1>8, <1>9, <1>10, <1>11, <1>12, <1>13,
     <1>14, <1>15, <1>16, <1>17, <1>18 DEF UnwindStep


\* A step of the control plane keeps the types of its variables.
LEMMA ControlType ==
    ASSUME ControlTypeOK, ControlNext
    PROVE  ControlTypeOK'
<1>1. ASSUME NEW r \in Requests,
             Create(r) \/ Replay(r) \/ HandlerStep(r) \/ SubmitFails(r) \/ SubmitAnswerLost(r)
                 \/ ApiCrash(r)
      PROVE  ControlTypeOK'
  BY <1>1, HandlerType
<1>2. ASSUME NEW c \in Cancels, CancelRead(c) \/ CancelStep(c) \/ CancelCrash(c)
      PROVE  ControlTypeOK'
  BY <1>2, CancelType
<1>3. ASSUME NEW w \in Slots,
             \/ UnwindStep(w) \/ Error(w) \/ StoreError(w)
             \/ WorkerCrash(w) \/ LostWorker(w) \/ Timeout(w)
             \/ \E j \in Jobs : StartAttempt(w, j)
      PROVE  ControlTypeOK'
  BY <1>3, ThreadType
<1>4. ASSUME NEW j \in Jobs, ScheduleTimeout(j)
      PROVE  ControlTypeOK'
  BY <1>4, StatusType, HistoryType DEF ScheduleTimeout, ControlTypeOK, Events, FaultKinds
<1> QED
  BY <1>1, <1>2, <1>3, <1>4 DEF ControlNext, FaultStep

\* A stage moves its thread from a point it reaches before the last check for a
\* cancellation to a later one, or to the cancellation path if there is a stop.
LEMMA StageMoves ==
    ASSUME NEW w \in Slots, Stage(w)
    PROVE  /\ \E here \in Early, next \in Early \cup {"put", "cancel_resource"} :
                 Goto(w, here, next)
           /\ job' = job \/ SetJob(slot[w].job, "running")
<1> USE DEF Early
<1>1. CASE StageWrite(w, "write_validating", "check_predicting")
  BY <1>1 DEF StageWrite, Goto
<1>2. CASE StageWrite(w, "write_predicting", "check_storing")
  BY <1>2 DEF StageWrite, Goto
<1>3. CASE CheckCancelled(w, "check_validating", "write_validating")
  BY <1>3 DEF CheckCancelled, Goto
<1>4. CASE CheckCancelled(w, "check_predicting", "write_predicting")
  BY <1>4 DEF CheckCancelled, Goto
<1>5. CASE CheckCancelled(w, "check_storing", "put")
  BY <1>5 DEF CheckCancelled, Goto
<1> QED
  BY <1>1, <1>2, <1>3, <1>4, <1>5 DEF Stage

\* A step of the run method keeps the types.
LEMMA BodyType ==
    ASSUME TypeOK, NEW w \in Slots, BodyStep(w), slot[w].job \in Jobs
    PROVE  /\ ControlTypeOK'
           /\ admitted' = admitted
           /\ stored' \in [Jobs -> Contents \cup {None}]
           /\ recorded' \in [Jobs -> Contents \cup {None}]
           /\ made' \in [Slots -> Contents \cup {None}]
<1> USE DEF TypeOK, ControlTypeOK, forecastVars, rowVars
<1>1. CASE Begin(w)
  <2>1. slot' \in [Slots -> Thread]
    BY <1>1, PcType DEF Begin, Goto, SlotPoints, Early, Unwinding
  <2> QED
    BY <1>1, <2>1 DEF Begin, UnchangedControl
<1>2. CASE Stage(w)
  <2>1. slot' \in [Slots -> Thread]
    <3>1. PICK here \in Early, next \in Early \cup {"put", "cancel_resource"} :
              Goto(w, here, next)
      BY <1>2, StageMoves
    <3>2. next \in SlotPoints
      BY DEF SlotPoints, Late, Unwinding, Handling
    <3> QED
      BY <3>1, <3>2, PcType DEF Goto
  <2>2. job' \in [Jobs -> JobRow]
    <3>1. CASE SetJob(slot[w].job, "running")
      BY <3>1, StateType DEF SetJob, JobStates
    <3> QED
      BY <1>2, <3>1, StageMoves
  <2> QED
    BY <1>2, <2>1, <2>2 DEF Stage, CheckCancelled, StageWrite
<1>3. CASE StorePredictions(w)
  <2>1. slot' \in [Slots -> Thread]
    BY <1>3, PcType DEF StorePredictions, Goto, SlotPoints, Late
  <2>2. PICK c \in Contents :
            stored' = [stored EXCEPT ![slot[w].job] = c] /\ made' = [made EXCEPT ![w] = c]
    BY <1>3 DEF StorePredictions
  <2> QED
    BY <1>3, <2>1, <2>2 DEF StorePredictions, UnchangedControl
<1>4. CASE FinishResource(w)
  <2>1. slot' \in [Slots -> Thread]
    BY <1>4, PcType DEF FinishResource, Goto, SlotPoints, Late
  <2>2. made[w] \in Contents \cup {None}
    OBVIOUS
  <2> QED
    BY <1>4, <2>1, <2>2 DEF FinishResource, SetResource, ResourceStates
<1> QED
  BY <1>1, <1>2, <1>3, <1>4 DEF BodyStep

-----------------------------------------------------------------------------
(* How the steps of the control plane move the threads and report success *)

\* What a control step may do to a thread: leave it where it is, free it, send
\* it into the error and cancellation paths ...
Stays(w) == slot'[w].pc = slot[w].pc /\ slot'[w].job = slot[w].job
Freed(w) == slot'[w] = IdleSlot
Unwinds(w) == slot[w].pc # "idle" /\ slot'[w].pc \in Unwinding /\ slot'[w].job = slot[w].job

\* ... or start an attempt, which is recorded when it overlaps with another one.
Starts(w) ==
    /\ slot[w].pc = "idle" /\ slot'[w].pc = "read"
    /\ slot'[w].job \in Jobs
    /\ \A v \in Slots : slot[v].job = slot'[w].job => "overlap" \in history'[slot'[w].job]
    /\ \A v \in Slots \ {w} : slot'[v] = slot[v]

ControlMoves ==
    /\ \/ \A w \in Slots : Stays(w) \/ Freed(w) \/ Unwinds(w)
       \/ \E w \in Slots : Starts(w)
    /\ \A j \in Jobs : history[j] \subseteq history'[j]
    /\ \A j \in Jobs : resource'[j] = "succeeded" => resource[j] = "succeeded"
    /\ \A j \in Jobs : job'[j].state = "succeeded" =>
          \/ job[j].state = "succeeded"
          \/ \E w \in Slots : slot[w].pc = "finish_job" /\ slot[w].job = j

\* A create handler leaves the threads alone and reports no success.
LEMMA HandlerMoves ==
    ASSUME ControlTypeOK, NEW r \in Requests,
           Create(r) \/ Replay(r) \/ HandlerStep(r) \/ SubmitFails(r) \/ SubmitAnswerLost(r)
               \/ ApiCrash(r)
    PROVE  ControlMoves
<1>1. slot' = slot
  BY DEF HandlerStep, Create, Replay, DispatchRequired, ResetResource, ResetJob, SubmitAccepted,
         SubmitCollides, SubmitFails, SubmitAnswerLost, FailResourceOfRequest, FailJobOfRequest,
         RecordRun, ApiCrash
<1>2. history' = history \/ \E e : Note(JobOf[r], e)
  BY DEF HandlerStep, Create, Replay, DispatchRequired, ResetResource, ResetJob, SubmitAccepted,
         SubmitCollides, SubmitFails, SubmitAnswerLost, FailResourceOfRequest, FailJobOfRequest,
         RecordRun, ApiCrash, Suffer
<1>3. resource' = resource \/ \E s \in {"queued", "failed"} : SetResource(JobOf[r], s)
  BY DEF HandlerStep, Create, Replay, DispatchRequired, ResetResource, ResetJob, SubmitAccepted,
         SubmitCollides, SubmitFails, SubmitAnswerLost, FailResourceOfRequest, FailJobOfRequest,
         RecordRun, ApiCrash
<1>4. \/ job' = job
      \/ \E s \in {"queued", "failed"} : SetJob(JobOf[r], s)
      \/ job' = [job EXCEPT ![JobOf[r]].run = request[r].run]
  BY DEF HandlerStep, Create, Replay, DispatchRequired, ResetResource, ResetJob, SubmitAccepted,
         SubmitCollides, SubmitFails, SubmitAnswerLost, FailResourceOfRequest, FailJobOfRequest,
         RecordRun, ApiCrash
<1>5. \A j \in Jobs : history[j] \subseteq history'[j]
  BY <1>2 DEF Note, ControlTypeOK
<1>6. \A j \in Jobs : resource'[j] = "succeeded" => resource[j] = "succeeded"
  BY <1>3 DEF SetResource, ControlTypeOK
<1>7. \A j \in Jobs : job'[j].state = "succeeded" => job[j].state = "succeeded"
  <2>1. CASE \E s \in {"queued", "failed"} : SetJob(JobOf[r], s)
    BY <2>1 DEF SetJob, ControlTypeOK, JobRow
  <2>2. ASSUME job' = [job EXCEPT ![JobOf[r]].run = request[r].run], NEW j \in Jobs
        PROVE  job'[j].state = job[j].state
    BY <2>2 DEF ControlTypeOK, JobRow
  <2> QED
    BY <1>4, <2>1, <2>2
<1> QED
  BY <1>1, <1>5, <1>6, <1>7 DEF ControlMoves, Stays

\* A cancel handler stops threads but does not move them.
LEMMA CancelMoves ==
    ASSUME ControlTypeOK, NEW c \in Cancels, CancelRead(c) \/ CancelStep(c) \/ CancelCrash(c)
    PROVE  ControlMoves
<1>1. \A w \in Slots : Stays(w)
  <2>1. CASE CancelSignal(c)
    <3>1. ASSUME NEW w \in Slots
          PROVE  slot'[w] = slot[w] \/ slot'[w] = [slot[w] EXCEPT !.orphan = TRUE, !.stop = "sent"]
      BY <2>1 DEF CancelSignal
    <3>2. ASSUME NEW w \in Slots
          PROVE  slot[w] \in Thread
      BY DEF ControlTypeOK
    <3> QED
      BY <3>1, <3>2 DEF Stays, Thread
  <2>2. CASE slot' = slot
    BY <2>2 DEF Stays
  <2> QED
    BY <2>1, <2>2 DEF CancelStep, CancelRead, CancelJob, CancelResource, CancelCrash
<1>2. history' = history \/ \E e : Note(JobOf[c], e)
  BY DEF CancelStep, CancelRead, CancelSignal, CancelJob, CancelResource, CancelCrash, Suffer
<1>3. resource' = resource \/ SetResource(JobOf[c], "cancelled")
  BY DEF CancelStep, CancelRead, CancelSignal, CancelJob, CancelResource, CancelCrash
<1>4. job' = job \/ SetJob(JobOf[c], "cancelled")
  BY DEF CancelStep, CancelRead, CancelSignal, CancelJob, CancelResource, CancelCrash
<1>5. \A j \in Jobs : history[j] \subseteq history'[j]
  BY <1>2 DEF Note, ControlTypeOK
<1>6. \A j \in Jobs : resource'[j] = "succeeded" => resource[j] = "succeeded"
  BY <1>3 DEF SetResource, ControlTypeOK
<1>7. \A j \in Jobs : job'[j].state = "succeeded" => job[j].state = "succeeded"
  BY <1>4 DEF SetJob, ControlTypeOK, JobRow
<1> QED
  BY <1>1, <1>5, <1>6, <1>7 DEF ControlMoves

\* A thread that unwinds or suffers a fault disturbs no other.
LEMMA ThreadMoves ==
    ASSUME ControlTypeOK, NEW w \in Slots,
           UnwindStep(w) \/ Error(w) \/ StoreError(w) \/ WorkerCrash(w) \/ LostWorker(w)
               \/ Timeout(w)
    PROVE  ControlMoves
<1>1. \A v \in Slots \ {w} : slot'[v] = slot[v]
  BY DEF UnwindStep, FinishJob, DeliverStop, SlotCancelResource, SlotCancelJob, SlotFailResource,
         SlotFailJob, Triage, RequeueResource, RequeueJob, Return, Raise, Error, StoreError,
         WorkerCrash, LostWorker, Timeout, Goto, ControlTypeOK
<1>2. Stays(w) \/ Freed(w) \/ Unwinds(w)
  <2>1. ASSUME NEW here \in Unwinding \cup {"finish_job"}, NEW next \in Unwinding,
               Goto(w, here, next)
        PROVE  Unwinds(w)
    BY <2>1 DEF Goto, Unwinds, Unwinding, Handling, Executing, ControlTypeOK, Thread
  <2> USE DEF Unwinding, Handling, Executing
  <2>2. CASE FinishJob(w)
    BY <2>1, <2>2 DEF FinishJob
  <2>3. CASE SlotFailResource(w) \/ SlotFailJob(w)
    BY <2>1, <2>3 DEF SlotFailResource, SlotFailJob
  <2>4. CASE RequeueResource(w) \/ RequeueJob(w)
    BY <2>1, <2>4 DEF RequeueResource, RequeueJob
  <2>5. CASE Triage(w)
    BY <2>1, <2>5 DEF Triage
  <2>6. CASE \/ SlotCancelResource(w, "cancel_resource", "cancel_job")
             \/ SlotCancelResource(w, "execute_cancel_resource", "execute_cancel_job")
             \/ SlotCancelJob(w, "cancel_job") \/ SlotCancelJob(w, "execute_cancel_job")
    BY <2>1, <2>6 DEF SlotCancelResource, SlotCancelJob
  <2>7. CASE Return(w) \/ Raise(w) \/ WorkerCrash(w)
    BY <2>7 DEF Return, Raise, WorkerCrash, Freed, ControlTypeOK
  <2>8. CASE DeliverStop(w) \/ LostWorker(w) \/ Timeout(w)
    BY <2>8 DEF DeliverStop, LostWorker, Timeout, Stays, ControlTypeOK, Thread
  <2>9. CASE Error(w) \/ StoreError(w)
    BY <2>9 DEF Error, StoreError, Unwinds, ControlTypeOK, Thread
  <2> QED
    BY <2>2, <2>3, <2>4, <2>5, <2>6, <2>7, <2>8, <2>9 DEF UnwindStep
<1>3. history' = history \/ \E e : Note(slot[w].job, e)
  BY DEF UnwindStep, FinishJob, DeliverStop, SlotCancelResource, SlotCancelJob, SlotFailResource,
         SlotFailJob, Triage, RequeueResource, RequeueJob, Return, Raise, Error, StoreError,
         WorkerCrash, LostWorker, Timeout, Suffer
<1>4. resource' = resource
      \/ \E s \in {"queued", "failed", "cancelled"} : SetResource(slot[w].job, s)
  BY DEF UnwindStep, FinishJob, DeliverStop, SlotCancelResource, SlotCancelJob, SlotFailResource,
         SlotFailJob, Triage, RequeueResource, RequeueJob, Return, Raise, Error, StoreError,
         WorkerCrash, LostWorker, Timeout
<1>5. \/ job' = job
      \/ \E s \in {"queued", "failed", "cancelled"} : SetJob(slot[w].job, s)
      \/ slot[w].pc = "finish_job" /\ SetJob(slot[w].job, "succeeded")
  BY DEF UnwindStep, FinishJob, DeliverStop, SlotCancelResource, SlotCancelJob, SlotFailResource,
         SlotFailJob, Triage, RequeueResource, RequeueJob, Return, Raise, Error, StoreError,
         WorkerCrash, LostWorker, Timeout, Goto
<1>6. \A v \in Slots : Stays(v) \/ Freed(v) \/ Unwinds(v)
  BY <1>1, <1>2 DEF Stays
<1>7. \A j \in Jobs : history[j] \subseteq history'[j]
  BY <1>3 DEF Note, ControlTypeOK
<1>8. \A j \in Jobs : resource'[j] = "succeeded" => resource[j] = "succeeded"
  BY <1>4 DEF SetResource, ControlTypeOK
<1>9. \A j \in Jobs : job'[j].state = "succeeded" =>
          job[j].state = "succeeded" \/ (slot[w].pc = "finish_job" /\ slot[w].job = j)
  BY <1>5 DEF SetJob, ControlTypeOK, JobRow
<1> QED
  BY <1>6, <1>7, <1>8, <1>9 DEF ControlMoves

\* An attempt that starts beside another is recorded as an overlap.
LEMMA StartMoves ==
    ASSUME ControlTypeOK, NEW w \in Slots, NEW j \in Jobs, StartAttempt(w, j)
    PROVE  ControlMoves
<1>1. slot[w].pc = "idle" /\ slot'[w].pc = "read" /\ slot'[w].job = j
  BY DEF StartAttempt, Busy, IdleSlot, ControlTypeOK
<1>2. \A v \in Slots \ {w} : slot'[v] = slot[v]
  BY DEF StartAttempt, ControlTypeOK
<1>3. (\E v \in Slots : slot[v].job = j) => "overlap" \in history'[j]
  BY DEF StartAttempt, Note, ControlTypeOK
<1>4. Starts(w)
  BY <1>1, <1>2, <1>3 DEF Starts
<1>5. \A i \in Jobs : history[i] \subseteq history'[i]
  BY DEF StartAttempt, Note, ControlTypeOK
<1> QED
  BY <1>4, <1>5 DEF ControlMoves, StartAttempt

\* The four together.
LEMMA ControlNextMoves ==
    ASSUME ControlTypeOK, ControlNext
    PROVE  ControlMoves
<1>1. ASSUME NEW r \in Requests,
             Create(r) \/ Replay(r) \/ HandlerStep(r) \/ SubmitFails(r) \/ SubmitAnswerLost(r)
                 \/ ApiCrash(r)
      PROVE  ControlMoves
  BY <1>1, HandlerMoves
<1>2. ASSUME NEW c \in Cancels, CancelRead(c) \/ CancelStep(c) \/ CancelCrash(c)
      PROVE  ControlMoves
  BY <1>2, CancelMoves
<1>3. ASSUME NEW w \in Slots,
             UnwindStep(w) \/ Error(w) \/ StoreError(w) \/ WorkerCrash(w) \/ LostWorker(w)
                 \/ Timeout(w)
      PROVE  ControlMoves
  BY <1>3, ThreadMoves
<1>4. ASSUME NEW w \in Slots, NEW j \in Jobs, StartAttempt(w, j)
      PROVE  ControlMoves
  BY <1>4, StartMoves
<1>5. ASSUME NEW j \in Jobs, ScheduleTimeout(j)
      PROVE  ControlMoves
  BY <1>5 DEF ScheduleTimeout, Suffer, Note, ControlMoves, Stays, ControlTypeOK
<1> QED
  BY <1>1, <1>2, <1>3, <1>4, <1>5 DEF ControlNext, FaultStep

-----------------------------------------------------------------------------
(* The invariant behind the composed system *)

\* A thread works on a job while it is busy.
BusyInv == \A w \in Slots : slot[w].pc # "idle" => slot[w].job \in Jobs

Alone(j) == Spared(j, {"overlap"})

\* A job whose attempts never overlapped is worked on by one thread at most.
AloneInv ==
    \A j \in Jobs : Alone(j) =>
        \A v, w \in Slots : slot[v].job = j /\ slot[w].job = j => v = w

\* Program points past the first read, up to the row's update, and those past
\* the first stage.
Working == (Early \ {"read"}) \cup {"put", "finish_resource"}
Staged == {"check_predicting", "write_predicting", "check_storing", "put", "finish_resource"}

LEMMA StagedIsWorking == Staged \subseteq Working
BY DEF Staged, Working, Early

\* While such a job is worked on no row of it reports a success: the attempt
\* returns at once when it reads one, and its first stage overwrites the other.
UnreportedInv ==
    \A w \in Slots : Alone(slot[w].job) =>
        /\ slot[w].pc \in Working => resource[slot[w].job] # "succeeded"
        /\ slot[w].pc \in Staged => job[slot[w].job].state # "succeeded"

\* What a thread knows that is about to report success: a file is in the store,
\* at last the row has a reference, and alone both are its own.
AboutToReport ==
    \A w \in Slots :
        LET j == slot[w].job IN
        /\ slot[w].pc = "finish_resource" =>
              /\ stored[j] # None /\ made[w] # None
              /\ Alone(j) => stored[j] = made[w]
        /\ slot[w].pc = "finish_job" =>
              /\ stored[j] # None /\ recorded[j] # None
              /\ Alone(j) => stored[j] = recorded[j]

ForecastInv ==
    TypeOK /\ BusyInv /\ AloneInv /\ UnreportedInv /\ AboutToReport /\ SucceededIsReadable

\* The invariant holds before any request.
LEMMA InitForecastInv == Init => ForecastInv
<1> SUFFICES ASSUME Init PROVE ForecastInv
  OBVIOUS
<1>1. ControlTypeOK
  BY ControlAssumption
     DEF Init, ControlInit, ControlTypeOK, JobRow, Run, Thread, Handler, Canceller,
         ResourceStates, JobStates, IdleSlot, SlotPoints
<1>2. TypeOK
  BY <1>1, InitRegistryInv DEF Init, TypeOK, RegistryInv
<1>3. \A w \in Slots : slot[w].pc = "idle" /\ slot[w].job = None
  BY DEF Init, ControlInit, IdleSlot
<1>4. BusyInv /\ AboutToReport /\ UnreportedInv
  BY <1>3 DEF BusyInv, AboutToReport, UnreportedInv, Working, Staged, Early
<1>5. AloneInv
  BY <1>3, ControlAssumption DEF AloneInv
<1>6. SucceededIsReadable
  BY DEF Init, ControlInit, SucceededIsReadable
<1> QED
  BY <1>2, <1>4, <1>5, <1>6 DEF ForecastInv

\* A control step starts threads on jobs, sends none to where success is
\* reported, and reports only what a thread there knows.
LEMMA ControlForecastInv ==
    ASSUME ForecastInv, ControlNext, LocalsEnd, UNCHANGED registryVars
    PROVE  ForecastInv'
<1> USE DEF ForecastInv, rowVars
<1>a. ControlTypeOK /\ None \notin Jobs
  BY ControlAssumption DEF TypeOK
<1>b. ControlMoves
  BY <1>a, ControlNextMoves
<1>c. UNCHANGED <<admitted, stored, recorded>>
  BY DEF LocalsEnd
<1>d. \A j \in Jobs : Alone(j)' => Alone(j)
  BY <1>b DEF ControlMoves, Alone, Spared
<1>1. TypeOK'
  <2>1. made' \in [Slots -> Contents \cup {None}]
    BY DEF LocalsEnd, TypeOK
  <2> QED
    BY <1>a, <1>c, <2>1, ControlType DEF TypeOK, RegistryTypeOK, registryVars
<1>2. ASSUME NEW w \in Slots
      PROVE  /\ slot'[w].pc # "idle" => slot'[w].job \in Jobs
             /\ slot'[w].pc \in Working \cup {"finish_job"} =>
                   /\ Stays(w) /\ slot[w].job \in Jobs
                   /\ made'[w] = made[w]
  <2>1. Stays(w) \/ Freed(w) \/ Unwinds(w) \/ (slot'[w].pc = "read" /\ slot'[w].job \in Jobs)
    BY <1>b DEF ControlMoves, Starts, Stays
  <2>2. slot'[w].pc \in Working \cup {"finish_job"} => Stays(w)
    BY <2>1 DEF Stays, Freed, Unwinds, IdleSlot, Working, Early, Unwinding, Handling, Executing
  <2>3. slot'[w].pc \in Working \cup {"finish_job"} => slot'[w].pc # "idle"
    BY DEF Working, Early
  <2>4. slot'[w].pc # "idle" => slot'[w].job \in Jobs
    BY <2>1 DEF Stays, Freed, Unwinds, IdleSlot, BusyInv
  <2> QED
    BY <2>2, <2>3, <2>4 DEF Stays, LocalsEnd
<1>3. BusyInv'
  BY <1>2 DEF BusyInv
<1>4. AloneInv'
  <2> SUFFICES ASSUME NEW j \in Jobs, Alone(j)', NEW v \in Slots, NEW w \in Slots,
                      slot'[v].job = j, slot'[w].job = j
               PROVE  v = w
    BY DEF AloneInv
  <2>1. CASE \A u \in Slots : Stays(u) \/ Freed(u) \/ Unwinds(u)
    BY <1>a, <1>d, <2>1 DEF AloneInv, Stays, Freed, Unwinds, IdleSlot
  <2>2. ASSUME NEW u \in Slots, Starts(u)
        PROVE  v = w
    <3>1. \A x \in Slots : slot[x].job = slot'[u].job => slot'[u].job # j
      BY <2>2 DEF Starts, Alone, Spared
    <3>2. \A x \in Slots \ {u} : slot'[x] = slot[x]
      BY <2>2 DEF Starts
    <3>3. CASE v # u /\ w # u
      BY <1>d, <3>2, <3>3 DEF AloneInv
    <3> QED
      BY <3>1, <3>2, <3>3
  <2> QED
    BY <1>b, <2>1, <2>2 DEF ControlMoves
<1>5. UnreportedInv'
  <2> SUFFICES ASSUME NEW w \in Slots, slot'[w].pc \in Working, Alone(slot[w].job)'
               PROVE  /\ resource'[slot'[w].job] # "succeeded"
                      /\ slot'[w].pc \in Staged => job'[slot'[w].job].state # "succeeded"
    BY StagedIsWorking DEF UnreportedInv
  <2> DEFINE j == slot[w].job
  <2>1. slot'[w].job = j /\ j \in Jobs /\ slot'[w].pc = slot[w].pc
    BY <1>2 DEF Stays
  <2>a. history'[slot'[w].job] \cap {"overlap"} = {}
    BY DEF Alone, Spared
  <2>b. Alone(j)
    BY <1>d, <2>1, <2>a DEF Alone, Spared
  <2>2. resource[j] # "succeeded" /\ (slot[w].pc \in Staged => job[j].state # "succeeded")
    BY <2>1, <2>b DEF UnreportedInv
  <2>3. \A v \in Slots : slot[v].pc = "finish_job" => slot[v].job # j
    BY <2>1, <2>b DEF AloneInv, Working, Early
  <2> QED
    BY <1>b, <2>1, <2>2, <2>3 DEF ControlMoves
<1>6. AboutToReport'
  <2> SUFFICES ASSUME NEW w \in Slots, slot'[w].pc \in {"finish_resource", "finish_job"}
               PROVE  LET j == slot[w].job IN
                      /\ slot'[w].job = j
                      /\ slot[w].pc = "finish_resource" =>
                            /\ stored'[j] # None /\ made'[w] # None
                            /\ Alone(j)' => stored'[j] = made'[w]
                      /\ slot[w].pc = "finish_job" =>
                            /\ stored'[j] # None /\ recorded'[j] # None
                            /\ Alone(j)' => stored'[j] = recorded'[j]
                      /\ slot'[w].pc = slot[w].pc
    BY DEF AboutToReport
  <2>1. Stays(w) /\ slot[w].job \in Jobs /\ made'[w] = made[w]
    BY <1>2 DEF Working
  <2> QED
    BY <1>c, <1>d, <2>1 DEF AboutToReport, Stays
<1>7. SucceededIsReadable'
  <2> SUFFICES ASSUME NEW j \in Jobs, "succeeded" \in {resource'[j], job'[j].state}
               PROVE  /\ recorded'[j] # None /\ stored'[j] # None
                      /\ Alone(j)' => stored'[j] = recorded'[j]
    BY DEF SucceededIsReadable, Alone
  <2>1. \/ "succeeded" \in {resource[j], job[j].state}
        \/ \E w \in Slots : slot[w].pc = "finish_job" /\ slot[w].job = j
    BY <1>b DEF ControlMoves
  <2> QED
    BY <1>c, <1>d, <2>1 DEF SucceededIsReadable, AboutToReport, Alone
<1> QED
  BY <1>1, <1>3, <1>4, <1>5, <1>6, <1>7

\* The run method stores the file, then the reference, and then reports.
LEMMA BodyForecastInv ==
    ASSUME ForecastInv, NEW w \in Slots, BodyStep(w), UNCHANGED registryVars
    PROVE  ForecastInv'
<1> DEFINE j == slot[w].job
<1> USE DEF ForecastInv
<1>a. slot \in [Slots -> Thread] /\ slot[w] \in Thread
  BY DEF TypeOK, ControlTypeOK
<1>b. \E here \in Early \cup Late : \E next : Goto(w, here, next)
  BY StageMoves DEF BodyStep, Begin, StorePredictions, FinishResource, Early, Late
<1>c. slot[w].pc # "idle" /\ slot'[w].job = slot[w].job
      /\ \A v \in Slots \ {w} : slot'[v] = slot[v]
  BY <1>a, <1>b DEF Goto, Thread, Early, Late
<1>d. j \in Jobs
  BY <1>c DEF BusyInv
<1>e. history' = history
  BY DEF BodyStep, Begin, Stage, StorePredictions, FinishResource, CheckCancelled, StageWrite,
         UnchangedControl
<1>f. \A i : Alone(i)' <=> Alone(i)
  BY <1>e DEF Alone, Spared
<1>g. \A v \in Slots \ {w} : slot[v].job = j => ~Alone(j)
  BY <1>d DEF AloneInv
<1>h. /\ Begin(w) => /\ slot[w].pc = "read"
                     /\ slot'[w].pc = IF resource[j] = "succeeded" THEN "return"
                                      ELSE "check_validating"
      /\ StorePredictions(w) => slot[w].pc = "put" /\ slot'[w].pc = "finish_resource"
      /\ FinishResource(w) => slot[w].pc = "finish_resource" /\ slot'[w].pc = "finish_job"
  BY <1>a DEF Begin, StorePredictions, FinishResource, Goto, Thread
<1>i. Begin(w) \/ Stage(w) => UNCHANGED <<stored, recorded, made, resource>>
  BY DEF Begin, Stage, CheckCancelled, StageWrite, UnchangedControl, forecastVars, rowVars
<1>1. TypeOK'
  BY <1>d, BodyType DEF TypeOK, RegistryTypeOK, registryVars
<1>2. BusyInv'
  BY <1>c, <1>d DEF BusyInv
<1>3. AloneInv'
  BY <1>c, <1>f DEF AloneInv
<1>4. UnreportedInv'
  <2>1. ASSUME NEW v \in Slots, v # w, Alone(slot[v].job)
        PROVE  slot[v].job # j
    BY <1>g, <2>1
  <2>2. \A i \in Jobs \ {j} : resource'[i] = resource[i] /\ job'[i] = job[i]
    BY DEF BodyStep, Begin, Stage, StorePredictions, FinishResource, CheckCancelled, StageWrite,
           UnchangedControl, SetResource, SetJob, TypeOK, ControlTypeOK
  <2>3. ASSUME NEW v \in Slots, v # w, slot[v].pc \in Working \cup Staged
        PROVE  slot[v].job \in Jobs
    BY <2>3 DEF BusyInv, Working, Staged, Early
  <2>4. Alone(j) => /\ slot'[w].pc \in Working => resource'[j] # "succeeded"
                    /\ slot'[w].pc \in Staged => job'[j].state # "succeeded"
    <3>1. CASE Begin(w)
      BY <1>h, <1>i, <3>1 DEF Working, Staged, Early
    <3>2. CASE Stage(w)
      <4>1. PICK here \in Early, next \in Early \cup {"put", "cancel_resource"} :
                Goto(w, here, next)
        BY <3>2, StageMoves
      <4>2. slot[w].pc \in Early
        BY <4>1 DEF Goto
      <4>3. slot[w].pc \in Working
        BY <1>a, <3>2
           DEF Stage, CheckCancelled, StageWrite, Goto, Working, Early
      <4>4. slot'[w].pc \in Staged => job'[j].state = "running" \/ (job' = job /\ slot[w].pc \in Staged)
        BY <1>a, <1>d, <3>2
           DEF Stage, CheckCancelled, StageWrite, Goto, Staged, SetJob, Thread, TypeOK,
               ControlTypeOK, JobRow
      <4> QED
        BY <1>i, <3>2, <4>3, <4>4 DEF UnreportedInv
    <3>3. CASE StorePredictions(w)
      BY <1>h, <3>3 DEF StorePredictions, UnchangedControl, UnreportedInv, Working, Staged
    <3>4. CASE FinishResource(w)
      BY <1>h, <3>4 DEF Working, Staged, Early
    <3> QED
      BY <3>1, <3>2, <3>3, <3>4 DEF BodyStep
  <2> QED
    BY <1>c, <1>f, <2>1, <2>2, <2>3, <2>4 DEF UnreportedInv
<1>5. AboutToReport'
  <2>1. ASSUME NEW v \in Slots, v # w
        PROVE  /\ slot[v].pc = "finish_resource" =>
                     /\ stored'[slot[v].job] # None /\ made'[v] # None
                     /\ Alone(slot[v].job) => stored'[slot[v].job] = made'[v]
               /\ slot[v].pc = "finish_job" =>
                     /\ stored'[slot[v].job] # None /\ recorded'[slot[v].job] # None
                     /\ Alone(slot[v].job) => stored'[slot[v].job] = recorded'[slot[v].job]
    <3>1. CASE Begin(w) \/ Stage(w)
      BY <1>i, <3>1 DEF AboutToReport
    <3>2. CASE StorePredictions(w)
      <4>1. PICK c \in Contents :
                stored' = [stored EXCEPT ![j] = c] /\ made' = [made EXCEPT ![w] = c]
        BY <3>2 DEF StorePredictions
      <4>2. c # None /\ made'[v] = made[v] /\ recorded' = recorded
        BY <2>1, <3>2, <4>1, ForecastAssumption DEF StorePredictions, TypeOK
      <4>3. CASE slot[v].job = j
        BY <1>d, <1>g, <2>1, <4>1, <4>2, <4>3 DEF AboutToReport, TypeOK
      <4>4. CASE slot[v].job # j
        BY <4>1, <4>2, <4>4 DEF AboutToReport, TypeOK
      <4> QED
        BY <4>3, <4>4
    <3>3. CASE FinishResource(w)
      <4>1. /\ stored' = stored /\ made' = made
            /\ recorded' = [recorded EXCEPT ![j] = made[w]] /\ made[w] # None
        BY <1>h, <3>3 DEF FinishResource, AboutToReport
      <4>2. CASE slot[v].job = j
        BY <1>d, <1>g, <2>1, <4>1, <4>2 DEF AboutToReport, TypeOK
      <4>3. CASE slot[v].job # j
        BY <4>1, <4>3 DEF AboutToReport, TypeOK
      <4> QED
        BY <4>2, <4>3
    <3> QED
      BY <3>1, <3>2, <3>3 DEF BodyStep
  <2>2. /\ slot'[w].pc = "finish_resource" =>
              stored'[j] # None /\ made'[w] # None /\ stored'[j] = made'[w]
        /\ slot'[w].pc = "finish_job" =>
              stored'[j] # None /\ recorded'[j] # None /\ (Alone(j) => stored'[j] = recorded'[j])
    <3>1. CASE Begin(w)
      BY <1>h, <3>1
    <3>2. CASE Stage(w)
      BY <1>a, <3>2, StageMoves DEF Goto, Thread, Early
    <3>3. CASE StorePredictions(w)
      BY <1>d, <1>h, <3>3, ForecastAssumption DEF StorePredictions, TypeOK
    <3>4. CASE FinishResource(w)
      BY <1>d, <1>h, <3>4 DEF FinishResource, AboutToReport, TypeOK
    <3> QED
      BY <3>1, <3>2, <3>3, <3>4 DEF BodyStep
  <2> QED
    BY <1>c, <1>f, <2>1, <2>2 DEF AboutToReport
<1>6. SucceededIsReadable'
  <2>1. CASE Begin(w)
    BY <1>e, <1>i, <2>1 DEF Begin, UnchangedControl, SucceededIsReadable, Spared
  <2>2. CASE Stage(w)
    <3>1. \A i \in Jobs : job'[i].state = "succeeded" => job[i].state = "succeeded"
      <4>1. CASE SetJob(slot[w].job, "running")
        BY <4>1 DEF SetJob, TypeOK, ControlTypeOK, JobRow
      <4> QED
        BY <2>2, <4>1, StageMoves
    <3> QED
      BY <1>e, <1>i, <2>2, <3>1 DEF SucceededIsReadable, Spared
  <2>3. CASE StorePredictions(w)
    <3>1. PICK c \in Contents : stored' = [stored EXCEPT ![j] = c]
      BY <2>3 DEF StorePredictions
    <3>2. c # None /\ UNCHANGED <<resource, job, recorded>>
      BY <2>3, ForecastAssumption DEF StorePredictions, UnchangedControl
    <3>3. Alone(j) => "succeeded" \notin {resource[j], job[j].state}
      BY <1>h, <2>3 DEF UnreportedInv, Working, Staged
    <3> QED
      BY <1>e, <3>1, <3>2, <3>3 DEF SucceededIsReadable, Spared, Alone, TypeOK
  <2>4. CASE FinishResource(w)
    <3>1. \A i \in Jobs \ {j} : resource'[i] = resource[i] /\ recorded'[i] = recorded[i]
      BY <2>4 DEF FinishResource, SetResource, TypeOK, ControlTypeOK
    <3>2. /\ stored' = stored /\ job' = job /\ recorded'[j] = made[w]
          /\ stored[j] # None /\ made[w] # None
          /\ Alone(j) => stored[j] = made[w]
      BY <1>d, <1>h, <2>4 DEF FinishResource, AboutToReport, TypeOK
    <3> QED
      BY <1>e, <3>1, <3>2 DEF SucceededIsReadable, Spared, Alone
  <2> QED
    BY <2>1, <2>2, <2>3, <2>4 DEF BodyStep
<1> QED
  BY <1>1, <1>2, <1>3, <1>4, <1>5, <1>6

\* Every step keeps the invariant.
LEMMA NextForecastInv == ForecastInv /\ RegistryInv /\ [Next]_vars => ForecastInv'
<1> SUFFICES ASSUME ForecastInv, RegistryInv, [Next]_vars PROVE ForecastInv'
  OBVIOUS
<1> USE DEF ForecastInv
<1>1. ASSUME UNCHANGED <<controlVars, stored, recorded, made>>
      PROVE  /\ ControlTypeOK' /\ BusyInv' /\ AloneInv' /\ UnreportedInv' /\ AboutToReport'
             /\ SucceededIsReadable'
             /\ stored' \in [Jobs -> Contents \cup {None}]
             /\ recorded' \in [Jobs -> Contents \cup {None}]
             /\ made' \in [Slots -> Contents \cup {None}]
  BY <1>1 DEF controlVars, TypeOK, ControlTypeOK, BusyInv, AloneInv, Alone, Spared, UnreportedInv,
              AboutToReport, SucceededIsReadable
<1>2. CASE UNCHANGED vars
  BY <1>1, <1>2 DEF vars, forecastVars, rowVars, TypeOK, RegistryTypeOK, registryVars
<1>3. ASSUME NEW r \in Requests, Admit(r)
      PROVE  ForecastInv'
  <2>1. admitted' \in [Requests -> {"no", "yes", "refused"}]
    BY <1>3 DEF Admit, TypeOK
  <2> QED
    BY <1>1, <1>3, <2>1 DEF Admit, TypeOK, RegistryTypeOK, registryVars
<1>4. ASSUME NEW w \in Slots, BodyStep(w), UNCHANGED registryVars
      PROVE  ForecastInv'
  BY <1>4, BodyForecastInv
<1>5. CASE ForecastControlNext /\ LocalsEnd /\ UNCHANGED registryVars
  <2>1. ControlNext
    BY <1>5 DEF ForecastControlNext, Enters, ControlNext
  <2> QED
    BY <1>5, <2>1, ControlForecastInv
<1>6. CASE RegistryNext /\ UNCHANGED <<controlVars, forecastVars>>
  <2>1. RegistryTypeOK'
    BY <1>6, NextRegistryInv DEF RegistryInv
  <2> QED
    BY <1>1, <1>6, <2>1 DEF forecastVars, rowVars, TypeOK
<1> QED
  BY <1>2, <1>3, <1>4, <1>5, <1>6 DEF Next

\* The invariant of the composed system.
THEOREM ForecastInvariance == Spec => []ForecastInv
<1>1. Init => ForecastInv
  BY InitForecastInv
<1> QED
  BY <1>1, NextForecastInv, RegistryInvariance, PTL DEF Spec

\* Every variable of jobs, handlers, threads, registry and forecasts has its
\* type; in particular the retries of create_forecast's jobs stay within
\* JOB_RETRIES, whatever faults there are.
THEOREM TypeCorrectness == Spec => []TypeOK
<1>1. ForecastInv => TypeOK
  BY DEF ForecastInv
<1> QED
  BY <1>1, ForecastInvariance, PTL

\* A forecast that shows as succeeded has a reference and a file, and unless two
\* attempts overlapped the file is the one the reference was taken of: nothing but
\* the end of an attempt reports success, and no later attempt replaces the file
\* under it.
THEOREM Readable == Spec => []SucceededIsReadable
<1>1. ForecastInv => SucceededIsReadable
  BY DEF ForecastInv
<1> QED
  BY <1>1, ForecastInvariance, PTL

-----------------------------------------------------------------------------
(* A forecast whose job never reaches Hatchet *)

\* A run has a number, and whoever acts for a run of a job finds that the job
\* has had one: the job row, a thread, a handler that is to record it.
RunInv ==
    /\ \A j \in Jobs : hatchet[j].status = "none" <=> hatchet[j].run = 0
    /\ \A j \in Jobs : job[j].run # 0 => hatchet[j].run # 0
    /\ \A w \in Slots : slot[w].job \in Jobs => hatchet[slot[w].job].run # 0
    /\ \A r \in Requests : request[r].pc = "record" => hatchet[JobOf[r]].run # 0

\* No run, although nothing kept a request from Hatchet ...
Undelivered(j) == hatchet[j].run = 0 /\ "dispatch_error" \notin history[j]

\* ... has one reason only: the API died, which it does once.
CrashedInv ==
    \A r \in Requests : Undelivered(JobOf[r]) =>
        /\ request[r].pc \notin {"fail_resource", "fail_job"}
        /\ request[r].pc = "done" =>
              /\ "api_crash" \in history[JobOf[r]]
              /\ \A q \in Requests : JobOf[q] = JobOf[r] /\ request[q].pc = "done" => q = r

\* A model that was not ready for a request is not ready later.
RefusedInv == \A r \in Requests : admitted[r] = "refused" => ModelOf[JobOf[r]] \notin ready

StrandedInv == RunInv /\ CrashedInv /\ RefusedInv

\* What a step that is none of a create handler's does to the runs: nothing, but
\* for their status.
RunsStay ==
    /\ request' = request
    /\ \A j \in Jobs : /\ hatchet'[j].run = hatchet[j].run
                       /\ hatchet'[j].status = "none" <=> hatchet[j].status = "none"
                       /\ job'[j].run = job[j].run
                       /\ history[j] \subseteq history'[j]
    /\ \A w \in Slots : slot'[w].job \in Jobs => hatchet[slot'[w].job].run # 0

\* Such a step keeps the invariant.
LEMMA RunsStayStranded ==
    ASSUME StrandedInv, RunsStay, UNCHANGED <<admitted, ready>>
    PROVE  StrandedInv'
<1>1. \A r \in Requests : JobOf[r] \in Jobs
  BY ControlAssumption
<1>2. RunInv'
  BY <1>1 DEF StrandedInv, RunInv, RunsStay
<1>3. CrashedInv'
  <2>1. \A r \in Requests : Undelivered(JobOf[r])' => Undelivered(JobOf[r])
    BY <1>1 DEF Undelivered, RunsStay
  <2> QED
    BY <1>1, <2>1 DEF StrandedInv, CrashedInv, RunsStay
<1>4. RefusedInv'
  BY DEF StrandedInv, RefusedInv
<1> QED
  BY <1>2, <1>3, <1>4 DEF StrandedInv

\* The end of an attempt leaves its run a run.
LEMMA AttemptOverRuns ==
    ASSUME ControlTypeOK, RunInv, NEW w \in Slots, NEW s \in {"pending", "done"},
           NEW n, AttemptOver(w, s, n), NEW j \in Jobs
    PROVE  /\ hatchet'[j].run = hatchet[j].run
           /\ hatchet'[j].status = "none" <=> hatchet[j].status = "none"
<1>1. hatchet[j].status = "none" <=> hatchet[j].run = 0
  BY DEF RunInv
<1>2. slot[w].job = j => hatchet[j].run # 0
  BY DEF RunInv
<1>3. CASE slot[w].job = j /\ ~slot[w].orphan
  <2>1. hatchet'[j].run = hatchet[j].run /\ hatchet'[j].status = s
    BY <1>3 DEF AttemptOver, ControlTypeOK, Run
  <2> QED
    BY <1>1, <1>2, <1>3, <2>1
<1>4. CASE slot[w].job # j \/ slot[w].orphan
  BY <1>4 DEF AttemptOver, ControlTypeOK
<1> QED
  BY <1>3, <1>4

\* A thread's steps outside the run method leave the runs.
LEMMA ThreadRuns ==
    ASSUME ControlTypeOK, RunInv, NEW w \in Slots,
           UnwindStep(w) \/ Error(w) \/ StoreError(w) \/ WorkerCrash(w) \/ LostWorker(w)
               \/ Timeout(w)
    PROVE  RunsStay
<1>1. request' = request
  BY DEF UnwindStep, FinishJob, DeliverStop, SlotCancelResource, SlotCancelJob, SlotFailResource,
         SlotFailJob, Triage, RequeueResource, RequeueJob, Return, Raise, Error, StoreError,
         WorkerCrash, LostWorker, Timeout
<1>2. \/ hatchet' = hatchet
      \/ \E s \in {"pending", "done"}, n \in Nat : AttemptOver(w, s, n)
  <2>1. slot[w].retry \in Nat /\ slot[w].retry + 1 \in Nat /\ RecoveredRetries(w) \subseteq Nat
    BY ControlAssumption DEF ControlTypeOK, Thread, RecoveredRetries
  <2> QED
    BY <2>1 DEF UnwindStep, FinishJob, DeliverStop, SlotCancelResource, SlotCancelJob,
         SlotFailResource, SlotFailJob, Triage, RequeueResource, RequeueJob, Return, Raise, Error,
         StoreError, WorkerCrash, LostWorker, Timeout, Recover
<1>3. job' = job
      \/ \E s \in {"queued", "failed", "cancelled", "succeeded"} : SetJob(slot[w].job, s)
  BY DEF UnwindStep, FinishJob, DeliverStop, SlotCancelResource, SlotCancelJob, SlotFailResource,
         SlotFailJob, Triage, RequeueResource, RequeueJob, Return, Raise, Error, StoreError,
         WorkerCrash, LostWorker, Timeout
<1>4. history' = history \/ \E e : Note(slot[w].job, e)
  BY DEF UnwindStep, FinishJob, DeliverStop, SlotCancelResource, SlotCancelJob, SlotFailResource,
         SlotFailJob, Triage, RequeueResource, RequeueJob, Return, Raise, Error, StoreError,
         WorkerCrash, LostWorker, Timeout, Suffer
<1>5. \A v \in Slots \ {w} : slot'[v] = slot[v]
  BY DEF UnwindStep, FinishJob, DeliverStop, SlotCancelResource, SlotCancelJob, SlotFailResource,
         SlotFailJob, Triage, RequeueResource, RequeueJob, Return, Raise, Error, StoreError,
         WorkerCrash, LostWorker, Timeout, Goto, ControlTypeOK
<1>6. slot'[w].job \in {slot[w].job, None}
  BY DEF UnwindStep, FinishJob, DeliverStop, SlotCancelResource, SlotCancelJob, SlotFailResource,
         SlotFailJob, Triage, RequeueResource, RequeueJob, Return, Raise, Error, StoreError,
         WorkerCrash, LostWorker, Timeout, Goto, IdleSlot, ControlTypeOK, Thread
<1>7. \A j \in Jobs : /\ hatchet'[j].run = hatchet[j].run
                      /\ hatchet'[j].status = "none" <=> hatchet[j].status = "none"
  BY <1>2, AttemptOverRuns
<1>8. \A j \in Jobs : job'[j].run = job[j].run
  BY <1>3 DEF SetJob, ControlTypeOK, JobRow
<1>9. \A j \in Jobs : history[j] \subseteq history'[j]
  BY <1>4 DEF Note, ControlTypeOK
<1>10. \A v \in Slots : slot'[v].job \in Jobs => hatchet[slot'[v].job].run # 0
  BY <1>5, <1>6, ControlAssumption DEF RunInv
<1> QED
  BY <1>1, <1>7, <1>8, <1>9, <1>10 DEF RunsStay

\* Changing the status of a job that has a run changes no run.
LEMMA StatusOnly ==
    ASSUME ControlTypeOK, NEW i \in Jobs, NEW s, s # "none", hatchet[i].status # "none",
           hatchet' = [hatchet EXCEPT ![i].status = s]
    PROVE  \A j \in Jobs : /\ hatchet'[j].run = hatchet[j].run
                           /\ hatchet'[j].status = "none" <=> hatchet[j].status = "none"
<1>1. hatchet \in [Jobs -> Run]
  BY DEF ControlTypeOK
<1>2. \A j \in Jobs \ {i} : hatchet'[j] = hatchet[j]
  BY <1>1
<1>3. hatchet'[i] = [hatchet[i] EXCEPT !.status = s]
  BY <1>1
<1>4. hatchet[i] \in Run
  BY <1>1
<1>5. ASSUME NEW r \in Run
      PROVE  [r EXCEPT !.status = s].run = r.run /\ [r EXCEPT !.status = s].status = s
  BY DEF Run
<1>6. hatchet'[i].run = hatchet[i].run /\ hatchet'[i].status = s
  BY <1>3, <1>4, <1>5
<1> QED
  BY <1>2, <1>6

\* So do those of a cancel handler and of Hatchet.
LEMMA CancelRuns ==
    ASSUME ControlTypeOK, RunInv, NEW c \in Cancels,
           CancelRead(c) \/ CancelStep(c) \/ CancelCrash(c)
    PROVE  RunsStay
<1>a. JobOf[c] \in Jobs
  BY ControlAssumption
<1>1. request' = request
  BY DEF CancelStep, CancelRead, CancelSignal, CancelJob, CancelResource, CancelCrash
<1>2. history' = history \/ \E e : Note(JobOf[c], e)
  BY DEF CancelStep, CancelRead, CancelSignal, CancelJob, CancelResource, CancelCrash, Suffer
<1>3. job' = job \/ SetJob(JobOf[c], "cancelled")
  BY DEF CancelStep, CancelRead, CancelSignal, CancelJob, CancelResource, CancelCrash
<1>4. \A j \in Jobs : /\ hatchet'[j].run = hatchet[j].run
                      /\ hatchet'[j].status = "none" <=> hatchet[j].status = "none"
  <2>1. CASE CancelSignal(c)
    <3>1. \/ hatchet' = hatchet
          \/ /\ hatchet[JobOf[c]].status \in {"pending", "active"}
             /\ hatchet' = [hatchet EXCEPT ![JobOf[c]].status = "done"]
      BY <2>1 DEF CancelSignal
    <3> QED
      BY <1>a, <3>1, StatusOnly
  <2>2. CASE hatchet' = hatchet
    BY <2>2
  <2> QED
    BY <2>1, <2>2 DEF CancelStep, CancelRead, CancelJob, CancelResource, CancelCrash
<1>5. \A w \in Slots : slot'[w].job = slot[w].job
  <2>1. CASE CancelSignal(c)
    <3>1. ASSUME NEW t \in Thread PROVE [t EXCEPT !.orphan = TRUE, !.stop = "sent"].job = t.job
      BY DEF Thread
    <3>2. ASSUME NEW w \in Slots
          PROVE  slot'[w] = slot[w] \/ slot'[w] = [slot[w] EXCEPT !.orphan = TRUE, !.stop = "sent"]
      BY <2>1 DEF CancelSignal
    <3> QED
      BY <3>1, <3>2 DEF ControlTypeOK
  <2>2. CASE slot' = slot
    BY <2>2
  <2> QED
    BY <2>1, <2>2 DEF CancelStep, CancelRead, CancelJob, CancelResource, CancelCrash
<1>6. \A j \in Jobs : job'[j].run = job[j].run
  BY <1>3 DEF SetJob, ControlTypeOK, JobRow
<1>7. \A j \in Jobs : history[j] \subseteq history'[j]
  BY <1>2 DEF Note, ControlTypeOK
<1> QED
  BY <1>1, <1>4, <1>5, <1>6, <1>7 DEF RunsStay, RunInv

\* Hatchet starts attempts of runs only.
LEMMA HatchetRuns ==
    ASSUME ControlTypeOK, RunInv, NEW j \in Jobs,
           ScheduleTimeout(j) \/ \E w \in Slots : StartAttempt(w, j)
    PROVE  RunsStay
<1>1. /\ hatchet[j].status = "pending"
      /\ \E s \in {"done", "active"} : hatchet' = [hatchet EXCEPT ![j].status = s]
      /\ job' = job /\ request' = request
  BY DEF ScheduleTimeout, StartAttempt
<1>2. \A i \in Jobs : /\ hatchet'[i].run = hatchet[i].run
                      /\ hatchet'[i].status = "none" <=> hatchet[i].status = "none"
  BY <1>1, StatusOnly
<1>3. \A i \in Jobs : history[i] \subseteq history'[i]
  BY DEF ScheduleTimeout, StartAttempt, Suffer, Note, ControlTypeOK
<1>4. \A w \in Slots : slot'[w].job \in {slot[w].job, j}
  <2>1. CASE ScheduleTimeout(j)
    BY <2>1 DEF ScheduleTimeout
  <2>2. ASSUME NEW v \in Slots, StartAttempt(v, j) PROVE <1>4
    <3> DEFINE started == [IdleSlot EXCEPT !.pc = "read", !.job = j, !.run = hatchet[j].run,
                                           !.retry = hatchet[j].retry]
    <3>1. started.job = j
      BY DEF IdleSlot
    <3>2. slot' = [slot EXCEPT ![v] = started]
      BY <2>2 DEF StartAttempt
    <3> HIDE DEF started
    <3> QED
      BY <3>1, <3>2 DEF ControlTypeOK
  <2> QED
    BY <2>1, <2>2
<1>5. hatchet[j].run # 0
  BY <1>1 DEF RunInv
<1> QED
  BY <1>1, <1>2, <1>3, <1>4, <1>5 DEF RunsStay, RunInv

\* The run method leaves the runs.
LEMMA BodyRuns ==
    ASSUME ControlTypeOK, RunInv, NEW w \in Slots, BodyStep(w)
    PROVE  RunsStay
<1>1. request' = request /\ hatchet' = hatchet /\ history' = history
  BY DEF BodyStep, Begin, Stage, StorePredictions, FinishResource, CheckCancelled, StageWrite,
         UnchangedControl
<1>2. job' = job \/ SetJob(slot[w].job, "running")
  BY DEF BodyStep, Begin, Stage, StorePredictions, FinishResource, CheckCancelled, StageWrite,
         UnchangedControl
<1>3. \E here, next : Goto(w, here, next)
  BY DEF BodyStep, Begin, Stage, StorePredictions, FinishResource, CheckCancelled, StageWrite
<1>4. \A v \in Slots : slot'[v].job = slot[v].job
  BY <1>3 DEF Goto, ControlTypeOK, Thread
<1>5. \A j \in Jobs : job'[j].run = job[j].run
  BY <1>2 DEF SetJob, ControlTypeOK, JobRow
<1> QED
  BY <1>1, <1>4, <1>5 DEF RunsStay, RunInv

\* What a create handler's step does to the runs: it hands its job to Hatchet,
\* or leaves the runs alone.
LEMMA HandlerRuns ==
    ASSUME ControlTypeOK, RunInv, NEW r \in Requests,
           Create(r) \/ Replay(r) \/ HandlerStep(r) \/ SubmitFails(r) \/ SubmitAnswerLost(r)
               \/ ApiCrash(r)
    PROVE  /\ RunInv'
           /\ \A j \in Jobs : hatchet[j].run # 0 => hatchet'[j].run # 0
           /\ \A j \in Jobs : history[j] \subseteq history'[j]
           /\ \A q \in Requests \ {r} : request'[q] = request[q]
<1> DEFINE i == JobOf[r]
<1>0. i \in Jobs
  BY ControlAssumption
<1> HIDE DEF i
<1>1. slot' = slot /\ \A q \in Requests \ {r} : request'[q] = request[q]
  BY DEF HandlerStep, Create, Replay, DispatchRequired, ResetResource, ResetJob, SubmitAccepted,
         SubmitCollides, SubmitFails, SubmitAnswerLost, FailResourceOfRequest, FailJobOfRequest,
         RecordRun, ApiCrash, RequestGoto, ControlTypeOK
<1>2. hatchet' = hatchet \/ NewRun(i)
  BY DEF i, HandlerStep, Create, Replay, DispatchRequired, ResetResource, ResetJob, SubmitAccepted,
         SubmitCollides, SubmitFails, SubmitAnswerLost, FailResourceOfRequest, FailJobOfRequest,
         RecordRun, ApiCrash
<1>3. \/ job' = job
      \/ \E s \in {"queued", "failed"} : SetJob(i, s)
      \/ RecordRun(r)
  BY DEF i, HandlerStep, Create, Replay, DispatchRequired, ResetResource, ResetJob, SubmitAccepted,
         SubmitCollides, SubmitFails, SubmitAnswerLost, FailResourceOfRequest, FailJobOfRequest,
         ApiCrash
<1>4. history' = history \/ \E e : Note(i, e)
  BY DEF i, HandlerStep, Create, Replay, DispatchRequired, ResetResource, ResetJob, SubmitAccepted,
         SubmitCollides, SubmitFails, SubmitAnswerLost, FailResourceOfRequest, FailJobOfRequest,
         RecordRun, ApiCrash, Suffer
<1>5. \A j \in Jobs : /\ hatchet'[j].status = "none" <=> hatchet'[j].run = 0
                      /\ hatchet[j].run # 0 => hatchet'[j].run # 0
  <2>1. NewRun(i) => /\ hatchet'[i].run = hatchet[i].run + 1 /\ hatchet'[i].status = "pending"
                     /\ \A j \in Jobs : j # i => hatchet'[j] = hatchet[j]
    BY <1>0 DEF NewRun, ControlTypeOK
  <2>2. hatchet[i].run \in Nat /\ hatchet[i].run + 1 # 0
    BY <1>0 DEF ControlTypeOK, Run
  <2> QED
    BY <1>2, <2>1, <2>2 DEF RunInv
<1>6. \A j \in Jobs : job'[j].run # 0 => hatchet[j].run # 0
  <2>1. CASE \E s \in {"queued", "failed"} : SetJob(i, s)
    BY <2>1 DEF SetJob, RunInv, ControlTypeOK, JobRow
  <2>2. CASE RecordRun(r)
    <3>1. hatchet[i].run # 0
      BY <2>2 DEF RecordRun, RunInv, i
    <3>2. \A j \in Jobs : j # i => job'[j] = job[j]
      BY <2>2 DEF RecordRun, ControlTypeOK, i
    <3> QED
      BY <3>1, <3>2 DEF RunInv
  <2> QED
    BY <1>3, <2>1, <2>2 DEF RunInv
<1>7. request'[r].pc = "record" => hatchet'[i].run # 0
  <2>1. CASE SubmitAccepted(r)
    <3>1. CASE KeyFree(i)
      BY <1>0, <2>1, <3>1 DEF SubmitAccepted, NewRun, ControlTypeOK, Run, i
    <3>2. CASE ~KeyFree(i)
      BY <1>0, <2>1, <3>2 DEF SubmitAccepted, KeyFree, RunInv, i
    <3> QED
      BY <3>1, <3>2
  <2>2. CASE ~SubmitAccepted(r)
    <3>1. request'[r].pc # "record"
      BY <2>2 DEF HandlerStep, Create, Replay, DispatchRequired, ResetResource, ResetJob,
         SubmitCollides, SubmitFails, SubmitAnswerLost, FailResourceOfRequest, FailJobOfRequest,
         RecordRun, ApiCrash, RequestGoto, ControlTypeOK, Handler
    <3> QED
      BY <3>1
  <2> QED
    BY <2>1, <2>2
<1>8. \A j \in Jobs : history[j] \subseteq history'[j]
  BY <1>4 DEF Note, ControlTypeOK
<1>9. \A q \in Requests : JobOf[q] \in Jobs
  BY ControlAssumption
<1>10. RunInv'
  BY <1>1, <1>5, <1>6, <1>7, <1>9 DEF RunInv, i
<1> QED
  BY <1>1, <1>5, <1>8, <1>10

\* A request that ends before its job has had a run, and was not kept from
\* Hatchet, died; and no other had died before.
LEMMA HandlerCrashed ==
    ASSUME ControlTypeOK, RunInv, CrashedInv, NEW r \in Requests, Undelivered(JobOf[r])',
           Create(r) \/ Replay(r) \/ HandlerStep(r) \/ SubmitFails(r) \/ SubmitAnswerLost(r)
               \/ ApiCrash(r)
    PROVE  /\ request'[r].pc \notin {"fail_resource", "fail_job"}
           /\ request'[r].pc = "done" =>
                 /\ "api_crash" \in history'[JobOf[r]]
                 /\ \A q \in Requests : JobOf[q] = JobOf[r] => request[q].pc # "done"
<1> DEFINE i == JobOf[r]
<1>0. i \in Jobs
  BY ControlAssumption
<1> HIDE DEF i
<1>1. Undelivered(i)' /\ Undelivered(i)
  BY <1>0, HandlerRuns DEF Undelivered, i
<1>2. hatchet[i].run = 0 /\ hatchet[i].status = "none" /\ job[i].run = 0 /\ hatchet'[i].run = 0
  BY <1>0, <1>1 DEF Undelivered, RunInv
<1>3. request[r].pc \notin {"record", "fail_resource", "fail_job"}
  BY <1>1, <1>2 DEF CrashedInv, RunInv, i
<1>4. ~SubmitCollides(r) /\ ~RecordRun(r) /\ ~FailResourceOfRequest(r) /\ ~FailJobOfRequest(r)
  BY <1>2, <1>3
     DEF SubmitCollides, KeyFree, RecordRun, FailResourceOfRequest, FailJobOfRequest, RequestGoto, i
<1>5. ~SubmitFails(r)
  BY <1>0, <1>1 DEF SubmitFails, Suffer, Note, Undelivered, ControlTypeOK, i
<1>6. ~SubmitAnswerLost(r)
  BY <1>0, <1>2 DEF SubmitAnswerLost, NewRun, ControlTypeOK, Run, i
<1>7. CASE ApiCrash(r)
  <2>1. "api_crash" \notin history[i] /\ "api_crash" \in history'[i] /\ request'[r].pc = "done"
    BY <1>0, <1>7 DEF ApiCrash, Suffer, Note, ControlTypeOK, i
  <2>2. \A q \in Requests : JobOf[q] = i => request[q].pc # "done"
    BY <1>1, <2>1 DEF CrashedInv
  <2> QED
    BY <2>1, <2>2 DEF i
<1>8. CASE ~ApiCrash(r)
  <2>1. \E p \in {"submit", "dispatch_required", "reset_resource", "reset_job", "record"} :
            request'[r].pc = p
    BY <1>2, <1>4, <1>5, <1>6, <1>8
       DEF HandlerStep, Create, Replay, DispatchRequired, ResetResource, ResetJob, SubmitAccepted,
           RequestGoto, ControlTypeOK, Handler, i
  <2> QED
    BY <2>1
<1> QED
  BY <1>7, <1>8

\* A create handler keeps the invariant.
LEMMA HandlerStranded ==
    ASSUME ControlTypeOK, StrandedInv, NEW r \in Requests, UNCHANGED <<admitted, ready>>,
           Create(r) \/ Replay(r) \/ HandlerStep(r) \/ SubmitFails(r) \/ SubmitAnswerLost(r)
               \/ ApiCrash(r)
    PROVE  StrandedInv'
<1> USE DEF StrandedInv
<1>0. \A q \in Requests : JobOf[q] \in Jobs
  BY ControlAssumption
<1>1. RunInv' /\ \A q \in Requests \ {r} : request'[q] = request[q]
  BY HandlerRuns
<1>2. \A j \in Jobs : /\ Undelivered(j)' => Undelivered(j)
                      /\ history[j] \subseteq history'[j]
  BY HandlerRuns DEF Undelivered
<1>3. CrashedInv'
  <2> SUFFICES ASSUME NEW p \in Requests, Undelivered(JobOf[p])'
               PROVE  /\ request'[p].pc \notin {"fail_resource", "fail_job"}
                      /\ request'[p].pc = "done" =>
                            /\ "api_crash" \in history'[JobOf[p]]
                            /\ \A q \in Requests :
                                  JobOf[q] = JobOf[p] /\ request'[q].pc = "done" => q = p
    BY DEF CrashedInv
  <2>1. CASE JobOf[p] = JobOf[r]
    <3>1. /\ request'[r].pc \notin {"fail_resource", "fail_job"}
          /\ request'[r].pc = "done" =>
                /\ "api_crash" \in history'[JobOf[r]]
                /\ \A q \in Requests : JobOf[q] = JobOf[r] => request[q].pc # "done"
      BY <2>1, HandlerCrashed
    <3> QED
      BY <1>0, <1>1, <1>2, <2>1, <3>1 DEF CrashedInv
  <2>2. CASE JobOf[p] # JobOf[r]
    BY <1>0, <1>1, <1>2, <2>2 DEF CrashedInv
  <2> QED
    BY <2>1, <2>2
<1>4. RefusedInv'
  BY DEF RefusedInv
<1> QED
  BY <1>1, <1>3, <1>4

\* Every step keeps the invariant.
LEMMA NextStrandedInv == ForecastInv /\ RegistryInv /\ StrandedInv /\ [Next]_vars => StrandedInv'
<1> SUFFICES ASSUME ForecastInv, RegistryInv, StrandedInv, [Next]_vars PROVE StrandedInv'
  OBVIOUS
<1>0. ControlTypeOK /\ RunInv
  BY DEF ForecastInv, TypeOK, StrandedInv
<1>1. CASE UNCHANGED <<controlVars, admitted>> /\ ready' \subseteq ready
  BY <1>1 DEF controlVars, StrandedInv, RunInv, CrashedInv, Undelivered, RefusedInv
<1>2. ASSUME NEW r \in Requests, Admit(r)
      PROVE  StrandedInv'
  <2>1. RefusedInv'
    BY <1>2 DEF Admit, RefusedInv, StrandedInv, ForecastInv, TypeOK, registryVars
  <2> QED
    BY <1>2, <2>1 DEF Admit, controlVars, StrandedInv, RunInv, CrashedInv, Undelivered
<1>3. ASSUME RunsStay, UNCHANGED <<admitted, ready>>
      PROVE  StrandedInv'
  BY <1>3, RunsStayStranded
<1>4. ASSUME NEW w \in Slots, BodyStep(w), UNCHANGED registryVars
      PROVE  StrandedInv'
  <2>1. RunsStay
    BY <1>0, <1>4, BodyRuns
  <2>2. UNCHANGED <<admitted, ready>>
    BY <1>4 DEF BodyStep, Begin, Stage, StorePredictions, FinishResource, forecastVars, rowVars,
                registryVars
  <2> QED
    BY <1>3, <2>1, <2>2
<1>5. CASE ForecastControlNext /\ LocalsEnd /\ UNCHANGED registryVars
  <2>0. UNCHANGED <<admitted, ready>>
    BY <1>5 DEF registryVars, LocalsEnd, rowVars
  <2>1. ASSUME NEW r \in Requests,
               Create(r) \/ Replay(r) \/ HandlerStep(r) \/ SubmitFails(r) \/ SubmitAnswerLost(r)
                   \/ ApiCrash(r)
        PROVE  StrandedInv'
    BY <1>0, <2>0, <2>1, HandlerStranded
  <2>2. ASSUME NEW c \in Cancels, CancelRead(c) \/ CancelStep(c) \/ CancelCrash(c)
        PROVE  RunsStay
    BY <1>0, <2>2, CancelRuns
  <2>3. ASSUME NEW w \in Slots,
               UnwindStep(w) \/ Error(w) \/ StoreError(w) \/ WorkerCrash(w) \/ LostWorker(w)
                   \/ Timeout(w)
        PROVE  RunsStay
    BY <1>0, <2>3, ThreadRuns
  <2>4. ASSUME NEW j \in Jobs, ScheduleTimeout(j) \/ \E w \in Slots : StartAttempt(w, j)
        PROVE  RunsStay
    BY <1>0, <2>4, HatchetRuns
  <2> QED
    BY <1>3, <1>5, <2>0, <2>1, <2>2, <2>3, <2>4 DEF ForecastControlNext, Enters, FaultStep
<1>6. CASE RegistryNext /\ UNCHANGED <<controlVars, forecastVars>>
  <2>1. ready' \subseteq ready
    BY <1>6 DEF RegistryNext, RefusePromotion, ListChampions, Demote, Promote, AbandonPromotion,
                Retire
  <2> QED
    BY <1>1, <1>6, <2>1 DEF forecastVars, rowVars
<1>7. CASE UNCHANGED vars
  BY <1>1, <1>7 DEF vars, forecastVars, rowVars, registryVars
<1> QED
  BY <1>2, <1>4, <1>5, <1>6, <1>7 DEF Next

\* Before any request there is no run and nothing was refused.
LEMMA InitStrandedInv == Init => StrandedInv
BY ControlAssumption
   DEF Init, ControlInit, IdleSlot, StrandedInv, RunInv, CrashedInv, Undelivered, RefusedInv

\* A client that repeats its request gets the job to Hatchet although the API
\* died before it submitted, unless the model was retired meanwhile: all its
\* requests are over, one of them at most because of the crash, so that another
\* was refused.
THEOREM StrandedByRetirement == Spec => []StrandedOnlyByRetirement
<1>1. Spec => []StrandedInv
  BY InitStrandedInv, NextStrandedInv, ForecastInvariance, RegistryInvariance, PTL DEF Spec
<1>2. StrandedInv => StrandedOnlyByRetirement
  <2> SUFFICES ASSUME StrandedInv, NEW j \in Jobs,
                      hatchet[j].run = 0, "dispatch_error" \notin history[j],
                      Cardinality({r \in Requests : JobOf[r] = j}) > 1,
                      \A r \in Requests : JobOf[r] = j =>
                          request[r].pc = "done" \/ admitted[r] = "refused"
               PROVE  ModelOf[j] \notin ready
    BY DEF StrandedOnlyByRetirement
  <2> DEFINE asked == {r \in Requests : JobOf[r] = j}
  <2>1. PICK q, r \in asked : q # r
    <3>1. CASE asked = {}
      <4>1. Cardinality(asked) = 0
        BY <3>1, FS_EmptySet
      <4> QED
        BY <4>1
    <3>2. ASSUME NEW q \in asked, \A r \in asked : r = q
          PROVE  FALSE
      <4>1. asked = {q}
        BY <3>2
      <4>2. Cardinality(asked) = 1
        BY <4>1, FS_Singleton
      <4> QED
        BY <4>2
    <3> QED
      BY <3>1, <3>2
  <2>2. ~(request[q].pc = "done" /\ request[r].pc = "done")
    BY <2>1 DEF StrandedInv, CrashedInv, Undelivered
  <2>3. \E p \in asked : admitted[p] = "refused"
    BY <2>1, <2>2
  <2> QED
    BY <2>3 DEF StrandedInv, RefusedInv
<1> QED
  BY <1>1, <1>2, PTL

=============================================================================
