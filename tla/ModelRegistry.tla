----------------------------- MODULE ModelRegistry -----------------------------
(***************************************************************************)
(* The registry of the models of one dataset (platform.py): promote_model  *)
(* and retire_model.  A promotion reads the champions, makes candidates of *)
(* them one by one and then makes its own model the champion: each of      *)
(* these is a transaction of its own, and the handler may die in between.  *)
(***************************************************************************)
EXTENDS Naturals, FiniteSets

CONSTANTS
    Models,       \* the trained models of the dataset
    Promotions,   \* promote requests
    Retirements,  \* retire requests
    Target,       \* the model a request is about
    BeatenSets,   \* the sets of models that may have beaten their baseline
    Forced,       \* promotions that are forced, with a justification
    NoModel

ASSUME RegistryAssumption ==
    /\ IsFiniteSet(Models) /\ NoModel \notin Models
    /\ Target \in [Promotions \cup Retirements -> Models]
    /\ BeatenSets \subseteq SUBSET Models
    /\ Forced \subseteq Promotions

VARIABLES
    beaten,     \* the models that beat their baseline; decided by their training
    stage,      \* "candidate", "champion" or "retired"
    ready,      \* the models whose state is "ready"; the others are retired
    promotion,  \* program counter of each promotion, the champions yet to demote
    retired,    \* retire requests that have been served
    raced,      \* the pairs of promotions that were under way at once (auxiliary)
    abandoned   \* a promotion has died half-way (auxiliary)

registryVars == <<beaten, stage, ready, promotion, retired, raced, abandoned>>

Champions == {m \in Models : stage[m] = "champion"}
UnderWay(p) == promotion[p].pc = "update"

\* Trained models, one of which may have been promoted before.
RegistryInit ==
    /\ beaten \in BeatenSets
    /\ \E champion \in Models \cup {NoModel} :
          stage = [m \in Models |-> IF m = champion THEN "champion" ELSE "candidate"]
    /\ ready = Models
    /\ promotion = [p \in Promotions |-> [pc |-> "idle", todo |-> {}]]
    /\ retired = {}
    /\ raced = {}
    /\ abandoned = FALSE

-----------------------------------------------------------------------------
(* promote_model *)

\* 409, model did not beat its baseline.
RefusePromotion(p) ==
    /\ promotion[p].pc = "idle"
    /\ Target[p] \notin beaten /\ p \notin Forced
    /\ promotion' = [promotion EXCEPT ![p].pc = "refused"]
    /\ UNCHANGED <<beaten, stage, ready, retired, raced, abandoned>>

\* Mistake: the model's own row is taken for the alias, nobody is demoted.
ListNobody(p) ==
    /\ promotion[p].pc = "idle"
    /\ Target[p] \in beaten \/ p \in Forced
    /\ promotion' = [promotion EXCEPT ![p] = [pc |-> "update", todo |-> {}]]
    /\ raced' = raced \cup {{p, q} : q \in {q \in Promotions : UnderWay(q)}}
    /\ UNCHANGED <<beaten, stage, ready, retired, abandoned>>

\* store.list of the champions, the model itself among them if it is one.
ListChampions(p) ==
    /\ promotion[p].pc = "idle"
    /\ Target[p] \in beaten \/ p \in Forced
    /\ promotion' = [promotion EXCEPT ![p] = [pc |-> "update", todo |-> Champions]]
    /\ raced' = raced \cup {{p, q} : q \in {q \in Promotions : UnderWay(q)}}
    /\ UNCHANGED <<beaten, stage, ready, retired, abandoned>>

\* Mistake: a promotion of the champion ends when it meets itself in the list.
DemoteAndReturn(p) ==
    /\ UnderWay(p)
    /\ \E m \in promotion[p].todo :
          /\ stage' = [stage EXCEPT ![m] = "candidate"]
          /\ promotion' = [promotion EXCEPT
                ![p].pc = IF m = Target[p] THEN "done" ELSE "update",
                ![p].todo = @ \ {m}]
    /\ UNCHANGED <<beaten, ready, retired, raced, abandoned>>

\* One turn of the loop over the champions.  Their order, by creation, is left
\* open.
Demote(p) ==
    /\ UnderWay(p)
    /\ \E m \in promotion[p].todo :
          /\ stage' = [stage EXCEPT ![m] = "candidate"]
          /\ promotion' = [promotion EXCEPT ![p].todo = @ \ {m}]
    /\ UNCHANGED <<beaten, ready, retired, raced, abandoned>>

Promote(p) ==
    /\ UnderWay(p) /\ promotion[p].todo = {}
    /\ stage' = [stage EXCEPT ![Target[p]] = "champion"]
    /\ promotion' = [promotion EXCEPT ![p].pc = "done"]
    /\ UNCHANGED <<beaten, ready, retired, raced, abandoned>>

\* The API process dies, or an exception leaves the handler.
AbandonPromotion(p) ==
    /\ UnderWay(p)
    /\ promotion' = [promotion EXCEPT ![p] = [pc |-> "abandoned", todo |-> {}]]
    /\ abandoned' = TRUE
    /\ UNCHANGED <<beaten, stage, ready, retired, raced>>

-----------------------------------------------------------------------------
(* retire_model, whatever the stage of the model *)

Retire(t) ==
    /\ t \notin retired
    /\ ready' = ready \ {Target[t]}
    /\ stage' = [stage EXCEPT ![Target[t]] = "retired"]
    /\ retired' = retired \cup {t}
    /\ UNCHANGED <<beaten, promotion, raced, abandoned>>

RegistryNext ==
    \/ \E p \in Promotions :
          \/ RefusePromotion(p) \/ ListChampions(p)
          \/ Demote(p) \/ Promote(p) \/ AbandonPromotion(p)
    \/ \E t \in Retirements : Retire(t)

RegistrySpec == RegistryInit /\ [][RegistryNext]_registryVars

-----------------------------------------------------------------------------
(* Properties *)

RegistryTypeOK ==
    /\ beaten \in BeatenSets
    /\ stage \in [Models -> {"candidate", "champion", "retired"}]
    /\ ready \subseteq Models
    /\ promotion \in [Promotions ->
          [pc : {"idle", "refused", "update", "done", "abandoned"}, todo : SUBSET Models]]
    /\ retired \subseteq Retirements
    /\ raced \subseteq SUBSET Promotions /\ abandoned \in BOOLEAN

\* Two champions of a dataset are always the models of two promotions that
\* overlapped one another: promote_model lists the champions once and updates
\* them later.  No chain of promotions, of which some died half-way, and no
\* retirement leaves a second champion in another way, and the next promotion
\* that overlaps none of theirs ends with one.
ChampionsRaced ==
    \A m, n \in Champions : m # n =>
        \E p, q \in Promotions : Target[p] = m /\ Target[q] = n /\ {p, q} \in raced

\* However promotions overlap, once none is under way, and none has died
\* half-way, a dataset one of whose models was promoted has a champion, or the
\* model that was promoted has been retired: the last to write does not take
\* the others' champion away without leaving its own.
ChampionRemains ==
    \/ abandoned
    \/ \E p \in Promotions : UnderWay(p)
    \/ \A p \in Promotions : promotion[p].pc # "done"
    \/ Champions # {}
    \/ \E p \in Promotions : promotion[p].pc = "done" /\ Target[p] \notin ready

-----------------------------------------------------------------------------
(* What the documents say and the code does not do; refuted by a run *)

\* "Promote through an atomic alias (`champion`)"
\* (docs/forecasting-system-plan.md:383): a dataset has one champion at most.
AtMostOneChampion == Cardinality(Champions) <= 1

=============================================================================
