---------------------------- MODULE ReconciledFeeds ----------------------------
(***************************************************************************)
(* The feeds of the governance rules whose events say more than their row.  *)
(* The churn scorer (api/internal/batchscore/churn.go) scores a population  *)
(* once per active model version and publishes every customer with a rank   *)
(* in that population; the forecast worker (batchscore/forecast.go)         *)
(* forecasts every category once per version and publishes one by one; the  *)
(* drift poller (api/internal/monitor) merges the rows of a measurement run *)
(* into one event.  They publish on the lossy bus, and the reconciler       *)
(* (api/internal/govern) rebuilds their events from the stored rows,        *)
(* predictions first and drift after, under cursors that it writes back     *)
(* when the pass is over.                                                   *)
(*                                                                          *)
(* ProposalDelivery has the delivery of a single prediction with all its    *)
(* faults; this module has what the events say.                             *)
(***************************************************************************)
EXTENDS Integers, Sequences, FiniteSetsExt

CONSTANTS
    Population,     \* customer ids
    Risk,           \* Risk[v][c]: what version v of the churn model predicts
                    \* for customer c, versions in the order of promotion
    Categories,     \* product categories of the next-week mart
    Ranked,         \* Ranked[v]: those version v of the forecast model knows
    Surge,          \* Surge[v]: those for which it forecasts a demand surge
    TopN,           \* the rule's rank cap (playbooks.yml: 20)
    Bar,            \* the rule's threshold on the score (playbooks.yml: 0.70)
    Scenes,         \* bound: how much happens, [customers, categories, versions,
                    \* writes, armings]: whom to score, the versions of each model
                    \* that are promoted in time, what drift_check commits, in
                    \* order: sequences of rows [model, at, status], and the
                    \* kinds of rules that playbooks.yml may have enabled
    PredictionBatch, DriftBatch,  \* rows a reconciler pass reads at most
    SubBuffer,      \* capacity of the engine's bus channel
    MaxRows,        \* bound: rows stored when a pass begins while the sidecar
                    \* serves a superseded version
    Decided,        \* bound: the kinds of proposals that are decided
    MaxFaults       \* bound: errors and restarts

ASSUME FeedAssumption ==
    /\ Population \subseteq Nat
    /\ Risk \in Seq([Population -> Nat])
    /\ {Ranked, Surge} \subseteq Seq(SUBSET Categories) /\ Categories \subseteq Nat
    /\ \A s \in Scenes : /\ s.customers \subseteq Population /\ s.versions.churn \in 1 .. Len(Risk)
                         /\ s.categories \subseteq Categories
                         /\ s.versions.forecast \in 1 .. Len(Ranked) \cap 1 .. Len(Surge)
    /\ {TopN, Bar, MaxRows, MaxFaults} \subseteq Nat
    /\ {PredictionBatch, DriftBatch, SubBuffer} \subseteq Nat \ {0}
    /\ Decided \subseteq {"churn", "forecast", "drift"}
    /\ \A s \in Scenes : /\ s.armings # {} /\ s.armings \subseteq SUBSET {"churn", "forecast", "drift"}
                         /\ s.writes \in Seq(Seq([model : Nat, at : Nat, status : {"ok", "warning", "critical"}]))

VARIABLES
    scene,      \* which of Scenes this is
    armed,      \* kinds of events with an enabled rule, read when the process starts
    active,     \* the active versions in gold.model_registry
    sidecar,    \* the versions the scoring sidecar has loaded
    preds,      \* gold.predictions: id -> [model, entity, version]
    scorer,     \* the churn scorer's pass in memory
    mixed,      \* rows of passes of the scorer in which the sidecar answered with
                \* another version as well (history)
    caster,     \* the forecast worker's pass in memory
    drift,      \* gold.model_drift: id -> [model, at, status]
    drifted,    \* runs of drift_check that are over
    poller,     \* the poller's pass in memory
    watermark,  \* gold.monitor_state
    bus,        \* the engine's subscription channel
    queue,      \* proposals
    cursor,     \* gold.governance_state
    pass,       \* the reconciler's pass in memory
    faults

vars == <<scene, mixed, armed, active, sidecar, preds, scorer, caster, drift, drifted, poller, watermark, bus, queue,
          cursor, pass, faults>>

Models == {"churn", "forecast"}
Subjects == [churn |-> scene.customers, forecast |-> scene.categories]
DriftWrites == scene.writes

NoScoring == [stage |-> "off", version |-> 0, todo |-> {}, fresh |-> {}, outbox |-> {}]
NoCasting == [on |-> FALSE, version |-> 0, todo |-> {}, outbox |-> {}]
NoPoll == [on |-> FALSE, events |-> {}, upto |-> 0]
NoPass == [stage |-> "off", events |-> {}, upto |-> 0, failed |-> FALSE, read |-> [preds |-> 0, drift |-> 0]]

-----------------------------------------------------------------------------
(* Events and rules                                                        *)

\* churnRankSQL: position among all rows of the version, highest score first,
\* ties by customer.
Outranks(a, b) ==
    LET x == preds[a]  y == preds[b]  p == Risk[x.version][x.entity]
        q == Risk[y.version][y.entity] IN
    /\ x.model = "churn" /\ x.version = y.version
    /\ \/ p > q
       \/ p = q /\ x.entity < y.entity
       \/ p = q /\ x.entity = y.entity /\ a < b

Rank(i) == 1 + Cardinality({j \in DOMAIN preds : Outranks(j, i)})

ChurnEvent(i, rank) ==
    [kind |-> "churn", entity |-> preds[i].entity, key |-> i, rank |-> rank,
     fires |-> rank \in 1 .. TopN /\ Risk[preds[i].version][preds[i].entity] >= Bar]

\* The row of a forecast has all that its event says. There is one week to
\* forecast, so the category is the key and the forecast's run.
ForecastEvent(row) ==
    [kind |-> "forecast", entity |-> row.entity, key |-> row.entity, run |-> row.entity,
     fires |-> row.entity \in Surge[row.version]]

PredictionEvent(i, rank) ==
    IF preds[i].model = "churn" THEN ChurnEvent(i, rank) ELSE ForecastEvent(preds[i])

\* DriftRun.Add: the worst status of the rows wins.
Worst(S) == IF \E r \in S : r.status = "critical" THEN "critical"
            ELSE IF \E r \in S : r.status = "warning" THEN "warning" ELSE "ok"

\* Mutant: the key is made from the findings that were read.
DriftKeyOfFindings(run, S) == <<run, S>>

\* dedupKey: model and time of the run, whatever its rows say.
DriftKey(run, S) == run

DriftEvent(run, S) ==
    [kind |-> "drift", entity |-> run[1], key |-> DriftKey(run, S), run |-> run,
     fires |-> Worst(S) = "critical"]

\* One event for each run, from those of its rows that were read.
DriftEvents(ids) ==
    LET runs == {<<drift[i].model, drift[i].at>> : i \in ids}
        of(run) == {drift[i] : i \in {j \in ids : <<drift[j].model, drift[j].at>> = run}}
    IN {DriftEvent(run, of(run)) : run \in runs}

\* Engine.Handle with Service.Propose: a rule that fires makes a proposal,
\* unless its key is known or the entity has one open.
Proposes(e) == /\ e.kind \in armed /\ e.fires
               /\ \A p \in queue : p.kind = e.kind =>
                      p.event.key # e.key /\ ~(p.open /\ p.event.entity = e.entity)

Handled(e) == IF Proposes(e) THEN queue \union {[kind |-> e.kind, event |-> e, open |-> TRUE]}
              ELSE queue

Fault == faults < MaxFaults /\ faults' = faults + 1

\* Mutant: the channel takes what it is given.
SentAlways(e) == Append(bus, e)

\* Publish and PublishWait: a full channel costs the event.
Sent(e) == IF Len(bus) < SubBuffer THEN Append(bus, e) ELSE bus

-----------------------------------------------------------------------------
Init ==
    /\ scene \in Scenes /\ armed \in scene.armings
    /\ active = [m \in Models |-> 1] /\ sidecar = active
    /\ preds = <<>> /\ scorer = NoScoring /\ mixed = {} /\ caster = NoCasting
    /\ drift = <<>> /\ drifted = 0 /\ poller = NoPoll /\ watermark = 0
    /\ bus = <<>> /\ queue = {}
    /\ cursor = [preds |-> 0, drift |-> 0] /\ pass = NoPass
    /\ faults = 0

\* A human flips the registry; the sidecar serves what it has loaded.
Promote ==
    /\ \E m \in Models : /\ active[m] < scene.versions[m]
                         /\ active' = [active EXCEPT ![m] = @ + 1]
    /\ UNCHANGED <<scene, mixed, armed, sidecar, preds, scorer, caster, drift, drifted, poller, watermark, bus, queue, cursor, pass, faults>>

\* The sidecar is restarted, later, with the manifest of the active versions.
Reload ==
    /\ sidecar # active
    /\ sidecar' = active
    /\ UNCHANGED <<scene, mixed, armed, active, preds, scorer, caster, drift, drifted, poller, watermark, bus, queue, cursor, pass, faults>>

(* ChurnScorer.Once *)

\* Mutant: a pass takes everyone, scored or not.
UnscoredOrNot(m) == Subjects[m]

\* NOT EXISTS in the queries of the two workers.
Unscored(m) == {e \in Subjects[m] :
    \A i \in DOMAIN preds : preds[i] # [model |-> m, entity |-> e, version |-> active[m]]}

\* ScoreAndPersist: the row carries the version the sidecar answered with.
Row(m, e) == [model |-> m, entity |-> e, version |-> sidecar[m]]

\* The bound on passes that come to nothing.
MayPass(m) == sidecar[m] < active[m] => Len(preds) < MaxRows

ScoreStart ==
    /\ "churn" \in armed /\ MayPass("churn")
    /\ scorer.stage = "off" /\ Unscored("churn") # {}
    /\ scorer' = [NoScoring EXCEPT !.stage = "score", !.version = active.churn, !.todo = Unscored("churn")]
    /\ UNCHANGED <<scene, mixed, armed, active, sidecar, preds, caster, drift, drifted, poller, watermark, bus, queue, cursor, pass, faults>>

ScoreNext ==
    /\ scorer.stage = "score" /\ scorer.todo # {}
    /\ LET c == Min(scorer.todo) IN
       /\ preds' = Append(preds, Row("churn", c))
       /\ scorer' = [scorer EXCEPT !.todo = @ \ {c}, !.fresh = @ \union {Len(preds) + 1}]
    /\ UNCHANGED <<scene, mixed, armed, active, sidecar, caster, drift, drifted, poller, watermark, bus, queue, cursor, pass, faults>>

\* An error ends the pass; the row may be stored all the same.
ScoreFails ==
    /\ scorer.stage = "score" /\ scorer.todo # {} /\ Fault
    /\ preds' \in {preds, Append(preds, Row("churn", Min(scorer.todo)))}
    /\ scorer' = NoScoring
    /\ UNCHANGED <<scene, mixed, armed, active, sidecar, caster, drift, drifted, poller, watermark, bus, queue, cursor, pass>>

\* The rows of the pass with the version that it asked for.
Answered == {i \in scorer.fresh : preds[i].version = scorer.version}

Mixed == IF Answered = scorer.fresh THEN mixed ELSE mixed \union Answered

\* Mutant: the rows of the pass are ranked among themselves.
RankPassOnly ==
    /\ scorer.stage = "score" /\ scorer.todo = {}
    /\ LET rank(i) == 1 + Cardinality({j \in Answered : Outranks(j, i)})
       IN scorer' = [scorer EXCEPT !.stage = "publish",
                       !.outbox = {ChurnEvent(i, rank(i)) : i \in Answered}]
    /\ mixed' = Mixed
    /\ UNCHANGED <<scene, armed, active, sidecar, preds, caster, drift, drifted, poller, watermark, bus, queue, cursor, pass, faults>>

\* RankedChurnScores, after the last customer.
RankFresh ==
    /\ scorer.stage = "score" /\ scorer.todo = {}
    /\ scorer' = [scorer EXCEPT !.stage = "publish",
                     !.outbox = {ChurnEvent(i, Rank(i)) : i \in Answered}]
    /\ mixed' = Mixed
    /\ UNCHANGED <<scene, armed, active, sidecar, preds, caster, drift, drifted, poller, watermark, bus, queue, cursor, pass, faults>>

\* The best ranked first.
PublishChurn ==
    /\ scorer.stage = "publish"
    /\ \/ scorer.outbox = {} /\ scorer' = NoScoring /\ UNCHANGED bus
       \/ \E e \in scorer.outbox :
             /\ \A f \in scorer.outbox : e.rank <= f.rank
             /\ bus' = Sent(e)
             /\ scorer' = [scorer EXCEPT !.outbox = @ \ {e}]
    /\ UNCHANGED <<scene, mixed, armed, active, sidecar, preds, caster, drift, drifted, poller, watermark, queue, cursor, pass, faults>>

-----------------------------------------------------------------------------
(* ForecastWorker.Once: a category the version was not trained on is skipped, *)
(* pass after pass.                                                           *)

Forecastable == Unscored("forecast") \cap Ranked[active.forecast]

CastStart ==
    /\ "forecast" \in armed /\ MayPass("forecast")
    /\ ~caster.on /\ Forecastable # {}
    /\ caster' = [NoCasting EXCEPT !.on = TRUE, !.version = active.forecast, !.todo = Forecastable]
    /\ UNCHANGED <<scene, mixed, armed, active, sidecar, preds, scorer, drift, drifted, poller, watermark, bus, queue, cursor, pass, faults>>

CastNext ==
    /\ caster.on /\ caster.outbox = {} /\ caster.todo # {}
    /\ LET k == Min(caster.todo) IN
       /\ preds' = Append(preds, Row("forecast", k))
       /\ caster' = [caster EXCEPT !.todo = @ \ {k}, !.outbox = {ForecastEvent(Row("forecast", k))}]
    /\ UNCHANGED <<scene, mixed, armed, active, sidecar, scorer, drift, drifted, poller, watermark, bus, queue, cursor, pass, faults>>

\* An error ends the pass, as in the churn scorer.
CastFails ==
    /\ caster.on /\ caster.outbox = {} /\ caster.todo # {} /\ Fault
    /\ preds' \in {preds, Append(preds, Row("forecast", Min(caster.todo)))}
    /\ caster' = NoCasting
    /\ UNCHANGED <<scene, mixed, armed, active, sidecar, scorer, drift, drifted, poller, watermark, bus, queue, cursor, pass>>

\* The event of a category is published before the next one is scored.
CastPublish ==
    /\ caster.on
    /\ \/ \E e \in caster.outbox : bus' = Sent(e) /\ caster' = [caster EXCEPT !.outbox = @ \ {e}]
       \/ caster.outbox = {} /\ caster.todo = {} /\ caster' = NoCasting /\ UNCHANGED bus
    /\ UNCHANGED <<scene, mixed, armed, active, sidecar, preds, scorer, drift, drifted, poller, watermark, queue, cursor, pass, faults>>

-----------------------------------------------------------------------------
(* drift_check and the poller *)

\* One transaction for all the rows of a measurement.
DriftCheck ==
    /\ drifted < Len(DriftWrites)
    /\ drifted' = drifted + 1
    /\ drift' = drift \o DriftWrites[drifted + 1]
    /\ UNCHANGED <<scene, mixed, armed, active, sidecar, preds, scorer, caster, poller, watermark, bus, queue, cursor, pass, faults>>

PollRead ==
    /\ ~poller.on /\ Len(drift) > watermark
    /\ poller' = [on |-> TRUE, upto |-> Len(drift),
                  events |-> DriftEvents(watermark + 1 .. Len(drift))]
    /\ UNCHANGED <<scene, mixed, armed, active, sidecar, preds, scorer, caster, drift, drifted, watermark, bus, queue, cursor, pass, faults>>

PollPublish ==
    /\ poller.on
    /\ \E e \in poller.events :
       /\ bus' = Sent(e)
       /\ poller' = [poller EXCEPT !.events = @ \ {e}]
    /\ UNCHANGED <<scene, mixed, armed, active, sidecar, preds, scorer, caster, drift, drifted, watermark, queue, cursor, pass, faults>>

PollWrite ==
    /\ poller.on /\ poller.events = {}
    /\ \/ watermark' = poller.upto /\ UNCHANGED faults
       \/ Fault /\ UNCHANGED watermark
    /\ poller' = NoPoll
    /\ UNCHANGED <<scene, mixed, armed, active, sidecar, preds, scorer, caster, drift, drifted, bus, queue, cursor, pass>>

-----------------------------------------------------------------------------
(* The engine's live loop, the human, the reconciler *)

\* Handle from the bus: a proposal that cannot be stored is lost here.
EngineHandle ==
    /\ bus # <<>>
    /\ bus' = Tail(bus)
    /\ \/ queue' = Handled(Head(bus)) /\ UNCHANGED faults
       \/ Proposes(Head(bus)) /\ Fault /\ UNCHANGED queue
    /\ UNCHANGED <<scene, mixed, armed, active, sidecar, preds, scorer, caster, drift, drifted, poller, watermark, cursor, pass>>

\* The proposal is decided and no longer open.
Settle ==
    /\ \E p \in queue : p.open /\ p.kind \in Decided /\ queue' = (queue \ {p}) \union {[p EXCEPT !.open = FALSE]}
    /\ UNCHANGED <<scene, mixed, armed, active, sidecar, preds, scorer, caster, drift, drifted, poller, watermark, bus, cursor, pass, faults>>

\* The rows of scoredSources above a cursor.
Scanned(from, upto) == {i \in from + 1 .. upto : preds[i].model \in armed}

\* Where the first n of these rows end (LIMIT).
UpTo(from, ids, n) == Max({from} \union {i \in ids : Cardinality({j \in ids : j <= i}) <= n})

\* readWatermark and the query of scanPredictions.
PassRead ==
    /\ pass.stage = "off"
    /\ LET ids == Scanned(cursor.preds, Len(preds)) IN
       /\ ids # {} \/ ("drift" \in armed /\ Len(drift) > cursor.drift)
       /\ pass' = [NoPass EXCEPT !.stage = "rank", !.read = cursor,
                                 !.upto = UpTo(cursor.preds, ids, PredictionBatch)]
    /\ UNCHANGED <<scene, mixed, armed, active, sidecar, preds, scorer, caster, drift, drifted, poller, watermark, bus, queue, cursor, faults>>

\* Mutant: the reconstructed events carry no rank.
PassRankMissing ==
    /\ pass.stage = "rank"
    /\ pass' = [pass EXCEPT !.stage = "preds",
                  !.events = {PredictionEvent(i, 0) : i \in Scanned(pass.read.preds, pass.upto)}]
    /\ UNCHANGED <<scene, mixed, armed, active, sidecar, preds, scorer, caster, drift, drifted, poller, watermark, bus, queue, cursor, faults>>

\* The rank query of scanPredictions, later than the first and no part of it.
PassRank ==
    /\ pass.stage = "rank"
    /\ pass' = [pass EXCEPT !.stage = "preds",
                  !.events = {PredictionEvent(i, Rank(i)) : i \in Scanned(pass.read.preds, pass.upto)}]
    /\ UNCHANGED <<scene, mixed, armed, active, sidecar, preds, scorer, caster, drift, drifted, poller, watermark, bus, queue, cursor, faults>>

\* Handle in the pass: a failure is counted.
PassHandle ==
    /\ pass.stage \in {"preds", "drift"}
    /\ \E e \in pass.events :
       \/ /\ queue' = Handled(e)
          /\ pass' = [pass EXCEPT !.events = @ \ {e}]
          /\ UNCHANGED faults
       \/ /\ Proposes(e) /\ Fault
          /\ pass' = [pass EXCEPT !.events = @ \ {e}, !.failed = TRUE]
          /\ UNCHANGED queue
    /\ UNCHANGED <<scene, mixed, armed, active, sidecar, preds, scorer, caster, drift, drifted, poller, watermark, bus, cursor>>

\* Mutant: the new cursor is taken although a proposal was not stored.
ReachedAlways(old) == pass.upto

\* The cursor a scan hands on: the old one when a proposal failed.
Reached(old) == IF pass.failed THEN old ELSE pass.upto

\* The predictions are through: scanDrift, if there is a rule for it.
PassDrift ==
    /\ pass.stage = "preds" /\ pass.events = {}
    /\ LET from == pass.read.drift
           ids == IF "drift" \in armed THEN from + 1 .. Len(drift) ELSE {}
           last == UpTo(from, ids, DriftBatch) IN
       pass' = [stage |-> "drift", upto |-> last, failed |-> FALSE,
                events |-> DriftEvents(from + 1 .. last),
                read |-> [pass.read EXCEPT !.preds = Reached(@)]]
    /\ UNCHANGED <<scene, mixed, armed, active, sidecar, preds, scorer, caster, drift, drifted, poller, watermark, bus, queue, cursor, faults>>

\* writeWatermark, both cursors at once.
PassWrite ==
    /\ pass.stage = "drift" /\ pass.events = {}
    /\ cursor' = [pass.read EXCEPT !.drift = Reached(@)]
    /\ pass' = NoPass
    /\ UNCHANGED <<scene, mixed, armed, active, sidecar, preds, scorer, caster, drift, drifted, poller, watermark, bus, queue, faults>>

\* A query of the pass fails; neither cursor is written.
PassFails ==
    /\ pass.stage # "off" /\ Fault
    /\ pass' = NoPass
    /\ UNCHANGED <<scene, mixed, armed, active, sidecar, preds, scorer, caster, drift, drifted, poller, watermark, bus, queue, cursor>>

\* The next process reads playbooks.yml anew.
Crash ==
    /\ Fault
    /\ scorer' = NoScoring /\ caster' = NoCasting /\ poller' = NoPoll /\ pass' = NoPass /\ bus' = <<>>
    /\ armed' \in scene.armings
    /\ UNCHANGED <<scene, mixed, active, sidecar, preds, drift, drifted, watermark, queue, cursor>>

Scorer == ScoreStart \/ ScoreNext \/ RankFresh \/ PublishChurn
Caster == CastStart \/ CastNext \/ CastPublish
Poller == PollRead \/ PollPublish \/ PollWrite
Reconcile == PassRead \/ PassRank \/ PassHandle \/ PassDrift \/ PassWrite
Next ==
    \/ Promote \/ Reload \/ Scorer \/ ScoreFails \/ Caster \/ CastFails \/ DriftCheck \/ Poller
    \/ EngineHandle \/ Settle \/ Reconcile \/ PassFails \/ Crash

\* The goroutines run; nobody owes a promotion, a restart of the sidecar, a
\* measurement or a decision.
Fairness == WF_vars(Scorer) /\ WF_vars(Caster) /\ WF_vars(Poller) /\ WF_vars(EngineHandle) /\ WF_vars(Reconcile)

Spec == Init /\ [][Next]_vars
FairSpec == Spec /\ Fairness

-----------------------------------------------------------------------------
Event == [kind : {"churn"}, entity : Population, key : Nat, rank : Nat,
          fires : BOOLEAN]

\* Types: cursors and watermark never pass the table they read.
TypeOK ==
    /\ scene \in Scenes /\ armed \in scene.armings
    /\ \A m \in Models : active[m] \in 1 .. scene.versions[m] /\ sidecar[m] \in 1 .. active[m]
    /\ \A i \in DOMAIN preds : LET m == preds[i].model IN
           m \in Models /\ preds[i].entity \in Subjects[m] /\ preds[i].version \in 1 .. active[m]
    /\ cursor.preds \in 0 .. Len(preds) /\ cursor.drift \in 0 .. Len(drift)
    /\ watermark \in 0 .. Len(drift)
    /\ Len(bus) <= SubBuffer
    /\ \A p \in queue : p.kind = "churn" => p.event \in Event
    /\ faults \in 0 .. MaxFaults

\* batchscore/churn.go: "They score a fixed population once per ACTIVE model
\* version"; config/playbooks.yml: "one score per customer per model version".
ScoredOncePerVersion == \A i, j \in DOMAIN preds : preds[i] = preds[j] => i = j

\* What the code keeps of it: a version has scored nobody twice while it is the
\* active one, through passes cut short and resumed, restarts, and promotions
\* and restarts of the sidecar in the middle of a pass.  Rows that repeat were
\* answered by a sidecar that serves a superseded version.
ScoredOnceWhileActive == \A i, j \in DOMAIN preds :
    preds[i] = preds[j] /\ i # j => preds[i].version < active[preds[i].model]

\* A live event of the active version carries its customer's rank in the whole
\* population, also when the pass was cut short and resumed, or the sidecar
\* lagged behind before it, so the live path never proposes below the cap; only
\* a pass that the restart of the sidecar fell into, or that it answered with
\* the wrong version, ranks a part.
LiveRankFinal == \A n \in DOMAIN bus :
    LET e == bus[n] IN
    e.kind = "churn" /\ preds[e.key].version = active.churn /\ e.key \notin mixed =>
        /\ Unscored("churn") = {}
        /\ e.rank = Rank(e.key)

\* A drift run is proposed once, although the poller and the reconciler both
\* merge its rows, each perhaps more than once and from a part of them, and the
\* first proposal may be decided in between (docs/phase4.md: "replaying a drift
\* run never re-proposes"). So is a category's week, whichever versions
\* forecast it.
OneProposalPerRun == \A p, q \in queue :
    p.kind = q.kind /\ p.kind # "churn" /\ p.event.run = q.event.run => p = q

IsProposed(kind, entity) == \E p \in queue : p.kind = kind /\ p.event.entity = entity

\* What the rule of the row's source is about, as the rows stand.
Due(i) == PredictionEvent(i, Rank(i)).fires

\* Neither cursor passes a row that calls for a human before one was called:
\* a customer who is within the cap by all rows stored so far, a category with a
\* surge, a critical finding, although the rows were ranked before later ones
\* came, a batch may end between the findings of a run, and proposals may fail.
CursorsCover ==
    /\ \A i \in 1 .. cursor.preds : Due(i) => IsProposed(preds[i].model, preds[i].entity)
    /\ \A i \in 1 .. cursor.drift :
          drift[i].status = "critical" => IsProposed("drift", drift[i].model)

\* Hypothesis: the rules whose rows share a cursor are switched together.
SwitchedTogether == \A s \in Scenes : \A a, b \in s.armings :
    a \cap Models # {} /\ b \cap Models # {} => a \cap Models = b \cap Models

CriticalRuns == {<<drift[i].model, drift[i].at>> : i \in {j \in DOMAIN drift : drift[j].status = "critical"}}

\* A critical run brings its model before a human: the drop of its event, a
\* crash of the poller, a batch limit that cuts the run in two or a restart with
\* the rule disabled for a while costs nothing.
CriticalDriftProposed == <>[]("drift" \in armed => \A run \in CriticalRuns : IsProposed("drift", run[1]))

\* The customers the rule is about, once the population is scored.
Top == {preds[i].entity : i \in {j \in DOMAIN preds :
    /\ preds[j].model = "churn" /\ preds[j].version = active.churn
    /\ Rank(j) <= TopN /\ Risk[active.churn][preds[j].entity] >= Bar}}

Surging == {preds[i].entity : i \in {j \in DOMAIN preds :
    preds[j].model = "forecast" /\ preds[j].entity \in Surge[preds[j].version]}}

\* Every customer of the final top and every category with a surge is proposed,
\* whatever the bus drops and wherever a pass was cut: a rank may only improve
\* on the final one.  All are scored once the sidecar serves the active version.
TopProposed == <>[](
    /\ "churn" \in armed /\ sidecar.churn = active.churn =>
          /\ Unscored("churn") = {}
          /\ \A c \in Top : IsProposed("churn", c)
    /\ "forecast" \in armed /\ sidecar.forecast = active.forecast =>
          /\ Forecastable = {}
          /\ \A k \in Surging : IsProposed("forecast", k))
=============================================================================
