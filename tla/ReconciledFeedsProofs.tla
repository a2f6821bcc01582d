------------------------- MODULE ReconciledFeedsProofs -------------------------
(***************************************************************************)
(* Theorems about ReconciledFeeds, for any population, models, rows of      *)
(* drift, batch limits and bounds.                                          *)
(***************************************************************************)
EXTENDS ReconciledFeeds, FiniteSetTheorems, WellFoundedInduction, TLAPS

ScorerFields == {"stage", "version", "todo", "fresh", "outbox"}
CasterFields == {"on", "version", "todo", "outbox"}
PollerFields == {"on", "events", "upto"}
PassFields == {"stage", "events", "upto", "failed", "read"}

\* The passes in memory are records with these fields.
Shapes ==
    /\ DOMAIN scorer = ScorerFields /\ DOMAIN caster = CasterFields
    /\ DOMAIN poller = PollerFields /\ DOMAIN pass = PassFields

Published(e) == bus' = Sent(e)

----------------------------------------------------------------------------
(* One proposal for a run                                                   *)

\* The key under which a forecast or a drift run is proposed names the run.
Keyed(e) == e.kind # "churn" => e.key = e.run

InFlight == scorer.outbox \union caster.outbox \union poller.events \union pass.events

BusKeyed == \E S : bus \in Seq(S) /\ \A e \in S : Keyed(e)

QueueKeyed ==
    /\ \A p \in queue : /\ DOMAIN p = {"kind", "event", "open"}
                        /\ p.kind = p.event.kind /\ Keyed(p.event)
    /\ \A p, q \in queue : p.kind = q.kind /\ p.event.key = q.event.key => p = q

FlightKeyed == \A e \in InFlight : Keyed(e)

KeyInv == Shapes /\ FlightKeyed /\ BusKeyed /\ QueueKeyed

LEMMA DriftEventsKeyed ==
    ASSUME NEW ids
    PROVE  \A e \in DriftEvents(ids) : Keyed(e)
<1> SUFFICES ASSUME NEW e \in DriftEvents(ids)
             PROVE  e.key = e.run
  BY DEF Keyed
<1>1. \A run, S : DriftEvent(run, S).key = DriftEvent(run, S).run
  BY DEF DriftEvent, DriftKey
<1>2. \E run, S : e = DriftEvent(run, S)
  BY DEF DriftEvents
<1>3. QED
  BY <1>1, <1>2

LEMMA PredictionEventsKeyed ==
    ASSUME NEW i, NEW rank
    PROVE  /\ Keyed(ChurnEvent(i, rank)) /\ Keyed(PredictionEvent(i, rank))
           /\ \A row : Keyed(ForecastEvent(row))
<1>1. ChurnEvent(i, rank).kind = "churn"
  BY DEF ChurnEvent
<1>2. ASSUME NEW row
      PROVE  ForecastEvent(row).key = ForecastEvent(row).run
  BY DEF ForecastEvent
<1>3. QED
  BY <1>1, <1>2 DEF Keyed, PredictionEvent

\* A sequence stays one when an event is sent.
LEMMA SentIsSeq ==
    ASSUME NEW S, bus \in Seq(S), NEW e
    PROVE  Sent(e) \in Seq(S \union {e})
<1>1. bus \in Seq(S \union {e})
  OBVIOUS
<1>2. QED
  BY <1>1 DEF Sent

LEMMA BusKept ==
    ASSUME BusKeyed,
           \/ UNCHANGED bus \/ bus' = <<>> \/ (bus # <<>> /\ bus' = Tail(bus))
           \/ \E e : Keyed(e) /\ Published(e)
    PROVE  BusKeyed'
<1>1. PICK S : bus \in Seq(S) /\ \A e \in S : Keyed(e)
  BY DEF BusKeyed
<1>2. CASE UNCHANGED bus \/ bus' = <<>> \/ (bus # <<>> /\ bus' = Tail(bus))
  <2>1. bus' \in Seq(S)
    <3>1. <<>> \in Seq(S) /\ (bus # <<>> => Tail(bus) \in Seq(S))
      BY <1>1
    <3>2. QED
      BY <1>1, <1>2, <3>1
  <2>2. QED
    BY <1>1, <2>1 DEF BusKeyed, Keyed
<1>3. CASE \E e : Keyed(e) /\ Published(e)
  <2>1. PICK e : Keyed(e) /\ Published(e)
    BY <1>3
  <2>2. bus' \in Seq(S \union {e})
    BY <1>1, <2>1, SentIsSeq DEF Published
  <2>3. \A f \in S \union {e} : Keyed(f)
    BY <1>1, <2>1
  <2>4. QED
    BY <2>2, <2>3 DEF BusKeyed, Keyed
<1>4. QED
  BY <1>2, <1>3

\* Handling an event adds a proposal only under a key that is new.
LEMMA HandledKeyed ==
    ASSUME QueueKeyed, NEW e, Keyed(e), queue' = Handled(e)
    PROVE  QueueKeyed'
<1>1. CASE ~Proposes(e)
  BY <1>1 DEF Handled, QueueKeyed, Keyed
<1>2. CASE Proposes(e)
  <2> DEFINE new == [kind |-> e.kind, event |-> e, open |-> TRUE]
  <2>1. queue' = queue \union {new}
    BY <1>2 DEF Handled
  <2>2. /\ DOMAIN new = {"kind", "event", "open"}
        /\ new.kind = e.kind /\ new.event = e
    OBVIOUS
  <2>3. \A p \in queue : p.kind = e.kind => p.event.key # e.key
    BY <1>2 DEF Proposes
  <2> HIDE DEF new
  <2>4. ASSUME NEW p \in queue'
        PROVE  /\ DOMAIN p = {"kind", "event", "open"}
               /\ p.kind = p.event.kind /\ Keyed(p.event)
    BY <2>1, <2>2 DEF QueueKeyed
  <2>5. ASSUME NEW p \in queue', NEW q \in queue',
               p.kind = q.kind, p.event.key = q.event.key
        PROVE  p = q
    BY <2>1, <2>2, <2>3, <2>5 DEF QueueKeyed
  <2>6. QED
    BY <2>4, <2>5 DEF QueueKeyed, Keyed
<1>3. QED
  BY <1>1, <1>2

LEMMA KeyInit == Init => KeyInv
<1> SUFFICES ASSUME Init PROVE KeyInv
  OBVIOUS
<1>1. scorer = NoScoring /\ caster = NoCasting /\ poller = NoPoll /\ pass = NoPass
  BY DEF Init
<1>2. Shapes
  BY <1>1 DEF Shapes, NoScoring, NoCasting, NoPoll, NoPass, ScorerFields, CasterFields,
     PollerFields, PassFields
<1>3. FlightKeyed
  BY <1>1 DEF FlightKeyed, InFlight, NoScoring, NoCasting, NoPoll, NoPass
<1>4. BusKeyed
  <2>1. bus = <<>> /\ <<>> \in Seq({})
    BY DEF Init
  <2>2. QED
    BY <2>1 DEF BusKeyed
<1>5. QED
  BY <1>2, <1>3, <1>4 DEF KeyInv, Init, QueueKeyed

\* The four passes in memory are apart.
LEMMA KeyParts ==
    ASSUME Shapes', BusKeyed', QueueKeyed',
           \A e \in scorer'.outbox : Keyed(e), \A e \in caster'.outbox : Keyed(e),
           \A e \in poller'.events : Keyed(e), \A e \in pass'.events : Keyed(e)
    PROVE  KeyInv'
<1>1. FlightKeyed'
  BY DEF FlightKeyed, InFlight, Keyed
<1>2. QED
  BY <1>1 DEF KeyInv

LEMMA KeyFlights ==
    ASSUME KeyInv
    PROVE  /\ \A e \in scorer.outbox : Keyed(e)
           /\ \A e \in caster.outbox : Keyed(e)
           /\ \A e \in poller.events : Keyed(e)
           /\ \A e \in pass.events : Keyed(e)
  BY DEF KeyInv, FlightKeyed, InFlight

LEMMA QueueStays ==
    ASSUME KeyInv, UNCHANGED queue
    PROVE  QueueKeyed'
  BY DEF KeyInv, QueueKeyed, Keyed

\* The workers and the poller send what they hold.
LEMMA KeyScorer ==
    ASSUME KeyInv, Scorer \/ ScoreFails
    PROVE  KeyInv'
<1>1. UNCHANGED <<caster, poller, pass, queue>>
  BY DEF Scorer, ScoreStart, ScoreNext, RankFresh, PublishChurn, ScoreFails
<1>2. /\ DOMAIN scorer' = ScorerFields
      /\ \A e \in scorer'.outbox : Keyed(e)
      /\ UNCHANGED bus \/ \E e : Keyed(e) /\ Published(e)
  <2>0. DOMAIN scorer = ScorerFields /\ \A e \in scorer.outbox : Keyed(e)
    BY KeyFlights DEF KeyInv, Shapes
  <2>1. CASE ScoreStart
    BY <2>1 DEF ScoreStart, NoScoring, ScorerFields
  <2>2. CASE ScoreNext
    <3>1. PICK c : scorer' = [scorer EXCEPT !.todo = @ \ {c}, !.fresh = @ \union {Len(preds) + 1}]
      BY <2>2 DEF ScoreNext
    <3>2. scorer'.outbox = scorer.outbox /\ DOMAIN scorer' = ScorerFields
      BY <2>0, <3>1 DEF ScorerFields
    <3>3. QED
      BY <2>0, <2>2, <3>2 DEF ScoreNext
  <2>3. CASE ScoreFails
    BY <2>3 DEF ScoreFails, NoScoring, ScorerFields
  <2>4. CASE RankFresh
    <3>1. PICK ids : scorer' = [scorer EXCEPT !.stage = "publish",
                                 !.outbox = {ChurnEvent(i, Rank(i)) : i \in ids}]
      BY <2>4 DEF RankFresh
    <3>2. /\ DOMAIN scorer' = ScorerFields
          /\ scorer'.outbox = {ChurnEvent(i, Rank(i)) : i \in ids}
      BY <2>0, <3>1 DEF ScorerFields
    <3>3. QED
      BY <2>4, <3>2, PredictionEventsKeyed DEF RankFresh
  <2>5. CASE PublishChurn
    <3>1. CASE scorer' = NoScoring /\ UNCHANGED bus
      BY <3>1 DEF NoScoring, ScorerFields
    <3>2. CASE \E e \in scorer.outbox : bus' = Sent(e) /\ scorer' = [scorer EXCEPT !.outbox = @ \ {e}]
      <4>1. PICK e \in scorer.outbox :
                bus' = Sent(e) /\ scorer' = [scorer EXCEPT !.outbox = @ \ {e}]
        BY <3>2
      <4>2. DOMAIN scorer' = ScorerFields /\ scorer'.outbox = scorer.outbox \ {e}
        BY <2>0, <4>1 DEF ScorerFields
      <4>3. QED
        BY <2>0, <4>1, <4>2 DEF Published
    <3>3. QED
      BY <2>5, <3>1, <3>2 DEF PublishChurn
  <2>6. QED
    BY <2>1, <2>2, <2>3, <2>4, <2>5 DEF Scorer
<1>3. BusKeyed'
  BY <1>2, BusKept DEF KeyInv
<1>4. Shapes'
  BY <1>1, <1>2 DEF KeyInv, Shapes
<1>5. QED
  BY <1>1, <1>2, <1>3, <1>4, QueueStays, KeyFlights, KeyParts

LEMMA KeyCaster ==
    ASSUME KeyInv, Caster \/ CastFails
    PROVE  KeyInv'
<1>1. UNCHANGED <<scorer, poller, pass, queue>>
  BY DEF Caster, CastStart, CastNext, CastPublish, CastFails
<1>2. /\ DOMAIN caster' = CasterFields
      /\ \A e \in caster'.outbox : Keyed(e)
      /\ UNCHANGED bus \/ \E e : Keyed(e) /\ Published(e)
  <2>0. DOMAIN caster = CasterFields /\ \A e \in caster.outbox : Keyed(e)
    BY KeyFlights DEF KeyInv, Shapes
  <2>1. CASE CastStart
    BY <2>1 DEF CastStart, NoCasting, CasterFields
  <2>2. CASE CastNext
    <3>1. PICK k : caster' = [caster EXCEPT !.todo = @ \ {k},
                                            !.outbox = {ForecastEvent(Row("forecast", k))}]
      BY <2>2 DEF CastNext
    <3>2. DOMAIN caster' = CasterFields /\ caster'.outbox = {ForecastEvent(Row("forecast", k))}
      BY <2>0, <3>1 DEF CasterFields
    <3>3. QED
      BY <2>2, <3>2, PredictionEventsKeyed DEF CastNext
  <2>3. CASE CastFails
    BY <2>3 DEF CastFails, NoCasting, CasterFields
  <2>4. CASE CastPublish
    <3>1. CASE caster' = NoCasting /\ UNCHANGED bus
      BY <3>1 DEF NoCasting, CasterFields
    <3>2. CASE \E e \in caster.outbox : bus' = Sent(e) /\ caster' = [caster EXCEPT !.outbox = @ \ {e}]
      <4>1. PICK e \in caster.outbox :
                bus' = Sent(e) /\ caster' = [caster EXCEPT !.outbox = @ \ {e}]
        BY <3>2
      <4>2. DOMAIN caster' = CasterFields /\ caster'.outbox = caster.outbox \ {e}
        BY <2>0, <4>1 DEF CasterFields
      <4>3. QED
        BY <2>0, <4>1, <4>2 DEF Published
    <3>3. QED
      BY <2>4, <3>1, <3>2 DEF CastPublish
  <2>5. QED
    BY <2>1, <2>2, <2>3, <2>4 DEF Caster
<1>3. BusKeyed'
  BY <1>2, BusKept DEF KeyInv
<1>4. Shapes'
  BY <1>1, <1>2 DEF KeyInv, Shapes
<1>5. QED
  BY <1>1, <1>2, <1>3, <1>4, QueueStays, KeyFlights, KeyParts

LEMMA KeyPoller ==
    ASSUME KeyInv, Poller
    PROVE  KeyInv'
<1>1. UNCHANGED <<scorer, caster, pass, queue>>
  BY DEF Poller, PollRead, PollPublish, PollWrite
<1>2. /\ DOMAIN poller' = PollerFields
      /\ \A e \in poller'.events : Keyed(e)
      /\ UNCHANGED bus \/ \E e : Keyed(e) /\ Published(e)
  <2>0. DOMAIN poller = PollerFields /\ \A e \in poller.events : Keyed(e)
    BY KeyFlights DEF KeyInv, Shapes
  <2>1. CASE PollRead
    BY <2>1, DriftEventsKeyed DEF PollRead, PollerFields
  <2>2. CASE PollWrite
    BY <2>2 DEF PollWrite, NoPoll, PollerFields
  <2>3. CASE PollPublish
    <3>1. PICK e \in poller.events :
              bus' = Sent(e) /\ poller' = [poller EXCEPT !.events = @ \ {e}]
      BY <2>3 DEF PollPublish
    <3>2. DOMAIN poller' = PollerFields /\ poller'.events = poller.events \ {e}
      BY <2>0, <3>1 DEF PollerFields
    <3>3. QED
      BY <2>0, <3>1, <3>2 DEF Published
  <2>4. QED
    BY <2>1, <2>2, <2>3 DEF Poller
<1>3. BusKeyed'
  BY <1>2, BusKept DEF KeyInv
<1>4. Shapes'
  BY <1>1, <1>2 DEF KeyInv, Shapes
<1>5. QED
  BY <1>1, <1>2, <1>3, <1>4, QueueStays, KeyFlights, KeyParts

LEMMA KeyReconcile ==
    ASSUME KeyInv, Reconcile \/ PassFails
    PROVE  KeyInv'
<1>1. UNCHANGED <<scorer, caster, poller, bus>>
  BY DEF Reconcile, PassRead, PassRank, PassHandle, PassDrift, PassWrite, PassFails
<1>2. /\ DOMAIN pass' = PassFields
      /\ \A e \in pass'.events : Keyed(e)
      /\ UNCHANGED queue \/ \E e : Keyed(e) /\ queue' = Handled(e)
  <2>0. DOMAIN pass = PassFields /\ \A e \in pass.events : Keyed(e)
    BY KeyFlights DEF KeyInv, Shapes
  <2>1. CASE PassRead
    <3>1. PICK last : pass' = [NoPass EXCEPT !.stage = "rank", !.read = cursor, !.upto = last]
      BY <2>1 DEF PassRead
    <3>2. DOMAIN pass' = PassFields /\ pass'.events = {}
      BY <3>1 DEF NoPass, PassFields
    <3>3. QED
      BY <2>1, <3>2 DEF PassRead
  <2>2. CASE PassRank
    <3>1. PICK ids : pass' = [pass EXCEPT !.stage = "preds",
                                !.events = {PredictionEvent(i, Rank(i)) : i \in ids}]
      BY <2>2 DEF PassRank
    <3>2. DOMAIN pass' = PassFields /\ pass'.events = {PredictionEvent(i, Rank(i)) : i \in ids}
      BY <2>0, <3>1 DEF PassFields
    <3>3. QED
      BY <2>2, <3>2, PredictionEventsKeyed DEF PassRank
  <2>3. CASE PassHandle
    <3>1. PICK e \in pass.events :
              \/ queue' = Handled(e) /\ pass' = [pass EXCEPT !.events = @ \ {e}]
              \/ UNCHANGED queue /\ pass' = [pass EXCEPT !.events = @ \ {e}, !.failed = TRUE]
      BY <2>3 DEF PassHandle
    <3>2. DOMAIN pass' = PassFields /\ pass'.events = pass.events \ {e}
      BY <2>0, <3>1 DEF PassFields
    <3>3. QED
      BY <2>0, <3>1, <3>2
  <2>4. CASE PassDrift
    <3>1. PICK ids, last, read : pass' = [stage |-> "drift", upto |-> last, failed |-> FALSE,
                                          events |-> DriftEvents(ids), read |-> read]
      BY <2>4 DEF PassDrift
    <3>2. DOMAIN pass' = PassFields /\ pass'.events = DriftEvents(ids)
      BY <3>1 DEF PassFields
    <3>3. QED
      BY <2>4, <3>2, DriftEventsKeyed DEF PassDrift
  <2>5. CASE PassWrite \/ PassFails
    BY <2>5 DEF PassWrite, PassFails, NoPass, PassFields
  <2>6. QED
    BY <2>1, <2>2, <2>3, <2>4, <2>5 DEF Reconcile
<1>3. QueueKeyed'
  BY <1>2, HandledKeyed, QueueStays DEF KeyInv
<1>4. Shapes'
  BY <1>1, <1>2 DEF KeyInv, Shapes
<1>5. BusKeyed'
  BY <1>1, BusKept DEF KeyInv
<1>6. QED
  BY <1>1, <1>2, <1>3, <1>4, <1>5, KeyFlights, KeyParts

LEMMA KeyEngine ==
    ASSUME KeyInv, EngineHandle
    PROVE  KeyInv'
<1>1. /\ bus # <<>> /\ bus' = Tail(bus)
      /\ queue' = Handled(Head(bus)) \/ UNCHANGED queue
      /\ UNCHANGED <<scorer, caster, poller, pass>>
  BY DEF EngineHandle
<1>2. BusKeyed'
  BY <1>1, BusKept DEF KeyInv
<1>3. Keyed(Head(bus))
  <2>1. PICK S : bus \in Seq(S) /\ \A e \in S : Keyed(e)
    BY DEF KeyInv, BusKeyed
  <2>2. Head(bus) \in S
    BY <1>1, <2>1
  <2>3. QED
    BY <2>1, <2>2
<1>4. QueueKeyed'
  BY <1>1, <1>3, HandledKeyed, QueueStays DEF KeyInv
<1>5. Shapes'
  BY <1>1 DEF KeyInv, Shapes
<1>6. QED
  BY <1>1, <1>2, <1>4, <1>5, KeyFlights, KeyParts

\* A decision leaves the key of its proposal alone.
LEMMA KeySettle ==
    ASSUME KeyInv, Settle
    PROVE  KeyInv'
<1>1. PICK p \in queue : queue' = (queue \ {p}) \union {[p EXCEPT !.open = FALSE]}
  BY DEF Settle
<1> DEFINE new == [p EXCEPT !.open = FALSE]
<1>2. /\ DOMAIN new = {"kind", "event", "open"}
      /\ new.kind = p.kind /\ new.event = p.event
  BY DEF KeyInv, QueueKeyed
<1>3. queue' = (queue \ {p}) \union {new}
  BY <1>1
<1> HIDE DEF new
<1>4. ASSUME NEW q \in queue'
      PROVE  /\ DOMAIN q = {"kind", "event", "open"}
             /\ q.kind = q.event.kind /\ Keyed(q.event)
  BY <1>2, <1>3 DEF KeyInv, QueueKeyed
<1>5. ASSUME NEW q \in queue', NEW r \in queue', q.kind = r.kind, q.event.key = r.event.key
      PROVE  q = r
  BY <1>2, <1>3, <1>5 DEF KeyInv, QueueKeyed
<1>6. QueueKeyed'
  BY <1>4, <1>5 DEF QueueKeyed, Keyed
<1>7. UNCHANGED <<scorer, caster, poller, pass, bus>>
  BY DEF Settle
<1>8. Shapes' /\ BusKeyed'
  BY <1>7, BusKept DEF KeyInv, Shapes
<1>9. QED
  BY <1>6, <1>7, <1>8, KeyFlights, KeyParts

LEMMA KeyCrash ==
    ASSUME KeyInv, Crash
    PROVE  KeyInv'
<1>1. /\ scorer' = NoScoring /\ caster' = NoCasting /\ poller' = NoPoll /\ pass' = NoPass
      /\ bus' = <<>> /\ UNCHANGED queue
  BY DEF Crash
<1>2. Shapes'
  BY <1>1 DEF Shapes, NoScoring, NoCasting, NoPoll, NoPass, ScorerFields, CasterFields,
     PollerFields, PassFields
<1>3. BusKeyed' /\ QueueKeyed'
  BY <1>1, BusKept, QueueStays DEF KeyInv
<1>4. scorer'.outbox = {} /\ caster'.outbox = {} /\ poller'.events = {} /\ pass'.events = {}
  BY <1>1 DEF NoScoring, NoCasting, NoPoll, NoPass
<1>5. QED
  BY <1>2, <1>3, <1>4, KeyParts

LEMMA KeyOthers ==
    ASSUME KeyInv, Promote \/ Reload \/ DriftCheck \/ UNCHANGED vars
    PROVE  KeyInv'
<1>1. UNCHANGED <<scorer, caster, poller, pass, bus, queue>>
  BY DEF Promote, Reload, DriftCheck, vars
<1>2. Shapes' /\ BusKeyed' /\ QueueKeyed'
  BY <1>1, BusKept, QueueStays DEF KeyInv, Shapes
<1>3. QED
  BY <1>1, <1>2, KeyFlights, KeyParts

LEMMA KeyNext ==
    ASSUME KeyInv, [Next]_vars
    PROVE  KeyInv'
  BY KeyScorer, KeyCaster, KeyPoller, KeyReconcile, KeyEngine, KeySettle, KeyCrash, KeyOthers
  DEF Next

\* docs/phase4.md, "replaying a drift run never re-proposes": whoever rebuilds
\* the event of a drift run, from whichever of its rows and however often, gives
\* it the key of the run, and a key is proposed once.  The same holds of the
\* week of a category.  No assumption is needed, not even one on the rows.
THEOREM RunsProposedOnce == Spec => []OneProposalPerRun
<1>1. KeyInv => OneProposalPerRun
  <2> SUFFICES ASSUME KeyInv, NEW p \in queue, NEW q \in queue, p.kind = q.kind,
                      p.kind # "churn", p.event.run = q.event.run
               PROVE  p = q
    BY DEF OneProposalPerRun
  <2>1. p.event.key = p.event.run /\ q.event.key = q.event.run
    BY DEF KeyInv, QueueKeyed, Keyed
  <2>2. QED
    BY <2>1 DEF KeyInv, QueueKeyed
<1>2. QED
  BY KeyInit, KeyNext, <1>1, PTL DEF Spec

----------------------------------------------------------------------------
(* One score for each version, and the rank of live events                  *)

PredRows == [model : Models, entity : Nat, version : Nat]

\* The table of predictions; the sidecar may lag behind the registry.
TableInv ==
    /\ scene \in Scenes
    /\ {active, sidecar} \subseteq [Models -> Nat]
    /\ \A m \in Models : sidecar[m] <= active[m]
    /\ preds \in Seq(PredRows)
    /\ \A i \in DOMAIN preds : preds[i].version <= active[preds[i].model]
    /\ ScoredOnceWhileActive

\* What a pass has still to score is unscored, by now perhaps for a newer
\* version than the pass began with.
TodoInv ==
    /\ scorer.stage = "score" => scorer.todo \subseteq Unscored("churn")
    /\ caster.on => caster.todo \subseteq Unscored("forecast")

\* While the version of its pass is the active one, and the one it is answered
\* with, the scorer has the whole of what is unscored before it.
ScorerInv == scorer.stage = "score" =>
    /\ scorer.version \in Nat /\ scorer.version <= active["churn"]
    /\ scorer.version = active["churn"] /\ Answered = scorer.fresh =>
          Unscored("churn") \subseteq scorer.todo
    /\ \A i \in scorer.fresh : i \in DOMAIN preds /\ preds[i].model = "churn"

\* An event of the active version was ranked in the whole population, unless
\* its pass is a mixed one.
Final(e) == e.kind = "churn" =>
    /\ e.key \in DOMAIN preds /\ preds[e.key].model = "churn"
    /\ preds[e.key].version = active["churn"] /\ e.key \notin mixed =>
          Unscored("churn") = {} /\ e.rank = Rank(e.key)

OutboxFinal == \A e \in scorer.outbox : Final(e)
BusFinal == \E S : bus \in Seq(S) /\ \A e \in S : Final(e)
OthersNotChurn == \A e \in caster.outbox \union poller.events : e.kind # "churn"

RankInv == TableInv /\ TodoInv /\ ScorerInv /\ OutboxFinal /\ BusFinal /\ OthersNotChurn

LEMMA MinIsElement ==
    ASSUME NEW S, S \subseteq Nat, S # {}
    PROVE  Min(S) \in S
<1>1. \E x \in S : \A y \in S : ~ (<<y, x>> \in OpToRel(<, Nat))
  BY NatLessThanWellFounded, WFMin
<1>2. PICK x \in S : \A y \in S : ~ (<<y, x>> \in OpToRel(<, Nat))
  BY <1>1
<1>3. ASSUME NEW y \in S
      PROVE  x <= y
  <2>1. x \in Nat /\ y \in Nat /\ <<y, x>> \in Nat \X Nat
    OBVIOUS
  <2>2. y < x => <<y, x>> \in OpToRel(<, Nat)
    BY <2>1 DEF OpToRel
  <2>3. ~(y < x)
    BY <1>2, <2>2, Zenon
  <2>4. QED
    BY <2>1, <2>3
<1>4. QED
  BY <1>2, <1>3 DEF Min

LEMMA SubjectsAreNumbers ==
    ASSUME scene \in Scenes
    PROVE  /\ Subjects["churn"] \subseteq Nat /\ Subjects["forecast"] \subseteq Nat
           /\ "churn" \in Models /\ "forecast" \in Models
  BY FeedAssumption DEF Subjects, Models

\* A row of an unscored subject is new, or of a version that is not the active
\* one, and takes at most that subject off.
LEMMA RowAppended ==
    ASSUME TableInv, NEW m \in Models, NEW x \in Unscored(m),
           preds' = Append(preds, Row(m, x)), UNCHANGED <<scene, active, sidecar>>
    PROVE  /\ TableInv'
           /\ Unscored(m)' = IF sidecar[m] = active[m] THEN Unscored(m) \ {x} ELSE Unscored(m)
           /\ \A k \in Models \ {m} : Unscored(k)' = Unscored(k)
           /\ DOMAIN preds \subseteq DOMAIN preds'
           /\ \A i \in DOMAIN preds : preds'[i] = preds[i]
           /\ Len(preds) + 1 \notin DOMAIN preds
           /\ DOMAIN preds' = DOMAIN preds \union {Len(preds) + 1}
           /\ preds'[Len(preds) + 1] = Row(m, x)
<1>1. /\ preds \in Seq(PredRows) /\ Len(preds) \in Nat /\ DOMAIN preds = 1 .. Len(preds)
      /\ active \in [Models -> Nat] /\ sidecar \in [Models -> Nat] /\ sidecar[m] <= active[m]
  BY DEF TableInv
<1>2. Row(m, x) = [model |-> m, entity |-> x, version |-> sidecar[m]]
  BY DEF Row
<1>3. x \in Nat
  BY SubjectsAreNumbers DEF TableInv, Unscored, Models
<1>4. Row(m, x) \in PredRows
  BY <1>1, <1>2, <1>3 DEF PredRows
<1>5. /\ preds' \in Seq(PredRows) /\ DOMAIN preds' = 1 .. Len(preds) + 1
      /\ \A i \in 1 .. Len(preds) : preds'[i] = preds[i]
      /\ preds'[Len(preds) + 1] = Row(m, x)
  BY <1>1, <1>4
<1>6. /\ DOMAIN preds' = DOMAIN preds \union {Len(preds) + 1}
      /\ Len(preds) + 1 \notin DOMAIN preds
      /\ \A i \in DOMAIN preds : preds'[i] = preds[i]
  BY <1>1, <1>5
<1>7. sidecar[m] = active[m] => \A i \in DOMAIN preds : preds[i] # Row(m, x)
  BY <1>2 DEF Unscored
<1>8. ScoredOnceWhileActive'
  <2> SUFFICES ASSUME NEW i \in DOMAIN preds', NEW j \in DOMAIN preds',
                      preds'[i] = preds'[j], i # j
               PROVE  preds'[i].version < active[preds'[i].model]
    BY DEF ScoredOnceWhileActive
  <2>1. CASE i \in DOMAIN preds /\ j \in DOMAIN preds
    BY <1>6, <2>1 DEF TableInv, ScoredOnceWhileActive
  <2>2. CASE ~(i \in DOMAIN preds /\ j \in DOMAIN preds)
    <3>1. preds'[i] = Row(m, x) /\ \E k \in DOMAIN preds : preds[k] = Row(m, x)
      BY <1>5, <1>6, <2>2
    <3>2. sidecar[m] < active[m]
      BY <1>1, <1>7, <3>1
    <3>3. QED
      BY <1>2, <3>1, <3>2
  <2>3. QED
    BY <2>1, <2>2
<1>9. TableInv'
  <2>1. Row(m, x).version <= active[Row(m, x).model]
    BY <1>1, <1>2
  <2>2. \A i \in DOMAIN preds' : preds'[i].version <= active[preds'[i].model]
    BY <1>5, <1>6, <2>1 DEF TableInv
  <2>3. QED
    BY <1>5, <1>8, <2>2 DEF TableInv
<1>10. Subjects' = Subjects
  BY DEF Subjects
<1>11. ASSUME NEW k \in Models, NEW y
       PROVE  y \in Unscored(k)' <=>
                 y \in Unscored(k) /\ ~(k = m /\ y = x /\ sidecar[m] = active[m])
  <2> DEFINE row == [model |-> k, entity |-> y, version |-> active[k]]
  <2>1. y \in Unscored(k) <=> y \in Subjects[k] /\ \A i \in DOMAIN preds : preds[i] # row
    BY DEF Unscored
  <2>2. y \in Unscored(k)' <=> y \in Subjects[k] /\ \A i \in DOMAIN preds' : preds'[i] # row
    BY <1>10 DEF Unscored
  <2>3. Row(m, x) = row <=> k = m /\ y = x /\ sidecar[m] = active[m]
    BY <1>2
  <2> HIDE DEF row
  <2>4. QED
    BY <1>5, <1>6, <2>1, <2>2, <2>3
<1>12. \A k \in Models \ {m} : Unscored(k)' = Unscored(k)
  BY <1>11
<1>13. Unscored(m)' = IF sidecar[m] = active[m] THEN Unscored(m) \ {x} ELSE Unscored(m)
  BY <1>11
<1>14. QED
  BY <1>5, <1>6, <1>9, <1>12, <1>13

\* The rank of a row stays when a row of another model is added.
LEMMA RankStays ==
    ASSUME NEW n, n \notin DOMAIN preds, DOMAIN preds' = DOMAIN preds \union {n},
           \A j \in DOMAIN preds : preds'[j] = preds[j],
           preds'[n].model # "churn",
           NEW i \in DOMAIN preds
    PROVE  Rank(i)' = Rank(i)
<1>1. ASSUME NEW j \in DOMAIN preds
      PROVE  Outranks(j, i)' <=> Outranks(j, i)
  BY DEF Outranks
<1>2. ~Outranks(n, i)'
  BY DEF Outranks
<1>3. {j \in DOMAIN preds : Outranks(j, i)}' = {j \in DOMAIN preds : Outranks(j, i)}
  BY <1>1, <1>2
<1>4. QED
  BY <1>3 DEF Rank

\* A final event stays final when a row is added or a version promoted.
LEMMA FinalAppended ==
    ASSUME TableInv, NEW m \in Models, NEW x \in Unscored(m),
           preds' = Append(preds, Row(m, x)), UNCHANGED <<scene, mixed, active, sidecar>>,
           NEW e, Final(e)
    PROVE  Final(e)'
<1> SUFFICES ASSUME e.kind = "churn"
             PROVE  /\ e.key \in DOMAIN preds' /\ preds'[e.key].model = "churn"
                    /\ preds'[e.key].version = active["churn"] /\ e.key \notin mixed =>
                          Unscored("churn")' = {} /\ e.rank = Rank(e.key)'
  BY DEF Final
<1>1. /\ DOMAIN preds' = DOMAIN preds \union {Len(preds) + 1}
      /\ \A i \in DOMAIN preds : preds'[i] = preds[i]
      /\ preds'[Len(preds) + 1] = Row(m, x)
      /\ \A k \in Models \ {m} : Unscored(k)' = Unscored(k)
  BY RowAppended
<1>2. e.key \in DOMAIN preds /\ preds[e.key].model = "churn"
  BY DEF Final
<1>3. ASSUME preds[e.key].version = active["churn"], e.key \notin mixed
      PROVE  Unscored("churn")' = {} /\ e.rank = Rank(e.key)'
  <2>1. Unscored("churn") = {} /\ e.rank = Rank(e.key)
    BY <1>3 DEF Final
  <2>2. m # "churn" /\ "churn" \in Models
    BY <2>1 DEF Models
  <2>3. preds'[Len(preds) + 1].model # "churn"
    BY <1>1, <2>2 DEF Row
  <2>4. Len(preds) + 1 \notin DOMAIN preds
    BY DEF TableInv
  <2>5. Rank(e.key)' = Rank(e.key)
    BY <1>1, <1>2, <2>3, <2>4, RankStays
  <2>6. QED
    BY <1>1, <2>1, <2>2, <2>5
<1>4. QED
  BY <1>1, <1>2, <1>3

LEMMA Promoted ==
    ASSUME TableInv, Promote
    PROVE  /\ TableInv'
           /\ active'["churn"] >= active["churn"]
           /\ \A k \in Models : Unscored(k) \subseteq Unscored(k)'
           /\ active'["churn"] = active["churn"] => Unscored("churn")' = Unscored("churn")
           /\ \A e : Final(e) => Final(e)'
<1>1. PICK m \in Models : active' = [active EXCEPT ![m] = @ + 1]
  BY DEF Promote
<1>2. UNCHANGED <<scene, mixed, sidecar, preds>>
  BY DEF Promote
<1>3. /\ active \in [Models -> Nat] /\ sidecar \in [Models -> Nat]
      /\ \A k \in Models : sidecar[k] <= active[k]
      /\ preds \in Seq(PredRows)
      /\ \A i \in DOMAIN preds : preds[i] \in PredRows /\ preds[i].version <= active[preds[i].model]
  BY DEF TableInv
<1>4. /\ active' \in [Models -> Nat] /\ active'[m] = active[m] + 1
      /\ \A k \in Models \ {m} : active'[k] = active[k]
  BY <1>1, <1>3
<1>5. \A k \in Models : active[k] \in Nat /\ active'[k] \in Nat /\ active'[k] >= active[k]
  BY <1>3, <1>4
<1>6. TableInv'
  <2>1. ASSUME NEW i \in DOMAIN preds
        PROVE  preds[i].version <= active'[preds[i].model]
    <3>1. preds[i].model \in Models /\ preds[i].version \in Nat
      BY <1>3 DEF PredRows
    <3>2. QED
      BY <1>3, <1>5, <3>1
  <2>2. ScoredOnceWhileActive'
    <3> SUFFICES ASSUME NEW i \in DOMAIN preds, NEW j \in DOMAIN preds, preds[i] = preds[j], i # j
                 PROVE  preds[i].version < active'[preds[i].model]
      BY <1>2 DEF ScoredOnceWhileActive
    <3>1. preds[i].version < active[preds[i].model]
      BY DEF TableInv, ScoredOnceWhileActive
    <3>2. preds[i].model \in Models /\ preds[i].version \in Nat
      BY <1>3 DEF PredRows
    <3>3. QED
      BY <1>5, <3>1, <3>2
  <2>3. \A k \in Models : sidecar[k] <= active'[k]
    BY <1>3, <1>5
  <2>4. QED
    BY <1>2, <1>3, <1>4, <2>1, <2>2, <2>3 DEF TableInv
<1>7. Subjects' = Subjects
  BY <1>2 DEF Subjects
<1>8. \A k \in Models \ {m} : Unscored(k)' = Unscored(k)
  BY <1>2, <1>4, <1>7 DEF Unscored
<1>9. Unscored(m)' = Subjects[m]
  <2>1. \A i \in DOMAIN preds : preds[i].model = m => preds[i].version < active'[m]
    <3>1. ASSUME NEW i \in DOMAIN preds, preds[i].model = m
          PROVE  preds[i].version < active'[m]
      <4>1. preds[i].version \in Nat /\ preds[i].version <= active[m] /\ active[m] \in Nat
        BY <1>3, <3>1 DEF PredRows
      <4>2. QED
        BY <1>4, <4>1
    <3>2. QED
      BY <3>1
  <2>2. ASSUME NEW i \in DOMAIN preds, NEW y
        PROVE  preds[i] # [model |-> m, entity |-> y, version |-> active'[m]]
    <3>1. active'[m] \in Nat
      BY <1>4
    <3>2. QED
      BY <2>1, <3>1
  <2>3. QED
    BY <1>2, <1>7, <2>2 DEF Unscored
<1>10. \A k \in Models : Unscored(k) \subseteq Unscored(k)'
  <2>1. Unscored(m) \subseteq Subjects[m]
    BY DEF Unscored
  <2>2. QED
    BY <1>8, <1>9, <2>1
<1>11. "churn" \in Models /\ (m = "churn" => active'["churn"] # active["churn"])
  BY <1>3, <1>4 DEF Models
<1>12. active'["churn"] = active["churn"] => Unscored("churn")' = Unscored("churn")
  BY <1>8, <1>11
<1>13. ASSUME NEW e, Final(e), e.kind = "churn"
       PROVE  /\ e.key \in DOMAIN preds /\ preds[e.key].model = "churn"
              /\ preds[e.key].version = active'["churn"] /\ e.key \notin mixed =>
                    Unscored("churn")' = {} /\ e.rank = Rank(e.key)'
  <2>1. e.key \in DOMAIN preds /\ preds[e.key].model = "churn"
    BY <1>13 DEF Final
  <2>2. preds[e.key].version \in Nat /\ preds[e.key].version <= active["churn"]
    BY <1>3, <2>1 DEF PredRows
  <2>3. preds[e.key].version = active'["churn"] => active'["churn"] = active["churn"]
    BY <1>5, <1>11, <2>2
  <2>4. Rank(e.key)' = Rank(e.key)
    BY <1>2 DEF Rank, Outranks
  <2>5. QED
    BY <1>12, <1>13, <2>1, <2>3, <2>4 DEF Final
<1>14. \A e : Final(e) => Final(e)'
  BY <1>2, <1>13 DEF Final
<1>15. QED
  BY <1>5, <1>6, <1>10, <1>11, <1>12, <1>14

LEMMA TableSame ==
    ASSUME UNCHANGED <<scene, active, preds>>, sidecar' \in {sidecar, active}
    PROVE  /\ TableInv => TableInv'
           /\ \A k : Unscored(k)' = Unscored(k)
           /\ \A i : Rank(i)' = Rank(i)
           /\ mixed \subseteq mixed' => \A e : Final(e) => Final(e)'
<1>1. Subjects' = Subjects
  BY DEF Subjects
<1>2. \A k : Unscored(k)' = Unscored(k)
  BY <1>1 DEF Unscored
<1>3. \A i : Rank(i)' = Rank(i)
  BY DEF Rank, Outranks
<1>4. TableInv => TableInv'
  BY DEF TableInv, ScoredOnceWhileActive
<1>5. mixed \subseteq mixed' => \A e : Final(e) => Final(e)'
  BY <1>2, <1>3 DEF Final
<1>6. QED
  BY <1>2, <1>3, <1>4, <1>5

LEMMA BusFinalKept ==
    ASSUME BusFinal, \A e : Final(e) => Final(e)',
           \/ UNCHANGED bus \/ bus' = <<>> \/ (bus # <<>> /\ bus' = Tail(bus))
           \/ \E e : Final(e) /\ Published(e)
    PROVE  BusFinal'
<1>1. PICK S : bus \in Seq(S) /\ \A e \in S : Final(e)
  BY DEF BusFinal
<1>2. CASE UNCHANGED bus \/ bus' = <<>> \/ (bus # <<>> /\ bus' = Tail(bus))
  <2>1. bus' \in Seq(S)
    <3>1. <<>> \in Seq(S) /\ (bus # <<>> => Tail(bus) \in Seq(S))
      BY <1>1
    <3>2. QED
      BY <1>1, <1>2, <3>1
  <2>2. \A e \in S : Final(e)'
    BY <1>1
  <2>3. QED
    BY <2>1, <2>2 DEF BusFinal
<1>3. CASE \E e : Final(e) /\ Published(e)
  <2>1. PICK e : Final(e) /\ Published(e)
    BY <1>3
  <2>2. bus' \in Seq(S \union {e})
    BY <1>1, <2>1, SentIsSeq DEF Published
  <2>3. \A f \in S \union {e} : Final(f)'
    BY <1>1, <2>1
  <2>4. QED
    BY <2>2, <2>3 DEF BusFinal
<1>4. QED
  BY <1>2, <1>3

\* A step that leaves the table and the workers alone.
LEMMA RankBystander ==
    ASSUME RankInv, UNCHANGED <<scene, mixed, active, preds, scorer, caster>>,
           sidecar' \in {sidecar, active},
           UNCHANGED bus \/ (bus # <<>> /\ bus' = Tail(bus))
              \/ \E e : Final(e) /\ Published(e),
           \A e \in poller'.events : e.kind # "churn"
    PROVE  RankInv'
<1>1. BusFinal'
  BY TableSame, BusFinalKept DEF RankInv
<1>2. TodoInv' /\ ScorerInv'
  BY TableSame DEF RankInv, TodoInv, ScorerInv, Answered
<1>3. OutboxFinal'
  BY TableSame DEF RankInv, OutboxFinal
<1>4. OthersNotChurn'
  BY DEF RankInv, OthersNotChurn
<1>5. QED
  BY <1>1, <1>2, <1>3, <1>4, TableSame DEF RankInv

LEMMA RankPoller ==
    ASSUME KeyInv, RankInv, Poller
    PROVE  RankInv'
<1>1. UNCHANGED <<scene, mixed, active, sidecar, preds, scorer, caster>>
  BY DEF Poller, PollRead, PollPublish, PollWrite
<1>2. \A ids : \A e \in DriftEvents(ids) : e.kind # "churn"
  <2>1. \A run, S : DriftEvent(run, S).kind # "churn"
    BY DEF DriftEvent
  <2>2. QED
    BY <2>1 DEF DriftEvents
<1>3. \A e \in poller.events : e.kind # "churn"
  BY DEF RankInv, OthersNotChurn
<1>4. CASE PollRead
  BY <1>1, <1>2, <1>4, RankBystander DEF PollRead
<1>5. CASE PollWrite
  <2>1. poller'.events = {} /\ UNCHANGED bus
    BY <1>5 DEF PollWrite, NoPoll
  <2>2. QED
    BY <1>1, <2>1, RankBystander
<1>6. CASE PollPublish
  <2>1. PICK e \in poller.events :
            bus' = Sent(e) /\ poller' = [poller EXCEPT !.events = @ \ {e}]
    BY <1>6 DEF PollPublish
  <2>2. poller'.events = poller.events \ {e}
    BY <2>1 DEF KeyInv, Shapes, PollerFields
  <2>3. Final(e) /\ Published(e)
    BY <1>3, <2>1 DEF Final, Published
  <2>4. QED
    BY <1>1, <1>3, <2>2, <2>3, RankBystander
<1>7. QED
  BY <1>4, <1>5, <1>6 DEF Poller

LEMMA RankOthers ==
    ASSUME RankInv, Reload \/ DriftCheck \/ EngineHandle \/ Settle \/ Reconcile \/ PassFails \/ UNCHANGED vars
    PROVE  RankInv'
<1>1. /\ UNCHANGED <<scene, mixed, active, preds, scorer, caster, poller>>
      /\ sidecar' \in {sidecar, active}
      /\ UNCHANGED bus \/ (bus # <<>> /\ bus' = Tail(bus))
  BY DEF Reload, DriftCheck, EngineHandle, Settle, Reconcile, PassRead, PassRank, PassHandle, PassDrift,
     PassWrite, PassFails, vars
<1>2. \A e \in poller'.events : e.kind # "churn"
  BY <1>1 DEF RankInv, OthersNotChurn
<1>3. QED
  BY <1>1, <1>2, RankBystander

LEMMA RankCrash ==
    ASSUME RankInv, Crash
    PROVE  RankInv'
<1>1. /\ UNCHANGED <<scene, mixed, active, sidecar, preds>>
      /\ scorer' = NoScoring /\ caster' = NoCasting /\ poller' = NoPoll /\ bus' = <<>>
  BY DEF Crash
<1>2. BusFinal'
  BY <1>1, TableSame, BusFinalKept DEF RankInv
<1>3. TodoInv' /\ ScorerInv' /\ OutboxFinal' /\ OthersNotChurn'
  BY <1>1 DEF NoScoring, NoCasting, NoPoll, TodoInv, ScorerInv, OutboxFinal, OthersNotChurn
<1>4. QED
  BY <1>1, <1>2, <1>3, TableSame DEF RankInv

LEMMA RankPromote ==
    ASSUME RankInv, Promote
    PROVE  RankInv'
<1>1. UNCHANGED <<mixed, scorer, caster, poller, bus>> /\ UNCHANGED preds
  BY DEF Promote
<1>2. TableInv
  BY DEF RankInv
<1>3. /\ TableInv' /\ active'["churn"] >= active["churn"]
      /\ \A k \in Models : Unscored(k) \subseteq Unscored(k)'
      /\ active'["churn"] = active["churn"] => Unscored("churn")' = Unscored("churn")
      /\ \A e : Final(e) => Final(e)'
  BY <1>2, Promoted
<1>4. TodoInv'
  BY <1>1, <1>3 DEF RankInv, TodoInv, Models
<1>5. ScorerInv'
  <2>1. active["churn"] \in Nat /\ active'["churn"] \in Nat
    BY <1>3 DEF RankInv, TableInv, Models
  <2>2. SUFFICES ASSUME scorer.stage = "score"
                 PROVE  /\ scorer.version \in Nat /\ scorer.version <= active'["churn"]
                        /\ scorer.version = active'["churn"] /\ Answered = scorer.fresh =>
                              Unscored("churn")' \subseteq scorer.todo
                        /\ \A i \in scorer.fresh : i \in DOMAIN preds /\ preds[i].model = "churn"
    BY <1>1 DEF ScorerInv, Answered
  <2>3. /\ scorer.version \in Nat /\ scorer.version <= active["churn"]
        /\ scorer.version = active["churn"] /\ Answered = scorer.fresh =>
              Unscored("churn") \subseteq scorer.todo
        /\ \A i \in scorer.fresh : i \in DOMAIN preds /\ preds[i].model = "churn"
    BY <2>2 DEF RankInv, ScorerInv
  <2>4. /\ scorer.version <= active'["churn"]
        /\ scorer.version = active'["churn"] => active'["churn"] = active["churn"]
    BY <1>3, <2>1, <2>3
  <2>5. QED
    BY <1>3, <2>3, <2>4
<1>6. OutboxFinal' /\ OthersNotChurn'
  BY <1>1, <1>3 DEF RankInv, OutboxFinal, OthersNotChurn
<1>7. BusFinal'
  BY <1>1, <1>3, BusFinalKept DEF RankInv
<1>8. QED
  BY <1>3, <1>4, <1>5, <1>6, <1>7 DEF RankInv

\* A row of either worker: what the other parts of the invariant are left with.
LEMMA RankRow ==
    ASSUME RankInv, NEW m \in Models, NEW x \in Unscored(m),
           preds' = Append(preds, Row(m, x)),
           UNCHANGED <<scene, mixed, active, sidecar, poller, bus>>
    PROVE  /\ TableInv' /\ BusFinal'
           /\ Unscored(m)' = IF sidecar[m] = active[m] THEN Unscored(m) \ {x} ELSE Unscored(m)
           /\ Len(preds) + 1 \notin DOMAIN preds
           /\ \A k \in Models \ {m} : Unscored(k)' = Unscored(k)
           /\ DOMAIN preds' = DOMAIN preds \union {Len(preds) + 1}
           /\ \A i \in DOMAIN preds : preds'[i] = preds[i]
           /\ preds'[Len(preds) + 1] = Row(m, x)
           /\ \A e : Final(e) => Final(e)'
<1>1. TableInv /\ BusFinal
  BY DEF RankInv
<1>2. \A e : Final(e) => Final(e)'
  BY <1>1, FinalAppended
<1>3. BusFinal'
  BY <1>1, <1>2, BusFinalKept
<1>4. preds'[Len(preds) + 1] = Row(m, x)
  BY <1>1, RowAppended
<1>5. QED
  BY <1>1, <1>2, <1>3, <1>4, RowAppended DEF Row

LEMMA RankScorer ==
    ASSUME KeyInv, RankInv, Scorer \/ ScoreFails
    PROVE  RankInv'
<1>1. UNCHANGED <<scene, active, sidecar, caster, poller>>
  BY DEF Scorer, ScoreStart, ScoreNext, RankFresh, PublishChurn, ScoreFails
<1>a. UNCHANGED mixed \/ RankFresh
  BY DEF Scorer, ScoreStart, ScoreNext, PublishChurn, ScoreFails
<1>2. DOMAIN scorer = ScorerFields
  BY DEF KeyInv, Shapes
<1>3. "churn" \in Models /\ "forecast" \in Models /\ "forecast" # "churn"
  BY DEF Models
<1>4. OthersNotChurn'
  BY <1>1 DEF RankInv, OthersNotChurn
<1>5. ASSUME scorer.stage = "score", scorer.todo # {}
      PROVE  Min(scorer.todo) \in scorer.todo /\ Min(scorer.todo) \in Unscored("churn")
  <2>1. scorer.todo \subseteq Unscored("churn")
    BY <1>5 DEF RankInv, TodoInv
  <2>2. Unscored("churn") \subseteq Nat
    BY SubjectsAreNumbers DEF RankInv, TableInv, Unscored
  <2>3. Min(scorer.todo) \in scorer.todo
    BY <1>5, <2>1, <2>2, MinIsElement
  <2>4. QED
    BY <2>1, <2>3
<1>6. CASE ScoreStart
  <2>1. UNCHANGED <<mixed, preds, bus>> /\ scorer' = [NoScoring EXCEPT !.stage = "score",
            !.version = active["churn"], !.todo = Unscored("churn")]
    BY <1>6 DEF ScoreStart
  <2>2. /\ scorer'.stage = "score" /\ scorer'.version = active["churn"]
        /\ scorer'.todo = Unscored("churn") /\ scorer'.fresh = {} /\ scorer'.outbox = {}
    BY <2>1 DEF NoScoring
  <2>3. active["churn"] \in Nat
    BY <1>3 DEF RankInv, TableInv
  <2>4. TodoInv' /\ ScorerInv' /\ OutboxFinal'
    BY <1>1, <2>1, <2>2, <2>3, TableSame DEF RankInv, TodoInv, ScorerInv, Answered, OutboxFinal
  <2>5. BusFinal'
    BY <1>1, <2>1, TableSame, BusFinalKept DEF RankInv
  <2>6. QED
    BY <1>1, <1>4, <2>1, <2>4, <2>5, TableSame DEF RankInv
<1>7. CASE ScoreNext
  <2>1. PICK c : c = Min(scorer.todo)
    OBVIOUS
  <2>2. /\ scorer.stage = "score" /\ scorer.todo # {} /\ UNCHANGED <<mixed, bus>>
        /\ preds' = Append(preds, Row("churn", c))
        /\ scorer' = [scorer EXCEPT !.todo = @ \ {c}, !.fresh = @ \union {Len(preds) + 1}]
    BY <1>7, <2>1 DEF ScoreNext
  <2>3. c \in Unscored("churn")
    BY <1>5, <2>1, <2>2
  <2>4. /\ TableInv' /\ BusFinal'
        /\ Unscored("churn")' = IF sidecar["churn"] = active["churn"]
                                 THEN Unscored("churn") \ {c} ELSE Unscored("churn")
        /\ Len(preds) + 1 \notin DOMAIN preds
        /\ Unscored("forecast")' = Unscored("forecast")
        /\ DOMAIN preds' = DOMAIN preds \union {Len(preds) + 1}
        /\ \A i \in DOMAIN preds : preds'[i] = preds[i]
        /\ preds'[Len(preds) + 1] = Row("churn", c)
        /\ \A e : Final(e) => Final(e)'
    BY <1>1, <1>3, <2>2, <2>3, RankRow
  <2>5. /\ scorer'.stage = "score" /\ scorer'.version = scorer.version
        /\ scorer'.todo = scorer.todo \ {c} /\ scorer'.outbox = scorer.outbox
        /\ scorer'.fresh = scorer.fresh \union {Len(preds) + 1}
    BY <1>2, <2>2 DEF ScorerFields
  <2>6. TodoInv'
    BY <1>1, <2>2, <2>4, <2>5 DEF RankInv, TodoInv
  <2>7. ScorerInv'
    <3>1. /\ scorer.version \in Nat /\ scorer.version <= active["churn"]
          /\ scorer.version = active["churn"] /\ Answered = scorer.fresh =>
                Unscored("churn") \subseteq scorer.todo
          /\ \A i \in scorer.fresh : i \in DOMAIN preds /\ preds[i].model = "churn"
      BY <2>2 DEF RankInv, ScorerInv
    <3>2. preds'[Len(preds) + 1].model = "churn"
          /\ preds'[Len(preds) + 1].version = sidecar["churn"]
      BY <2>4 DEF Row
    <3>3. \A i \in scorer'.fresh : i \in DOMAIN preds' /\ preds'[i].model = "churn"
      BY <2>4, <2>5, <3>1, <3>2
    <3>4. Answered' = scorer'.fresh => Answered = scorer.fresh /\ sidecar["churn"] = scorer.version
      <4>1. Len(preds) + 1 \in scorer'.fresh /\ scorer.fresh \subseteq scorer'.fresh
        BY <2>5
      <4>2. \A i \in scorer.fresh : preds'[i] = preds[i]
        BY <2>4, <3>1
      <4>3. Answered' = {i \in scorer'.fresh : preds'[i].version = scorer.version}
        BY <2>5 DEF Answered
      <4>4. QED
        BY <3>2, <4>1, <4>2, <4>3 DEF Answered
    <3>5. scorer'.version = active'["churn"] /\ Answered' = scorer'.fresh =>
             Unscored("churn")' \subseteq scorer'.todo
      BY <1>1, <2>4, <2>5, <3>1, <3>4
    <3>6. QED
      BY <1>1, <2>5, <3>1, <3>3, <3>5 DEF ScorerInv
  <2>8. OutboxFinal'
    BY <2>4, <2>5 DEF RankInv, OutboxFinal
  <2>9. QED
    BY <1>4, <2>4, <2>6, <2>7, <2>8 DEF RankInv
<1>8. CASE ScoreFails
  <2>1. PICK c : c = Min(scorer.todo)
    OBVIOUS
  <2>2. /\ scorer.stage = "score" /\ scorer.todo # {} /\ UNCHANGED <<mixed, bus>>
        /\ UNCHANGED preds \/ preds' = Append(preds, Row("churn", c))
        /\ scorer' = NoScoring
    BY <1>8, <2>1 DEF ScoreFails
  <2>3. c \in Unscored("churn")
    BY <1>5, <2>1, <2>2
  <2>4. ScorerInv' /\ OutboxFinal'
    BY <2>2 DEF NoScoring, ScorerInv, OutboxFinal
  <2>5. CASE UNCHANGED preds
    <3>1. TableInv' /\ BusFinal'
      BY <1>1, <2>2, <2>5, TableSame, BusFinalKept DEF RankInv
    <3>2. TodoInv'
      BY <1>1, <2>2, <2>5, TableSame DEF RankInv, TodoInv, NoScoring
    <3>3. QED
      BY <1>4, <2>4, <3>1, <3>2 DEF RankInv
  <2>6. CASE preds' = Append(preds, Row("churn", c))
    <3>1. TableInv' /\ BusFinal' /\ Unscored("forecast")' = Unscored("forecast")
      BY <1>1, <1>3, <2>2, <2>3, <2>6, RankRow
    <3>2. TodoInv'
      BY <1>1, <2>2, <3>1 DEF RankInv, TodoInv, NoScoring
    <3>3. QED
      BY <1>4, <2>4, <3>1, <3>2 DEF RankInv
  <2>7. QED
    BY <2>2, <2>5, <2>6
<1>9. CASE RankFresh
  <2>1. /\ scorer.stage = "score" /\ scorer.todo = {} /\ UNCHANGED <<preds, bus>>
        /\ scorer' = [scorer EXCEPT !.stage = "publish",
                        !.outbox = {ChurnEvent(i, Rank(i)) : i \in Answered}]
        /\ mixed' = Mixed
    BY <1>9 DEF RankFresh
  <2>2. mixed \subseteq mixed' /\ \A i \in Answered : i \notin mixed' => Answered = scorer.fresh
    BY <2>1 DEF Mixed
  <2>3. /\ scorer'.stage = "publish"
        /\ scorer'.outbox = {ChurnEvent(i, Rank(i)) : i \in Answered}
    BY <1>2, <2>1 DEF ScorerFields
  <2>4. ASSUME NEW i \in Answered
        PROVE  Final(ChurnEvent(i, Rank(i)))'
    <3>1. /\ i \in DOMAIN preds /\ preds[i].model = "churn"
          /\ preds[i].version = active["churn"] /\ i \notin mixed' => Unscored("churn") = {}
      BY <2>1, <2>2 DEF RankInv, ScorerInv, Answered
    <3>2. /\ ChurnEvent(i, Rank(i)).key = i /\ ChurnEvent(i, Rank(i)).rank = Rank(i)
          /\ (ChurnEvent(i, Rank(i)))' = ChurnEvent(i, Rank(i))
      BY <1>1, <2>1, TableSame DEF ChurnEvent
    <3>3. Unscored("churn")' = Unscored("churn") /\ Rank(i)' = Rank(i)
      BY <1>1, <2>1, TableSame
    <3>4. PICK e : e = ChurnEvent(i, Rank(i))
      OBVIOUS
    <3>5. Final(e)'
      BY <1>1, <2>1, <3>1, <3>2, <3>3, <3>4 DEF Final
    <3>6. QED
      BY <3>2, <3>4, <3>5 DEF Final
  <2>5. OutboxFinal'
    <3>1. \A i \in Answered : (ChurnEvent(i, Rank(i)))' = ChurnEvent(i, Rank(i))
      BY <1>1, <2>1, TableSame DEF ChurnEvent
    <3>2. ASSUME NEW e \in scorer'.outbox PROVE Final(e)'
      <4>1. PICK i \in Answered : e = ChurnEvent(i, Rank(i))
        BY <2>3, <3>2
      <4>2. QED
        BY <2>4, <3>1, <4>1 DEF Final
    <3>3. QED
      BY <3>2 DEF OutboxFinal
  <2>6. TodoInv' /\ ScorerInv'
    BY <1>1, <2>1, <2>3, TableSame DEF RankInv, TodoInv, ScorerInv
  <2>7. BusFinal'
    BY <1>1, <2>1, <2>2, TableSame, BusFinalKept DEF RankInv
  <2>8. QED
    BY <1>1, <1>4, <2>1, <2>5, <2>6, <2>7, TableSame DEF RankInv
<1>10. CASE PublishChurn
  <2>1. UNCHANGED <<mixed, preds>> /\ scorer.stage = "publish"
    BY <1>10 DEF PublishChurn
  <2>2. /\ scorer'.stage # "score" /\ scorer'.outbox \subseteq scorer.outbox
        /\ UNCHANGED bus \/ \E e : Final(e) /\ Published(e)
    <3>1. CASE scorer' = NoScoring /\ UNCHANGED bus
      BY <3>1 DEF NoScoring
    <3>2. CASE \E e \in scorer.outbox : bus' = Sent(e) /\ scorer' = [scorer EXCEPT !.outbox = @ \ {e}]
      <4>1. PICK e \in scorer.outbox :
                bus' = Sent(e) /\ scorer' = [scorer EXCEPT !.outbox = @ \ {e}]
        BY <3>2
      <4>2. scorer'.stage = scorer.stage /\ scorer'.outbox = scorer.outbox \ {e}
        BY <1>2, <4>1 DEF ScorerFields
      <4>3. QED
        BY <2>1, <4>1, <4>2 DEF RankInv, OutboxFinal, Published
    <3>3. QED
      BY <1>10, <3>1, <3>2 DEF PublishChurn
  <2>3. BusFinal'
    BY <1>1, <2>1, <2>2, TableSame, BusFinalKept DEF RankInv
  <2>4. TodoInv' /\ ScorerInv' /\ OutboxFinal'
    BY <1>1, <2>1, <2>2, TableSame DEF RankInv, TodoInv, ScorerInv, OutboxFinal
  <2>5. QED
    BY <1>1, <1>4, <2>1, <2>3, <2>4, TableSame DEF RankInv
<1>11. QED
  BY <1>6, <1>7, <1>8, <1>9, <1>10 DEF Scorer

LEMMA RankCaster ==
    ASSUME KeyInv, RankInv, Caster \/ CastFails
    PROVE  RankInv'
<1>1. UNCHANGED <<scene, mixed, active, sidecar, scorer, poller>>
  BY DEF Caster, CastStart, CastNext, CastPublish, CastFails
<1>2. DOMAIN caster = CasterFields
  BY DEF KeyInv, Shapes
<1>3. "churn" \in Models /\ "forecast" \in Models /\ "forecast" # "churn"
  BY DEF Models
<1>4. /\ \A e \in caster.outbox : e.kind # "churn"
      /\ \A e \in poller.events : e.kind # "churn"
      /\ \A row : ForecastEvent(row).kind # "churn"
  BY DEF RankInv, OthersNotChurn, ForecastEvent
<1>5. ASSUME caster.on, caster.todo # {}
      PROVE  Min(caster.todo) \in caster.todo /\ Min(caster.todo) \in Unscored("forecast")
  <2>1. caster.todo \subseteq Unscored("forecast")
    BY <1>5 DEF RankInv, TodoInv
  <2>2. Unscored("forecast") \subseteq Nat
    BY SubjectsAreNumbers DEF RankInv, TableInv, Unscored
  <2>3. Min(caster.todo) \in caster.todo
    BY <1>5, <2>1, <2>2, MinIsElement
  <2>4. QED
    BY <2>1, <2>3
\* A step that scores no row.
<1>6. ASSUME UNCHANGED preds, caster'.on => caster'.todo \subseteq Unscored("forecast"),
             \A e \in caster'.outbox : e.kind # "churn",
             UNCHANGED bus \/ \E e : Final(e) /\ Published(e)
      PROVE  RankInv'
  <2>1. BusFinal'
    BY <1>1, <1>6, TableSame, BusFinalKept DEF RankInv
  <2>2. TodoInv'
    BY <1>1, <1>6, TableSame DEF RankInv, TodoInv
  <2>3. ScorerInv' /\ OutboxFinal'
    BY <1>1, <1>6, TableSame DEF RankInv, ScorerInv, Answered, OutboxFinal
  <2>4. OthersNotChurn'
    BY <1>1, <1>4, <1>6 DEF OthersNotChurn
  <2>5. QED
    BY <1>1, <1>6, <2>1, <2>2, <2>3, <2>4, TableSame DEF RankInv
\* A step that scores one.
<1>7. ASSUME NEW x \in Unscored("forecast"), preds' = Append(preds, Row("forecast", x)),
             UNCHANGED bus, caster'.on => caster'.todo \subseteq Unscored("forecast") \ {x},
             \A e \in caster'.outbox : e.kind # "churn"
      PROVE  RankInv'
  <2>1. /\ TableInv' /\ BusFinal'
        /\ Unscored("forecast")' = IF sidecar["forecast"] = active["forecast"]
                                    THEN Unscored("forecast") \ {x} ELSE Unscored("forecast")
        /\ Unscored("churn")' = Unscored("churn")
        /\ DOMAIN preds' = DOMAIN preds \union {Len(preds) + 1}
        /\ \A i \in DOMAIN preds : preds'[i] = preds[i]
        /\ \A e : Final(e) => Final(e)'
    BY <1>1, <1>3, <1>7, RankRow
  <2>2. TodoInv'
    BY <1>1, <1>7, <2>1 DEF RankInv, TodoInv
  <2>3. ScorerInv' /\ OutboxFinal'
    BY <1>1, <2>1 DEF RankInv, ScorerInv, Answered, OutboxFinal
  <2>4. OthersNotChurn'
    BY <1>1, <1>4, <1>7 DEF OthersNotChurn
  <2>5. QED
    BY <2>1, <2>2, <2>3, <2>4 DEF RankInv
<1>8. CASE CastStart
  <2>1. UNCHANGED <<preds, bus>> /\ caster' = [NoCasting EXCEPT !.on = TRUE,
            !.version = active["forecast"], !.todo = Forecastable]
    BY <1>8 DEF CastStart
  <2>2. caster'.todo = Forecastable /\ caster'.outbox = {}
    BY <2>1 DEF NoCasting
  <2>3. Forecastable \subseteq Unscored("forecast")
    BY DEF Forecastable
  <2>4. QED
    BY <1>6, <2>1, <2>2, <2>3
<1>9. CASE CastNext
  <2>1. PICK k : k = Min(caster.todo)
    OBVIOUS
  <2>2. /\ caster.on /\ caster.todo # {} /\ UNCHANGED bus
        /\ preds' = Append(preds, Row("forecast", k))
        /\ caster' = [caster EXCEPT !.todo = @ \ {k}, !.outbox = {ForecastEvent(Row("forecast", k))}]
    BY <1>9, <2>1 DEF CastNext
  <2>3. k \in Unscored("forecast")
    BY <1>5, <2>1, <2>2
  <2>4. caster'.todo = caster.todo \ {k} /\ caster'.outbox = {ForecastEvent(Row("forecast", k))}
    BY <1>2, <2>2 DEF CasterFields
  <2>5. caster.todo \subseteq Unscored("forecast")
    BY <2>2 DEF RankInv, TodoInv
  <2>6. QED
    BY <1>4, <1>7, <2>2, <2>3, <2>4, <2>5
<1>10. CASE CastFails
  <2>1. PICK k : k = Min(caster.todo)
    OBVIOUS
  <2>2. /\ caster.on /\ caster.todo # {} /\ UNCHANGED bus
        /\ UNCHANGED preds \/ preds' = Append(preds, Row("forecast", k))
        /\ caster' = NoCasting
    BY <1>10, <2>1 DEF CastFails
  <2>3. k \in Unscored("forecast")
    BY <1>5, <2>1, <2>2
  <2>4. ~caster'.on /\ caster'.outbox = {}
    BY <2>2 DEF NoCasting
  <2>5. QED
    BY <1>6, <1>7, <2>2, <2>3, <2>4
<1>11. CASE CastPublish
  <2>1. UNCHANGED preds
    BY <1>11 DEF CastPublish
  <2>2. CASE caster' = NoCasting /\ UNCHANGED bus
    BY <1>6, <2>1, <2>2 DEF NoCasting
  <2>3. CASE \E e \in caster.outbox : bus' = Sent(e) /\ caster' = [caster EXCEPT !.outbox = @ \ {e}]
    <3>1. PICK e \in caster.outbox :
              bus' = Sent(e) /\ caster' = [caster EXCEPT !.outbox = @ \ {e}]
      BY <2>3
    <3>2. /\ caster'.outbox = caster.outbox \ {e} /\ caster'.on = caster.on
          /\ caster'.todo = caster.todo
      BY <1>2, <3>1 DEF CasterFields
    <3>3. Final(e) /\ Published(e)
      BY <1>4, <3>1 DEF Final, Published
    <3>4. caster'.on => caster'.todo \subseteq Unscored("forecast")
      BY <3>2 DEF RankInv, TodoInv
    <3>5. QED
      BY <1>4, <1>6, <2>1, <3>2, <3>3, <3>4
  <2>4. QED
    BY <1>11, <2>2, <2>3 DEF CastPublish
<1>12. QED
  BY <1>8, <1>9, <1>10, <1>11 DEF Caster

LEMMA RankInit == Init => RankInv
<1> SUFFICES ASSUME Init PROVE RankInv
  OBVIOUS
<1>1. /\ scene \in Scenes /\ active = [m \in Models |-> 1] /\ sidecar = active /\ preds = <<>>
      /\ scorer = NoScoring /\ caster = NoCasting /\ poller = NoPoll /\ bus = <<>>
  BY DEF Init
<1>2. TableInv
  <2>1. preds \in Seq(PredRows) /\ DOMAIN preds = {} /\ active \in [Models -> Nat]
    BY <1>1
  <2>2. QED
    BY <1>1, <2>1 DEF TableInv, ScoredOnceWhileActive
<1>3. BusFinal
  <2>1. <<>> \in Seq({})
    OBVIOUS
  <2>2. QED
    BY <1>1, <2>1 DEF BusFinal
<1>4. TodoInv /\ ScorerInv /\ OutboxFinal /\ OthersNotChurn
  BY <1>1 DEF TodoInv, ScorerInv, OutboxFinal, OthersNotChurn, NoScoring, NoCasting, NoPoll
<1>5. QED
  BY <1>2, <1>3, <1>4 DEF RankInv

LEMMA RankNext ==
    ASSUME KeyInv, RankInv, [Next]_vars
    PROVE  RankInv'
  BY RankScorer, RankCaster, RankPoller, RankOthers, RankCrash, RankPromote DEF Next

\* A version scores no customer and no category twice while it is the active
\* one, however passes, promotions and restarts of the sidecar fall together:
\* what a pass has before it stays unscored until it gets there, whichever
\* version is active and whichever is served by then.
THEOREM ScoredOnce == Spec => []ScoredOnceWhileActive
<1>1. Init => KeyInv /\ RankInv
  BY KeyInit, RankInit
<1>2. KeyInv /\ RankInv /\ [Next]_vars => (KeyInv /\ RankInv)'
  BY KeyNext, RankNext
<1>3. RankInv => ScoredOnceWhileActive
  BY DEF RankInv, TableInv
<1>4. QED
  BY <1>1, <1>2, <1>3, PTL DEF Spec

\* A live event of the active version was ranked after the last customer had
\* been scored, and no later row can move it, unless the sidecar answered its
\* pass with another version as well.
THEOREM LiveRanksFinal == Spec => []LiveRankFinal
<1>1. Init => KeyInv /\ RankInv
  BY KeyInit, RankInit
<1>2. KeyInv /\ RankInv /\ [Next]_vars => (KeyInv /\ RankInv)'
  BY KeyNext, RankNext
<1>3. RankInv => LiveRankFinal
  <2> SUFFICES ASSUME RankInv, NEW n \in DOMAIN bus, bus[n].kind = "churn",
                      preds[bus[n].key].version = active["churn"], bus[n].key \notin mixed
               PROVE  Unscored("churn") = {} /\ bus[n].rank = Rank(bus[n].key)
    BY DEF LiveRankFinal
  <2>1. PICK S : bus \in Seq(S) /\ \A e \in S : Final(e)
    BY DEF RankInv, BusFinal
  <2>2. bus[n] \in S
    BY <2>1
  <2>3. QED
    BY <2>1, <2>2 DEF Final
<1>4. QED
  BY <1>1, <1>2, <1>3, PTL DEF Spec

----------------------------------------------------------------------------
(* Types                                                                    *)

Findings == [model : Nat, at : Nat, status : {"ok", "warning", "critical"}]
Cursors == [preds : Nat, drift : Nat]

\* The tables, and what the versions in them may be.
Stored ==
    /\ scene \in Scenes /\ armed \in scene.armings
    /\ active \in [Models -> Nat] /\ sidecar \in [Models -> Nat]
    /\ \A m \in Models : active[m] \in 1 .. scene.versions[m] /\ sidecar[m] \in 1 .. active[m]
    /\ preds \in Seq(PredRows)
    /\ \A i \in DOMAIN preds : /\ preds[i].entity \in Subjects[preds[i].model]
                               /\ preds[i].version \in 1 .. active[preds[i].model]
    /\ drift \in Seq(Findings) /\ drifted \in Nat

\* How far the two readers of the tables have got; what the pass has in hand
\* is a position in the table that it reads at that stage.
Reads ==
    /\ cursor \in Cursors /\ pass.read \in Cursors
    /\ {watermark, poller.upto, pass.upto} \subseteq Nat
    /\ cursor.preds <= Len(preds) /\ cursor.drift <= Len(drift)
    /\ pass.read.preds <= Len(preds) /\ pass.read.drift <= Len(drift)
    /\ watermark <= Len(drift) /\ poller.upto <= Len(drift)
    /\ pass.stage \in {"rank", "preds"} => pass.upto <= Len(preds)
    /\ pass.stage = "drift" => pass.upto <= Len(drift)

\* What the workers have to do and have done.
Tasks ==
    /\ scorer.todo \subseteq Subjects["churn"] /\ caster.todo \subseteq Subjects["forecast"]
    /\ \A i \in scorer.fresh : i \in DOMAIN preds /\ preds[i].model = "churn"

Typed(e) == e.kind = "churn" => e \in Event

FlightTyped == \A e \in InFlight : Typed(e)
BusTyped == Len(bus) <= SubBuffer /\ \E S : bus \in Seq(S) /\ \A e \in S : Typed(e)
QueueTyped == \A p \in queue : p.kind = "churn" => p.event \in Event

TypeInv == Stored /\ Reads /\ Tasks /\ FlightTyped /\ BusTyped /\ QueueTyped /\ faults \in 0 .. MaxFaults

LEMMA MaxIsElement ==
    ASSUME NEW S, S \subseteq Nat, S # {}, NEW bound \in Nat, \A x \in S : x <= bound
    PROVE  Max(S) \in S
<1> DEFINE U == {n \in Nat : \A x \in S : x <= n}
<1>1. \E u \in U : \A v \in U : ~ (<<v, u>> \in OpToRel(<, Nat))
  <2>1. bound \in U /\ U \subseteq Nat /\ U # {}
    OBVIOUS
  <2> HIDE DEF U
  <2>2. QED
    BY <2>1, NatLessThanWellFounded, WFMin
<1>2. PICK u \in U : \A v \in U : ~ (<<v, u>> \in OpToRel(<, Nat))
  BY <1>1
<1>3. u \in Nat /\ \A x \in S : x \in Nat /\ x <= u
  OBVIOUS
<1>4. u \in S
  <2>1. SUFFICES ASSUME u \notin S PROVE FALSE
    OBVIOUS
  <2>2. \A x \in S : x < u
    BY <1>3, <2>1
  <2>3. PICK y \in S : y \in Nat
    OBVIOUS
  <2>4. u - 1 \in Nat /\ \A x \in S : x <= u - 1
    BY <1>3, <2>2, <2>3
  <2>5. u - 1 \in U /\ <<u - 1, u>> \in Nat \X Nat /\ u - 1 < u
    BY <1>3, <2>4
  <2>6. <<u - 1, u>> \in OpToRel(<, Nat)
    BY <2>5 DEF OpToRel
  <2>7. QED
    BY <1>2, <2>5, <2>6, Zenon
<1>5. \E x \in S : \A y \in S : x >= y
  BY <1>3, <1>4
<1>6. QED
  BY <1>5 DEF Max

\* Where a limited scan ends: not before it starts, not after its last row.
LEMMA UpToBounds ==
    ASSUME NEW from \in Nat, NEW last \in Nat, from <= last,
           NEW ids, ids \subseteq from + 1 .. last, NEW n
    PROVE  /\ UpTo(from, ids, n) \in Nat /\ from <= UpTo(from, ids, n) /\ UpTo(from, ids, n) <= last
           /\ UpTo(from, ids, n) \in {from} \union ids
<1> DEFINE S == {from} \union {i \in ids : Cardinality({j \in ids : j <= i}) <= n}
<1>1. S \subseteq Nat /\ S # {} /\ S \subseteq {from} \union ids /\ \A x \in S : from <= x /\ x <= last
  <2>1. S \subseteq {from} \union ids /\ from \in S
    OBVIOUS
  <2> HIDE DEF S
  <2>2. \A x \in ids : x \in Nat /\ from <= x /\ x <= last
    OBVIOUS
  <2>3. QED
    BY <2>1, <2>2
<1>2. UpTo(from, ids, n) = Max(S)
  BY DEF UpTo
<1> HIDE DEF S
<1>3. Max(S) \in S
  BY <1>1, MaxIsElement
<1>4. QED
  BY <1>1, <1>2, <1>3

LEMMA RankIsNatural ==
    ASSUME preds \in Seq(PredRows), NEW i
    PROVE  Rank(i) \in Nat
<1> DEFINE S == {j \in DOMAIN preds : Outranks(j, i)}
<1>1. Len(preds) \in Nat /\ S \subseteq 1 .. Len(preds)
  OBVIOUS
<1>2. IsFiniteSet(1 .. Len(preds))
  BY <1>1, FS_Interval
<1>3. IsFiniteSet(S)
  BY <1>1, <1>2, FS_Subset
<1>4. Cardinality(S) \in Nat
  BY <1>3, FS_CardinalityType
<1>5. QED
  BY <1>4 DEF Rank

LEMMA SceneFacts ==
    ASSUME scene \in Scenes
    PROVE  /\ Subjects["churn"] \subseteq Population
           /\ \A m \in Models : Subjects[m] \subseteq Nat /\ scene.versions[m] \in Nat \ {0}
           /\ DriftWrites \in Seq(Seq(Findings))
           /\ \A s \in scene.armings : s \subseteq {"churn", "forecast", "drift"}
<1>1. /\ Len(Risk) \in Nat /\ Len(Ranked) \in Nat
  <2>1. Risk \in Seq([Population -> Nat]) /\ Ranked \in Seq(SUBSET Categories)
    BY FeedAssumption
  <2>2. QED
    BY <2>1
<1>2. scene.versions.churn \in Nat \ {0} /\ scene.versions.forecast \in Nat \ {0}
  BY <1>1, FeedAssumption
<1>3. scene.customers \subseteq Population /\ scene.categories \subseteq Nat /\ Population \subseteq Nat
  BY FeedAssumption
<1>4. DriftWrites \in Seq(Seq(Findings))
  BY FeedAssumption DEF DriftWrites, Findings
<1>5. \A s \in scene.armings : s \subseteq {"churn", "forecast", "drift"}
  BY FeedAssumption
<1>6. Subjects["churn"] = scene.customers /\ Subjects["forecast"] = scene.categories
  BY DEF Subjects
<1>7. \A m \in Models : m = "churn" \/ m = "forecast"
  BY DEF Models
<1>8. scene.versions["churn"] \in Nat \ {0} /\ scene.versions["forecast"] \in Nat \ {0}
  BY <1>2
<1>9. \A m \in Models : Subjects[m] \subseteq Nat /\ scene.versions[m] \in Nat \ {0}
  BY <1>3, <1>6, <1>7, <1>8
<1>10. QED
  BY <1>3, <1>4, <1>5, <1>6, <1>9

\* The event of a customer's row has its type, whatever the rank.
LEMMA ChurnEventTyped ==
    ASSUME Stored, NEW i \in DOMAIN preds, preds[i].model = "churn", NEW rank \in Nat
    PROVE  ChurnEvent(i, rank) \in Event
<1>1. i \in Nat /\ preds[i].entity \in Population
  <2>1. i \in Nat /\ preds[i].entity \in Subjects["churn"] /\ scene \in Scenes
    BY DEF Stored
  <2>2. QED
    BY <2>1, SceneFacts
<1>2. (rank \in 1 .. TopN /\ Risk[preds[i].version][preds[i].entity] >= Bar) \in BOOLEAN
  OBVIOUS
<1>3. QED
  BY <1>1, <1>2 DEF ChurnEvent, Event

LEMMA PredictionEventTyped ==
    ASSUME Stored, NEW i \in DOMAIN preds
    PROVE  Typed(PredictionEvent(i, Rank(i)))
<1>1. CASE preds[i].model = "churn"
  BY <1>1, ChurnEventTyped, RankIsNatural DEF Typed, PredictionEvent, Stored
<1>2. CASE preds[i].model # "churn"
  <2>1. PredictionEvent(i, Rank(i)).kind = "forecast"
    BY <1>2 DEF PredictionEvent, ForecastEvent
  <2>2. QED
    BY <2>1 DEF Typed
<1>3. QED
  BY <1>1, <1>2

LEMMA OtherEventsTyped ==
    /\ \A ids : \A e \in DriftEvents(ids) : Typed(e)
    /\ \A row : Typed(ForecastEvent(row))
<1>1. \A run, S : DriftEvent(run, S).kind = "drift"
  BY DEF DriftEvent
<1>2. \A ids : \A e \in DriftEvents(ids) : e.kind = "drift"
  BY <1>1 DEF DriftEvents
<1>3. \A row : ForecastEvent(row).kind = "forecast"
  BY DEF ForecastEvent
<1>4. QED
  BY <1>2, <1>3 DEF Typed

----------------------------------------------------------------------------
\* The steps of the tables.

LEMMA StoredSame ==
    ASSUME Stored, UNCHANGED <<scene, active, sidecar, preds, drift, drifted>>, armed' \in scene.armings
    PROVE  Stored'
<1>1. Subjects' = Subjects
  BY DEF Subjects
<1>2. QED
  BY <1>1 DEF Stored

LEMMA StoredRow ==
    ASSUME Stored, NEW m \in Models, NEW x \in Subjects[m], preds' = Append(preds, Row(m, x)),
           UNCHANGED <<scene, armed, active, sidecar, drift, drifted>>
    PROVE  /\ Stored' /\ Len(preds') = Len(preds) + 1
           /\ DOMAIN preds' = DOMAIN preds \union {Len(preds) + 1}
           /\ \A i \in DOMAIN preds : preds'[i] = preds[i]
           /\ preds'[Len(preds) + 1].model = m
<1>1. /\ preds \in Seq(PredRows) /\ Len(preds) \in Nat /\ DOMAIN preds = 1 .. Len(preds)
      /\ sidecar[m] \in 1 .. active[m] /\ active[m] \in Nat
  BY DEF Stored
<1>2. x \in Nat
  BY SceneFacts DEF Stored
<1>3. /\ Row(m, x) \in PredRows /\ Row(m, x).model = m /\ Row(m, x).entity = x
      /\ Row(m, x).version \in 1 .. active[m]
  BY <1>1, <1>2 DEF Row, PredRows
<1>4. /\ preds' \in Seq(PredRows) /\ Len(preds') = Len(preds) + 1
      /\ DOMAIN preds' = 1 .. Len(preds) + 1
      /\ \A i \in 1 .. Len(preds) : preds'[i] = preds[i]
      /\ preds'[Len(preds) + 1] = Row(m, x)
  BY <1>1, <1>3
<1>5. /\ DOMAIN preds' = DOMAIN preds \union {Len(preds) + 1}
      /\ \A i \in DOMAIN preds : preds'[i] = preds[i]
  BY <1>1, <1>4
<1>6. Subjects' = Subjects
  BY DEF Subjects
<1>7. ASSUME NEW i \in DOMAIN preds'
      PROVE  /\ preds'[i].entity \in Subjects'[preds'[i].model]
             /\ preds'[i].version \in 1 .. active'[preds'[i].model]
  BY <1>3, <1>4, <1>5, <1>6 DEF Stored
<1>8. Stored'
  BY <1>4, <1>7 DEF Stored
<1>9. QED
  BY <1>3, <1>4, <1>5, <1>8

LEMMA StoredPromote ==
    ASSUME Stored, Promote
    PROVE  Stored'
<1>1. PICK m \in Models : active[m] < scene.versions[m] /\ active' = [active EXCEPT ![m] = @ + 1]
  BY DEF Promote
<1>2. UNCHANGED <<scene, armed, sidecar, preds, drift, drifted>>
  BY DEF Promote
<1>3. /\ active \in [Models -> Nat] /\ sidecar \in [Models -> Nat]
      /\ \A k \in Models : /\ active[k] \in 1 .. scene.versions[k] /\ sidecar[k] \in 1 .. active[k]
                           /\ scene.versions[k] \in Nat
  BY SceneFacts DEF Stored
<1>4. /\ active' \in [Models -> Nat] /\ active'[m] = active[m] + 1
      /\ \A k \in Models \ {m} : active'[k] = active[k]
  BY <1>1, <1>3
<1>5. \A k \in Models : active'[k] \in 1 .. scene.versions[k] /\ active[k] <= active'[k]
  BY <1>1, <1>3, <1>4
<1>6. sidecar' \in [Models -> Nat] /\ \A k \in Models : sidecar'[k] \in 1 .. active'[k]
  BY <1>2, <1>3, <1>4, <1>5
<1>7. Subjects' = Subjects
  BY <1>2 DEF Subjects
<1>8. ASSUME NEW i \in DOMAIN preds
      PROVE  preds[i].version \in 1 .. active'[preds[i].model]
  <2>1. preds[i].model \in Models /\ preds[i].version \in 1 .. active[preds[i].model]
    <3>1. preds[i] \in PredRows
      BY DEF Stored
    <3>2. QED
      BY <3>1 DEF Stored, PredRows
  <2>2. QED
    BY <1>3, <1>4, <1>5, <2>1
<1>9. QED
  BY <1>2, <1>4, <1>5, <1>6, <1>7, <1>8 DEF Stored

LEMMA StoredReload ==
    ASSUME Stored, Reload
    PROVE  Stored'
<1>1. UNCHANGED <<scene, armed, active, preds, drift, drifted>> /\ sidecar' = active
  BY DEF Reload
<1>2. \A m \in Models : active[m] \in 1 .. scene.versions[m] /\ active[m] \in 1 .. active[m]
  BY SceneFacts DEF Stored
<1>3. Subjects' = Subjects
  BY <1>1 DEF Subjects
<1>4. QED
  BY <1>1, <1>2, <1>3 DEF Stored

LEMMA StoredDrift ==
    ASSUME Stored, DriftCheck
    PROVE  Stored' /\ Len(drift) <= Len(drift')
<1>1. /\ drifted < Len(DriftWrites) /\ drift' = drift \o DriftWrites[drifted + 1]
      /\ drifted' = drifted + 1 /\ UNCHANGED <<scene, armed, active, sidecar, preds>>
  BY DEF DriftCheck
<1>2. PICK rows : rows = DriftWrites[drifted + 1]
  OBVIOUS
<1>3. rows \in Seq(Findings)
  <2>1. DriftWrites \in Seq(Seq(Findings)) /\ drifted \in Nat
    BY SceneFacts DEF Stored
  <2>2. drifted + 1 \in 1 .. Len(DriftWrites)
    BY <1>1, <2>1
  <2>3. QED
    BY <1>2, <2>1, <2>2
<1>4. drift \in Seq(Findings)
  BY DEF Stored
<1>5. /\ drift' \in Seq(Findings) /\ Len(drift') = Len(drift) + Len(rows)
      /\ Len(drift) \in Nat /\ Len(rows) \in Nat
  BY <1>1, <1>2, <1>3, <1>4
<1>6. Subjects' = Subjects
  BY <1>1 DEF Subjects
<1>7. QED
  BY <1>1, <1>5, <1>6 DEF Stored

LEMMA ReadsOn ==
    ASSUME Stored, Stored', Reads, UNCHANGED <<cursor, pass, poller, watermark>>,
           Len(preds) <= Len(preds'), Len(drift) <= Len(drift')
    PROVE  Reads'
<1>1. /\ Len(preds) \in Nat /\ Len(preds') \in Nat /\ Len(drift) \in Nat /\ Len(drift') \in Nat
  BY DEF Stored
<1>2. QED
  BY <1>1 DEF Reads, Cursors

\* The steps that change neither table.
LEMMA ReadsSame ==
    ASSUME Reads, UNCHANGED <<cursor, preds, drift, pass, poller, watermark>>
    PROVE  Reads'
  BY DEF Reads

----------------------------------------------------------------------------
\* The events in flight, on the bus and in the queue.

LEMMA TypedFlights ==
    ASSUME FlightTyped
    PROVE  /\ \A e \in scorer.outbox : Typed(e)
           /\ \A e \in caster.outbox : Typed(e)
           /\ \A e \in poller.events : Typed(e)
           /\ \A e \in pass.events : Typed(e)
  BY DEF FlightTyped, InFlight

LEMMA TypedParts ==
    ASSUME \A e \in scorer'.outbox : Typed(e), \A e \in caster'.outbox : Typed(e),
           \A e \in poller'.events : Typed(e), \A e \in pass'.events : Typed(e)
    PROVE  FlightTyped'
<1>1. \A e : Typed(e)' <=> Typed(e)
  BY DEF Typed, Event
<1>2. QED
  BY <1>1 DEF FlightTyped, InFlight

LEMMA BusTypedKept ==
    ASSUME BusTyped,
           \/ UNCHANGED bus \/ bus' = <<>> \/ (bus # <<>> /\ bus' = Tail(bus))
           \/ \E e : Typed(e) /\ Published(e)
    PROVE  BusTyped'
<1>1. PICK S : bus \in Seq(S) /\ \A e \in S : Typed(e)
  BY DEF BusTyped
<1>2. SubBuffer \in Nat /\ Len(bus) <= SubBuffer /\ Len(bus) \in Nat
  BY <1>1, FeedAssumption DEF BusTyped
<1>3. \A e : Typed(e)' <=> Typed(e)
  BY DEF Typed, Event
<1>4. CASE UNCHANGED bus \/ bus' = <<>> \/ (bus # <<>> /\ bus' = Tail(bus))
  <2>1. <<>> \in Seq(S) /\ Len(<<>>) <= SubBuffer
    BY <1>2
  <2>2. ASSUME bus # <<>>
        PROVE  Tail(bus) \in Seq(S) /\ Len(Tail(bus)) <= SubBuffer
    <3>1. Tail(bus) \in Seq(S) /\ Len(Tail(bus)) = Len(bus) - 1
      BY <1>1, <2>2
    <3>2. QED
      BY <1>2, <3>1
  <2>3. bus' \in Seq(S) /\ Len(bus') <= SubBuffer
    BY <1>1, <1>2, <1>4, <2>1, <2>2
  <2>4. QED
    BY <1>1, <1>3, <2>3 DEF BusTyped
<1>5. CASE \E e : Typed(e) /\ Published(e)
  <2>1. PICK e : Typed(e) /\ Published(e)
    BY <1>5
  <2>2. bus' \in Seq(S \union {e})
    BY <1>1, <2>1, SentIsSeq DEF Published
  <2>3. Len(bus') <= SubBuffer
    <3>1. Len(Append(bus, e)) = Len(bus) + 1
      BY <1>1
    <3>2. QED
      BY <1>2, <2>1, <3>1 DEF Published, Sent
  <2>4. \A f \in S \union {e} : Typed(f)
    BY <1>1, <2>1
  <2>5. QED
    BY <1>3, <2>2, <2>3, <2>4 DEF BusTyped
<1>6. QED
  BY <1>4, <1>5

LEMMA QueueTypedKept ==
    ASSUME QueueTyped, UNCHANGED queue \/ \E e : Typed(e) /\ queue' = Handled(e)
    PROVE  QueueTyped'
<1>1. CASE UNCHANGED queue
  BY <1>1 DEF QueueTyped, Event
<1>2. CASE \E e : Typed(e) /\ queue' = Handled(e)
  <2>1. PICK e : Typed(e) /\ queue' = Handled(e)
    BY <1>2
  <2> DEFINE new == [kind |-> e.kind, event |-> e, open |-> TRUE]
  <2>2. new.kind = e.kind /\ new.event = e
    OBVIOUS
  <2>3. queue' \subseteq queue \union {new}
    BY <2>1 DEF Handled
  <2> HIDE DEF new
  <2>4. QED
    BY <2>1, <2>2, <2>3 DEF QueueTyped, Typed, Event
<1>3. QED
  BY <1>1, <1>2

LEMMA FaultsBounded ==
    ASSUME faults \in 0 .. MaxFaults, UNCHANGED faults \/ Fault
    PROVE  faults' \in 0 .. MaxFaults
  BY FeedAssumption DEF Fault

\* A step that leaves the tables and what was scored of them alone.
LEMMA TypeBystander ==
    ASSUME TypeInv, UNCHANGED <<scene, armed, active, sidecar, preds, scorer, caster, drift, drifted>>,
           Reads',
           \A e \in poller'.events : Typed(e), \A e \in pass'.events : Typed(e),
           \/ UNCHANGED bus \/ (bus # <<>> /\ bus' = Tail(bus))
           \/ \E e : Typed(e) /\ Published(e),
           UNCHANGED queue \/ \E e : Typed(e) /\ queue' = Handled(e),
           UNCHANGED faults \/ Fault
    PROVE  TypeInv'
<1>1. Stored'
  BY StoredSame DEF TypeInv, Stored
<1>2. Tasks'
  BY DEF TypeInv, Tasks, Subjects
<1>3. FlightTyped'
  BY TypedFlights, TypedParts DEF TypeInv
<1>4. BusTyped' /\ QueueTyped' /\ faults' \in 0 .. MaxFaults
  BY BusTypedKept, QueueTypedKept, FaultsBounded DEF TypeInv
<1>5. QED
  BY <1>1, <1>2, <1>3, <1>4 DEF TypeInv

\* A step of a worker, which stores a row or none.
LEMMA TypeWorker ==
    ASSUME TypeInv,
           UNCHANGED <<scene, armed, active, sidecar, drift, drifted, poller, watermark, queue, cursor, pass>>,
           UNCHANGED preds \/ \E m \in Models : \E x \in Subjects[m] : preds' = Append(preds, Row(m, x)),
           scorer'.todo \subseteq Subjects["churn"], caster'.todo \subseteq Subjects["forecast"],
           \A i \in scorer'.fresh : i \in DOMAIN preds' /\ preds'[i].model = "churn",
           \A e \in scorer'.outbox : Typed(e), \A e \in caster'.outbox : Typed(e),
           UNCHANGED bus \/ \E e : Typed(e) /\ Published(e),
           UNCHANGED faults \/ Fault
    PROVE  TypeInv'
<1>1. Stored' /\ Len(preds) <= Len(preds') /\ Len(drift) <= Len(drift')
  <2>1. Len(preds) \in Nat /\ Len(drift) \in Nat
    BY DEF TypeInv, Stored
  <2>2. CASE UNCHANGED preds
    BY <2>1, <2>2, StoredSame DEF TypeInv, Stored
  <2>3. CASE \E m \in Models : \E x \in Subjects[m] : preds' = Append(preds, Row(m, x))
    <3>1. Stored' /\ Len(preds') = Len(preds) + 1
      BY <2>3, StoredRow DEF TypeInv
    <3>2. QED
      BY <2>1, <3>1
  <2>4. QED
    BY <2>2, <2>3
<1>2. Reads'
  BY <1>1, ReadsOn DEF TypeInv
<1>3. Subjects' = Subjects
  BY DEF Subjects
<1>4. Tasks'
  BY <1>3 DEF Tasks
<1>5. FlightTyped'
  BY TypedFlights, TypedParts DEF TypeInv
<1>6. BusTyped' /\ QueueTyped' /\ faults' \in 0 .. MaxFaults
  BY BusTypedKept, QueueTypedKept, FaultsBounded DEF TypeInv
<1>7. QED
  BY <1>1, <1>2, <1>4, <1>5, <1>6 DEF TypeInv

----------------------------------------------------------------------------
\* The next customer or category is one of those that are left to do.
LEMMA NextSubject ==
    ASSUME TypeInv
    PROVE  /\ scorer.todo # {} => Min(scorer.todo) \in Subjects["churn"]
           /\ caster.todo # {} => Min(caster.todo) \in Subjects["forecast"]
<1>1. Subjects["churn"] \subseteq Nat /\ Subjects["forecast"] \subseteq Nat
  BY SubjectsAreNumbers DEF TypeInv, Stored
<1>2. QED
  BY <1>1, MinIsElement DEF TypeInv, Tasks

LEMMA TypeScorer ==
    ASSUME KeyInv, TypeInv, Scorer \/ ScoreFails
    PROVE  TypeInv'
<1>1. UNCHANGED <<scene, armed, active, sidecar, caster, drift, drifted, poller, watermark, queue, cursor, pass>>
  BY DEF Scorer, ScoreStart, ScoreNext, RankFresh, PublishChurn, ScoreFails
<1>2. /\ DOMAIN scorer = ScorerFields /\ "churn" \in Models
      /\ scorer.todo \subseteq Subjects["churn"] /\ caster'.todo \subseteq Subjects["forecast"]
      /\ \A i \in scorer.fresh : i \in DOMAIN preds /\ preds[i].model = "churn"
  BY <1>1 DEF KeyInv, Shapes, TypeInv, Tasks, Models
<1>3. /\ \A e \in scorer.outbox : Typed(e)
      /\ \A e \in caster'.outbox : Typed(e)
  BY <1>1, TypedFlights DEF TypeInv
<1>4. CASE ScoreStart
  <2>1. UNCHANGED <<preds, bus, faults>> /\ scorer' = [NoScoring EXCEPT !.stage = "score",
            !.version = active["churn"], !.todo = Unscored("churn")]
    BY <1>4 DEF ScoreStart
  <2>2. scorer'.todo = Unscored("churn") /\ scorer'.fresh = {} /\ scorer'.outbox = {}
    BY <2>1 DEF NoScoring
  <2>3. Unscored("churn") \subseteq Subjects["churn"]
    BY DEF Unscored
  <2>4. QED
    BY <1>1, <1>2, <1>3, <2>1, <2>2, <2>3, TypeWorker
<1>5. CASE ScoreNext
  <2>1. PICK c : c = Min(scorer.todo)
    OBVIOUS
  <2>2. /\ scorer.todo # {} /\ UNCHANGED <<bus, faults>>
        /\ preds' = Append(preds, Row("churn", c))
        /\ scorer' = [scorer EXCEPT !.todo = @ \ {c}, !.fresh = @ \union {Len(preds) + 1}]
    BY <1>5, <2>1 DEF ScoreNext
  <2>3. c \in Subjects["churn"]
    BY <2>1, <2>2, NextSubject
  <2>4. /\ scorer'.todo = scorer.todo \ {c} /\ scorer'.outbox = scorer.outbox
        /\ scorer'.fresh = scorer.fresh \union {Len(preds) + 1}
    BY <1>2, <2>2 DEF ScorerFields
  <2>5. /\ DOMAIN preds' = DOMAIN preds \union {Len(preds) + 1}
        /\ \A i \in DOMAIN preds : preds'[i] = preds[i]
        /\ preds'[Len(preds) + 1].model = "churn"
    BY <1>1, <1>2, <2>2, <2>3, StoredRow DEF TypeInv
  <2>6. \A i \in scorer'.fresh : i \in DOMAIN preds' /\ preds'[i].model = "churn"
    BY <1>2, <2>4, <2>5
  <2>7. QED
    BY <1>1, <1>2, <1>3, <2>2, <2>3, <2>4, <2>6, TypeWorker
<1>6. CASE ScoreFails
  <2>1. PICK c : c = Min(scorer.todo)
    OBVIOUS
  <2>2. /\ scorer.todo # {} /\ UNCHANGED bus /\ Fault
        /\ UNCHANGED preds \/ preds' = Append(preds, Row("churn", c))
        /\ scorer' = NoScoring
    BY <1>6, <2>1 DEF ScoreFails
  <2>3. c \in Subjects["churn"]
    BY <2>1, <2>2, NextSubject
  <2>4. scorer'.todo = {} /\ scorer'.fresh = {} /\ scorer'.outbox = {}
    BY <2>2 DEF NoScoring
  <2>5. QED
    BY <1>1, <1>2, <1>3, <2>2, <2>3, <2>4, TypeWorker
<1>7. CASE RankFresh
  <2>1. PICK ids : /\ ids \subseteq scorer.fresh
                   /\ scorer' = [scorer EXCEPT !.stage = "publish",
                                  !.outbox = {ChurnEvent(i, Rank(i)) : i \in ids}]
    BY <1>7 DEF RankFresh, Answered
  <2>2. UNCHANGED <<preds, bus, faults>>
    BY <1>7 DEF RankFresh
  <2>3. /\ scorer'.todo = scorer.todo /\ scorer'.fresh = scorer.fresh
        /\ scorer'.outbox = {ChurnEvent(i, Rank(i)) : i \in ids}
    BY <1>2, <2>1 DEF ScorerFields
  <2>4. ASSUME NEW i \in ids
        PROVE  Typed(ChurnEvent(i, Rank(i)))
    <3>1. i \in DOMAIN preds /\ preds[i].model = "churn" /\ Rank(i) \in Nat
      BY <1>2, <2>1, RankIsNatural DEF TypeInv, Stored
    <3>2. QED
      BY <3>1, ChurnEventTyped DEF TypeInv, Typed
  <2>5. \A e \in scorer'.outbox : Typed(e)
    BY <2>3, <2>4
  <2>6. QED
    BY <1>1, <1>2, <1>3, <2>2, <2>3, <2>5, TypeWorker
<1>8. CASE PublishChurn
  <2>1. UNCHANGED <<preds, faults>>
    BY <1>8 DEF PublishChurn
  <2>2. CASE scorer' = NoScoring /\ UNCHANGED bus
    <3>1. scorer'.todo = {} /\ scorer'.fresh = {} /\ scorer'.outbox = {}
      BY <2>2 DEF NoScoring
    <3>2. QED
      BY <1>1, <1>2, <1>3, <2>1, <2>2, <3>1, TypeWorker
  <2>3. CASE \E e \in scorer.outbox : bus' = Sent(e) /\ scorer' = [scorer EXCEPT !.outbox = @ \ {e}]
    <3>1. PICK e \in scorer.outbox :
              bus' = Sent(e) /\ scorer' = [scorer EXCEPT !.outbox = @ \ {e}]
      BY <2>3
    <3>2. /\ scorer'.todo = scorer.todo /\ scorer'.fresh = scorer.fresh
          /\ scorer'.outbox = scorer.outbox \ {e}
      BY <1>2, <3>1 DEF ScorerFields
    <3>3. Typed(e) /\ Published(e)
      BY <1>3, <3>1 DEF Published
    <3>4. QED
      BY <1>1, <1>2, <1>3, <2>1, <3>2, <3>3, TypeWorker
  <2>4. QED
    BY <1>8, <2>2, <2>3 DEF PublishChurn
<1>9. QED
  BY <1>4, <1>5, <1>6, <1>7, <1>8 DEF Scorer

LEMMA TypeCaster ==
    ASSUME KeyInv, TypeInv, Caster \/ CastFails
    PROVE  TypeInv'
<1>1. UNCHANGED <<scene, armed, active, sidecar, scorer, drift, drifted, poller, watermark, queue, cursor, pass>>
  BY DEF Caster, CastStart, CastNext, CastPublish, CastFails
<1>2. /\ DOMAIN caster = CasterFields /\ "forecast" \in Models
      /\ scorer'.todo \subseteq Subjects["churn"] /\ caster.todo \subseteq Subjects["forecast"]
      /\ \A i \in scorer'.fresh : i \in DOMAIN preds /\ preds[i].model = "churn"
  BY <1>1 DEF KeyInv, Shapes, TypeInv, Tasks, Models
<1>3. /\ \A e \in caster.outbox : Typed(e)
      /\ \A e \in scorer'.outbox : Typed(e)
  BY <1>1, TypedFlights DEF TypeInv
\* The row of a category leaves those of the customers where they are.
<1>4. ASSUME NEW k \in Subjects["forecast"], preds' = Append(preds, Row("forecast", k))
      PROVE  \A i \in scorer'.fresh : i \in DOMAIN preds' /\ preds'[i].model = "churn"
  <2>1. /\ DOMAIN preds \subseteq DOMAIN preds'
        /\ \A i \in DOMAIN preds : preds'[i] = preds[i]
    BY <1>1, <1>2, <1>4, StoredRow DEF TypeInv
  <2>2. QED
    BY <1>2, <2>1
<1>5. CASE CastStart
  <2>1. UNCHANGED <<preds, bus, faults>> /\ caster' = [NoCasting EXCEPT !.on = TRUE,
            !.version = active["forecast"], !.todo = Forecastable]
    BY <1>5 DEF CastStart
  <2>2. caster'.todo = Forecastable /\ caster'.outbox = {}
    BY <2>1 DEF NoCasting
  <2>3. Forecastable \subseteq Subjects["forecast"]
    BY DEF Forecastable, Unscored
  <2>4. QED
    BY <1>1, <1>2, <1>3, <2>1, <2>2, <2>3, TypeWorker
<1>6. CASE CastNext
  <2>1. PICK k : k = Min(caster.todo)
    OBVIOUS
  <2>2. /\ caster.todo # {} /\ UNCHANGED <<bus, faults>>
        /\ preds' = Append(preds, Row("forecast", k))
        /\ caster' = [caster EXCEPT !.todo = @ \ {k}, !.outbox = {ForecastEvent(Row("forecast", k))}]
    BY <1>6, <2>1 DEF CastNext
  <2>3. k \in Subjects["forecast"]
    BY <2>1, <2>2, NextSubject
  <2>4. caster'.todo = caster.todo \ {k} /\ caster'.outbox = {ForecastEvent(Row("forecast", k))}
    BY <1>2, <2>2 DEF CasterFields
  <2>5. \A e \in caster'.outbox : Typed(e)
    BY <2>4, OtherEventsTyped
  <2>6. QED
    BY <1>1, <1>2, <1>3, <1>4, <2>2, <2>3, <2>4, <2>5, TypeWorker
<1>7. CASE CastFails
  <2>1. PICK k : k = Min(caster.todo)
    OBVIOUS
  <2>2. /\ caster.todo # {} /\ UNCHANGED bus /\ Fault
        /\ UNCHANGED preds \/ preds' = Append(preds, Row("forecast", k))
        /\ caster' = NoCasting
    BY <1>7, <2>1 DEF CastFails
  <2>3. k \in Subjects["forecast"]
    BY <2>1, <2>2, NextSubject
  <2>4. caster'.todo = {} /\ caster'.outbox = {}
    BY <2>2 DEF NoCasting
  <2>5. \A i \in scorer'.fresh : i \in DOMAIN preds' /\ preds'[i].model = "churn"
    BY <1>2, <1>4, <2>2, <2>3
  <2>6. QED
    BY <1>1, <1>2, <1>3, <2>2, <2>3, <2>4, <2>5, TypeWorker
<1>8. CASE CastPublish
  <2>1. UNCHANGED <<preds, faults>>
    BY <1>8 DEF CastPublish
  <2>2. CASE caster' = NoCasting /\ UNCHANGED bus
    <3>1. caster'.todo = {} /\ caster'.outbox = {}
      BY <2>2 DEF NoCasting
    <3>2. QED
      BY <1>1, <1>2, <1>3, <2>1, <2>2, <3>1, TypeWorker
  <2>3. CASE \E e \in caster.outbox : bus' = Sent(e) /\ caster' = [caster EXCEPT !.outbox = @ \ {e}]
    <3>1. PICK e \in caster.outbox :
              bus' = Sent(e) /\ caster' = [caster EXCEPT !.outbox = @ \ {e}]
      BY <2>3
    <3>2. caster'.todo = caster.todo /\ caster'.outbox = caster.outbox \ {e}
      BY <1>2, <3>1 DEF CasterFields
    <3>3. Typed(e) /\ Published(e)
      BY <1>3, <3>1 DEF Published
    <3>4. QED
      BY <1>1, <1>2, <1>3, <2>1, <3>2, <3>3, TypeWorker
  <2>4. QED
    BY <1>8, <2>2, <2>3 DEF CastPublish
<1>9. QED
  BY <1>5, <1>6, <1>7, <1>8 DEF Caster

LEMMA TypePoller ==
    ASSUME KeyInv, TypeInv, Poller
    PROVE  TypeInv'
<1>1. /\ UNCHANGED <<scene, armed, active, sidecar, preds, scorer, caster, drift, drifted>>
      /\ UNCHANGED <<queue, cursor, pass>>
  BY DEF Poller, PollRead, PollPublish, PollWrite
<1>2. DOMAIN poller = PollerFields /\ Len(drift) \in Nat
  BY DEF KeyInv, Shapes, TypeInv, Stored
<1>3. /\ \A e \in poller.events : Typed(e)
      /\ \A e \in pass'.events : Typed(e)
  BY <1>1, TypedFlights DEF TypeInv
<1>4. ASSUME watermark' \in Nat, watermark' <= Len(drift), poller'.upto \in Nat, poller'.upto <= Len(drift)
      PROVE  Reads'
  BY <1>1, <1>4 DEF TypeInv, Reads
<1>5. /\ watermark \in Nat /\ watermark <= Len(drift)
      /\ poller.upto \in Nat /\ poller.upto <= Len(drift)
  BY DEF TypeInv, Reads
<1>6. CASE PollRead
  <2>1. /\ poller'.upto = Len(drift) /\ UNCHANGED <<watermark, bus, faults>>
        /\ poller'.events = DriftEvents(watermark + 1 .. Len(drift))
    BY <1>6 DEF PollRead
  <2>2. Reads'
    BY <1>2, <1>4, <1>5, <2>1
  <2>3. QED
    BY <1>1, <1>3, <2>1, <2>2, OtherEventsTyped, TypeBystander
<1>7. CASE PollPublish
  <2>1. PICK e \in poller.events :
            bus' = Sent(e) /\ poller' = [poller EXCEPT !.events = @ \ {e}]
    BY <1>7 DEF PollPublish
  <2>2. poller'.events = poller.events \ {e} /\ poller'.upto = poller.upto
    BY <1>2, <2>1 DEF PollerFields
  <2>3. UNCHANGED <<watermark, faults>> /\ Typed(e) /\ Published(e)
    BY <1>3, <1>7, <2>1 DEF PollPublish, Published
  <2>4. Reads'
    BY <1>4, <1>5, <2>2, <2>3
  <2>5. QED
    BY <1>1, <1>3, <2>2, <2>3, <2>4, TypeBystander
<1>8. CASE PollWrite
  <2>1. /\ poller' = NoPoll /\ watermark' \in {watermark, poller.upto} /\ UNCHANGED bus
        /\ UNCHANGED faults \/ Fault
    BY <1>8 DEF PollWrite
  <2>2. poller'.events = {} /\ poller'.upto = 0
    BY <2>1 DEF NoPoll
  <2>3. Reads'
    BY <1>2, <1>4, <1>5, <2>1, <2>2
  <2>4. QED
    BY <1>1, <1>3, <2>1, <2>2, <2>3, TypeBystander
<1>9. QED
  BY <1>6, <1>7, <1>8 DEF Poller

\* A pass of the reconciler, of which only the last step changes the cursors.
LEMMA TypePass ==
    ASSUME TypeInv,
           UNCHANGED <<scene, armed, active, sidecar, preds, scorer, caster, drift, drifted, poller,
                       watermark, bus>>,
           cursor' \in Cursors, cursor'.preds <= Len(preds), cursor'.drift <= Len(drift),
           pass'.read \in Cursors, pass'.read.preds <= Len(preds), pass'.read.drift <= Len(drift),
           pass'.upto \in Nat,
           pass'.stage \in {"rank", "preds"} => pass'.upto <= Len(preds),
           pass'.stage = "drift" => pass'.upto <= Len(drift),
           \A e \in pass'.events : Typed(e),
           UNCHANGED queue \/ \E e : Typed(e) /\ queue' = Handled(e),
           UNCHANGED faults \/ Fault
    PROVE  TypeInv'
<1>1. Reads'
  BY DEF TypeInv, Reads
<1>2. \A e \in poller'.events : Typed(e)
  BY TypedFlights DEF TypeInv
<1>3. QED
  BY <1>1, <1>2, TypeBystander

LEMMA NoPassFacts ==
    /\ NoPass.read \in Cursors /\ NoPass.read.preds = 0 /\ NoPass.read.drift = 0
    /\ NoPass.upto = 0 /\ NoPass.stage = "off" /\ NoPass.events = {}
  BY DEF NoPass, Cursors

LEMMA TypeReconcile ==
    ASSUME KeyInv, TypeInv, Reconcile \/ PassFails
    PROVE  TypeInv'
<1>1. UNCHANGED <<scene, armed, active, sidecar, preds, scorer, caster, drift, drifted, poller,
                  watermark, bus>>
  BY DEF Reconcile, PassRead, PassRank, PassHandle, PassDrift, PassWrite, PassFails
<1>2. DOMAIN pass = PassFields /\ \A e \in pass.events : Typed(e)
  BY TypedFlights DEF KeyInv, Shapes, TypeInv
<1>3. /\ cursor \in Cursors /\ cursor.preds <= Len(preds) /\ cursor.drift <= Len(drift)
      /\ pass.read \in Cursors /\ pass.read.preds <= Len(preds) /\ pass.read.drift <= Len(drift)
      /\ pass.upto \in Nat /\ (pass.stage \in {"rank", "preds"} => pass.upto <= Len(preds))
      /\ (pass.stage = "drift" => pass.upto <= Len(drift))
  BY DEF TypeInv, Reads
<1>4. /\ Len(preds) \in Nat /\ Len(drift) \in Nat /\ DOMAIN preds = 1 .. Len(preds)
      /\ cursor.preds \in Nat /\ pass.read.preds \in Nat /\ pass.read.drift \in Nat
  BY <1>3 DEF TypeInv, Stored, Cursors
<1>5. CASE PassRead
  <2>1. PICK ids : ids = Scanned(cursor.preds, Len(preds))
    OBVIOUS
  <2>2. PICK last : last = UpTo(cursor.preds, ids, PredictionBatch)
    OBVIOUS
  <2>3. /\ pass' = [NoPass EXCEPT !.stage = "rank", !.read = cursor, !.upto = last]
        /\ UNCHANGED <<queue, cursor, faults>>
    BY <1>5, <2>1, <2>2 DEF PassRead
  <2>4. ids \subseteq cursor.preds + 1 .. Len(preds)
    BY <2>1 DEF Scanned
  <2>5. last \in Nat /\ last <= Len(preds)
    BY <1>3, <1>4, <2>2, <2>4, UpToBounds
  <2>6. pass'.stage = "rank" /\ pass'.read = cursor /\ pass'.upto = last /\ pass'.events = {}
    BY <2>3 DEF NoPass
  <2>7. QED
    BY <1>1, <1>3, <2>3, <2>5, <2>6, TypePass
<1>6. CASE PassRank
  <2>1. PICK ids : ids = Scanned(pass.read.preds, pass.upto)
    OBVIOUS
  <2>2. /\ pass' = [pass EXCEPT !.stage = "preds", !.events = {PredictionEvent(i, Rank(i)) : i \in ids}]
        /\ pass.stage = "rank" /\ UNCHANGED <<queue, cursor, faults>>
    BY <1>6, <2>1 DEF PassRank
  <2>3. ids \subseteq pass.read.preds + 1 .. pass.upto
    BY <2>1 DEF Scanned
  <2>4. ids \subseteq DOMAIN preds
    BY <1>3, <1>4, <2>2, <2>3
  <2>5. /\ pass'.stage = "preds" /\ pass'.read = pass.read /\ pass'.upto = pass.upto
        /\ pass'.events = {PredictionEvent(i, Rank(i)) : i \in ids}
    BY <1>2, <2>2 DEF PassFields
  <2>6. \A i \in ids : Typed(PredictionEvent(i, Rank(i)))
    BY <2>4, PredictionEventTyped DEF TypeInv
  <2>7. \A e \in pass'.events : Typed(e)
    BY <2>5, <2>6
  <2>8. pass.upto <= Len(preds)
    BY <1>3, <2>2
  <2>9. QED
    BY <1>1, <1>3, <2>2, <2>5, <2>7, <2>8, TypePass
<1>7. CASE PassHandle
  <2>1. PICK e \in pass.events :
            \/ queue' = Handled(e) /\ UNCHANGED faults /\ pass' = [pass EXCEPT !.events = @ \ {e}]
            \/ UNCHANGED queue /\ Fault /\ pass' = [pass EXCEPT !.events = @ \ {e}, !.failed = TRUE]
    BY <1>7 DEF PassHandle
  <2>2. /\ pass'.stage = pass.stage /\ pass'.read = pass.read /\ pass'.upto = pass.upto
        /\ pass'.events = pass.events \ {e}
    BY <1>2, <2>1 DEF PassFields
  <2>3. UNCHANGED cursor /\ Typed(e)
    BY <1>2, <1>7 DEF PassHandle
  <2>4. UNCHANGED faults \/ Fault
    BY <2>1
  <2>5. QED
    BY <1>1, <1>2, <1>3, <2>1, <2>2, <2>3, <2>4, TypePass
<1>8. CASE PassDrift
  <2>1. PICK from : from = pass.read.drift
    OBVIOUS
  <2>2. PICK ids : ids = (IF "drift" \in armed THEN from + 1 .. Len(drift) ELSE {})
    OBVIOUS
  <2>3. PICK last : last = UpTo(from, ids, DriftBatch)
    OBVIOUS
  <2>4. PICK at : at = Reached(pass.read.preds)
    OBVIOUS
  <2>5. /\ pass' = [stage |-> "drift", upto |-> last, failed |-> FALSE,
                    events |-> DriftEvents(from + 1 .. last),
                    read |-> [pass.read EXCEPT !.preds = at]]
        /\ pass.stage = "preds" /\ UNCHANGED <<queue, cursor, faults>>
    BY <1>8, <2>1, <2>2, <2>3, <2>4 DEF PassDrift
  <2>6. ids \subseteq from + 1 .. Len(drift)
    BY <2>2
  <2>7. last \in Nat /\ last <= Len(drift)
    BY <1>3, <1>4, <2>1, <2>3, <2>6, UpToBounds
  <2>8. at \in Nat /\ at <= Len(preds)
    BY <1>3, <1>4, <2>4, <2>5 DEF Reached
  <2>9. /\ pass'.stage = "drift" /\ pass'.upto = last /\ pass'.events = DriftEvents(from + 1 .. last)
        /\ pass'.read = [pass.read EXCEPT !.preds = at]
    BY <2>5
  <2>10. /\ pass'.read \in Cursors /\ pass'.read.preds = at /\ pass'.read.drift = pass.read.drift
    BY <1>3, <2>8, <2>9 DEF Cursors
  <2>11. QED
    BY <1>1, <1>3, <2>5, <2>7, <2>8, <2>9, <2>10, OtherEventsTyped, TypePass
<1>9. CASE PassWrite
  <2>1. PICK at : at = Reached(pass.read.drift)
    OBVIOUS
  <2>2. /\ cursor' = [pass.read EXCEPT !.drift = at] /\ pass' = NoPass
        /\ pass.stage = "drift" /\ UNCHANGED <<queue, faults>>
    BY <1>9, <2>1 DEF PassWrite
  <2>3. at \in Nat /\ at <= Len(drift)
    BY <1>3, <1>4, <2>1, <2>2 DEF Reached
  <2>4. /\ cursor' \in Cursors /\ cursor'.preds = pass.read.preds /\ cursor'.drift = at
    BY <1>3, <2>2, <2>3 DEF Cursors
  <2>5. QED
    BY <1>1, <1>3, <1>4, <2>2, <2>3, <2>4, NoPassFacts, TypePass
<1>10. CASE PassFails
  <2>1. pass' = NoPass /\ UNCHANGED <<queue, cursor>> /\ Fault
    BY <1>10 DEF PassFails
  <2>2. QED
    BY <1>1, <1>3, <1>4, <2>1, NoPassFacts, TypePass
<1>11. QED
  BY <1>5, <1>6, <1>7, <1>8, <1>9, <1>10 DEF Reconcile

LEMMA TypeEngine ==
    ASSUME KeyInv, TypeInv, EngineHandle \/ Settle
    PROVE  TypeInv'
<1>1. /\ UNCHANGED <<scene, armed, active, sidecar, preds, scorer, caster, drift, drifted>>
      /\ UNCHANGED <<poller, watermark, cursor, pass>>
  BY DEF EngineHandle, Settle
<1>2. Reads'
  BY <1>1, ReadsSame DEF TypeInv
<1>3. /\ \A e \in poller'.events : Typed(e)
      /\ \A e \in pass'.events : Typed(e)
  BY <1>1, TypedFlights DEF TypeInv
<1>4. CASE EngineHandle
  <2>1. /\ bus # <<>> /\ bus' = Tail(bus)
        /\ queue' = Handled(Head(bus)) \/ UNCHANGED queue
        /\ UNCHANGED faults \/ Fault
    BY <1>4 DEF EngineHandle
  <2>2. PICK S : bus \in Seq(S) /\ \A e \in S : Typed(e)
    BY DEF TypeInv, BusTyped
  <2>3. Head(bus) \in S
    BY <2>1, <2>2
  <2>4. Typed(Head(bus))
    BY <2>2, <2>3
  <2>5. QED
    BY <1>1, <1>2, <1>3, <2>1, <2>4, TypeBystander
<1>5. CASE Settle
  <2>1. PICK p \in queue : queue' = (queue \ {p}) \union {[p EXCEPT !.open = FALSE]}
    BY <1>5 DEF Settle
  <2>2. UNCHANGED <<bus, faults>>
    BY <1>5 DEF Settle
  <2> DEFINE new == [p EXCEPT !.open = FALSE]
  <2>3. new.kind = p.kind /\ new.event = p.event
    BY DEF KeyInv, QueueKeyed
  <2>4. queue' \subseteq queue \union {new}
    BY <2>1
  <2> HIDE DEF new
  <2>5. QueueTyped'
    BY <2>3, <2>4 DEF TypeInv, QueueTyped, Event
  <2>6. Stored' /\ Tasks'
    BY <1>1, StoredSame DEF TypeInv, Tasks, Subjects, Stored
  <2>7. FlightTyped'
    BY <1>1, <1>3, TypedFlights, TypedParts DEF TypeInv
  <2>8. BusTyped' /\ faults' \in 0 .. MaxFaults
    BY <2>2, BusTypedKept DEF TypeInv
  <2>9. QED
    BY <1>2, <2>5, <2>6, <2>7, <2>8 DEF TypeInv
<1>6. QED
  BY <1>4, <1>5

LEMMA TypeOthers ==
    ASSUME TypeInv, Promote \/ Reload \/ DriftCheck \/ UNCHANGED vars
    PROVE  TypeInv'
<1>1. UNCHANGED <<scene, preds, scorer, caster, poller, watermark, bus, queue, cursor, pass, faults>>
  BY DEF Promote, Reload, DriftCheck, vars
<1>2. Stored' /\ Len(drift) <= Len(drift') /\ Len(preds) <= Len(preds')
  <2>1. Len(drift) \in Nat /\ Len(preds) \in Nat
    BY DEF TypeInv, Stored
  <2>2. CASE Promote \/ Reload
    <3>1. Stored'
      BY <2>2, StoredPromote, StoredReload DEF TypeInv
    <3>2. UNCHANGED drift
      BY <2>2 DEF Promote, Reload
    <3>3. QED
      BY <1>1, <2>1, <3>1, <3>2
  <2>3. CASE DriftCheck
    BY <1>1, <2>1, <2>3, StoredDrift DEF TypeInv
  <2>4. CASE UNCHANGED vars
    <3>1. UNCHANGED <<scene, armed, active, sidecar, preds, drift, drifted>>
      BY <2>4 DEF vars
    <3>2. Stored'
      BY <3>1, StoredSame DEF TypeInv, Stored
    <3>3. QED
      BY <2>1, <3>1, <3>2
  <2>5. QED
    BY <2>2, <2>3, <2>4
<1>3. Reads'
  BY <1>1, <1>2, ReadsOn DEF TypeInv
<1>4. Tasks'
  BY <1>1 DEF TypeInv, Tasks, Subjects
<1>5. FlightTyped'
  BY <1>1, TypedFlights, TypedParts DEF TypeInv
<1>6. BusTyped' /\ QueueTyped' /\ faults' \in 0 .. MaxFaults
  BY <1>1, BusTypedKept, QueueTypedKept DEF TypeInv
<1>7. QED
  BY <1>2, <1>3, <1>4, <1>5, <1>6 DEF TypeInv

LEMMA TypeCrash ==
    ASSUME TypeInv, Crash
    PROVE  TypeInv'
<1>1. /\ UNCHANGED <<scene, active, sidecar, preds, drift, drifted, watermark, queue, cursor>>
      /\ armed' \in scene.armings /\ Fault /\ bus' = <<>>
      /\ scorer' = NoScoring /\ caster' = NoCasting /\ poller' = NoPoll /\ pass' = NoPass
  BY DEF Crash
<1>2. Len(preds) \in Nat /\ Len(drift) \in Nat
  BY DEF TypeInv, Stored
<1>3. Reads'
  <2>1. poller'.upto = 0
    BY <1>1 DEF NoPoll
  <2>2. QED
    BY <1>1, <1>2, <2>1, NoPassFacts DEF TypeInv, Reads
<1>4. Stored'
  BY <1>1, StoredSame DEF TypeInv
<1>5. Tasks'
  BY <1>1 DEF Tasks, NoScoring, NoCasting
<1>6. FlightTyped'
  BY <1>1, TypedParts DEF NoScoring, NoCasting, NoPoll, NoPass
<1>7. BusTyped' /\ QueueTyped' /\ faults' \in 0 .. MaxFaults
  BY <1>1, BusTypedKept, QueueTypedKept, FaultsBounded DEF TypeInv
<1>8. QED
  BY <1>3, <1>4, <1>5, <1>6, <1>7 DEF TypeInv

LEMMA TypeInit == Init => TypeInv
<1> SUFFICES ASSUME Init PROVE TypeInv
  OBVIOUS
<1>1. /\ scene \in Scenes /\ armed \in scene.armings
      /\ active = [m \in Models |-> 1] /\ sidecar = active
      /\ preds = <<>> /\ drift = <<>> /\ drifted = 0 /\ bus = <<>> /\ queue = {}
      /\ scorer = NoScoring /\ caster = NoCasting /\ poller = NoPoll /\ pass = NoPass
      /\ cursor = [preds |-> 0, drift |-> 0] /\ watermark = 0 /\ faults = 0
  BY DEF Init
<1>2. Stored
  <2>1. preds \in Seq(PredRows) /\ drift \in Seq(Findings) /\ DOMAIN preds = {}
    BY <1>1
  <2>2. active \in [Models -> Nat] /\ \A m \in Models : active[m] = 1
    BY <1>1
  <2>3. \A m \in Models : scene.versions[m] \in Nat \ {0}
    BY <1>1, SceneFacts
  <2>4. QED
    BY <1>1, <2>1, <2>2, <2>3 DEF Stored
<1>3. Reads
  <2>1. poller.upto = 0 /\ Len(preds) = 0 /\ Len(drift) = 0
    BY <1>1 DEF NoPoll
  <2>2. cursor \in Cursors /\ cursor.preds = 0 /\ cursor.drift = 0
    BY <1>1 DEF Cursors
  <2>3. QED
    BY <1>1, <2>1, <2>2, NoPassFacts DEF Reads
<1>4. Tasks
  BY <1>1 DEF Tasks, NoScoring, NoCasting
<1>5. FlightTyped
  BY <1>1 DEF FlightTyped, InFlight, NoScoring, NoCasting, NoPoll, NoPass
<1>6. BusTyped
  <2>1. <<>> \in Seq({}) /\ Len(<<>>) = 0 /\ SubBuffer \in Nat
    BY FeedAssumption
  <2>2. QED
    BY <1>1, <2>1 DEF BusTyped
<1>7. faults \in 0 .. MaxFaults
  BY <1>1, FeedAssumption
<1>8. QED
  BY <1>1, <1>2, <1>3, <1>4, <1>5, <1>6, <1>7 DEF TypeInv, QueueTyped

LEMMA TypeNext ==
    ASSUME KeyInv, TypeInv, [Next]_vars
    PROVE  TypeInv'
  BY TypeScorer, TypeCaster, TypePoller, TypeReconcile, TypeEngine, TypeOthers, TypeCrash DEF Next

\* Neither cursor and not the poller's watermark ever passes the table that it
\* is about, although they are taken from scans that have been overtaken by the
\* time they are written; the channel keeps its bound, and a churn proposal in
\* the queue has an event with a rank.  No assumption on the sidecar is needed.
THEOREM TypeCorrect == Spec => []TypeOK
<1>1. TypeInv => TypeOK
  <2> SUFFICES ASSUME TypeInv PROVE TypeOK
    OBVIOUS
  <2>1. \A i \in DOMAIN preds : LET m == preds[i].model IN
           m \in Models /\ preds[i].entity \in Subjects[m] /\ preds[i].version \in 1 .. active[m]
    <3>1. \A i \in DOMAIN preds : preds[i] \in PredRows
      BY DEF TypeInv, Stored
    <3>2. QED
      BY <3>1 DEF TypeInv, Stored, PredRows
  <2>2. /\ cursor.preds \in 0 .. Len(preds) /\ cursor.drift \in 0 .. Len(drift)
        /\ watermark \in 0 .. Len(drift)
    <3>1. Len(preds) \in Nat /\ Len(drift) \in Nat
      BY DEF TypeInv, Stored
    <3>2. QED
      BY <3>1 DEF TypeInv, Reads, Cursors
  <2>3. QED
    BY <2>1, <2>2 DEF TypeOK, TypeInv, Stored, BusTyped, QueueTyped
<1>2. Init => KeyInv /\ TypeInv
  BY KeyInit, TypeInit
<1>3. KeyInv /\ TypeInv /\ [Next]_vars => (KeyInv /\ TypeInv)'
  BY KeyNext, TypeNext
<1>4. QED
  BY <1>1, <1>2, <1>3, PTL DEF Spec

----------------------------------------------------------------------------
(* What the cursors leave behind                                            *)

\* What an event or a proposal says it is about is what its key says.
NamedBy(e, rows) ==
    /\ e.kind = "churn" => e.key \in DOMAIN rows /\ rows[e.key].entity = e.entity
    /\ e.kind = "forecast" => e.key = e.entity
    /\ e.kind = "drift" => e.key[1] = e.entity

FlightNamed == \A e \in InFlight : NamedBy(e, preds)
BusNamed == \E S : bus \in Seq(S) /\ \A e \in S : NamedBy(e, preds)
QueueNamed == \A p \in queue : NamedBy(p.event, preds)

NameInv == FlightNamed /\ BusNamed /\ QueueNamed

\* Rows are stored by the worker of an enabled rule.
FedInv ==
    /\ scorer.stage = "score" => "churn" \in armed
    /\ caster.on => "forecast" \in armed
    /\ \A i \in DOMAIN preds : \E a \in scene.armings : preds[i].model \in a

\* Proposed, or about to be by the pass.
Pending(kind, entity) ==
    \/ IsProposed(kind, entity)
    \/ \E e \in pass.events : e.fires /\ e.kind = kind /\ e.entity = entity

PredsThrough(n) == \A i \in 1 .. n : Due(i) => IsProposed(preds[i].model, preds[i].entity)
DriftThrough(n) == \A i \in 1 .. n : drift[i].status = "critical" => IsProposed("drift", drift[i].model)

ScanCovers ==
    /\ pass.stage = "rank" => ~pass.failed
    /\ pass.stage \in {"rank", "preds"} =>
          /\ pass.read = cursor
          /\ pass.upto > cursor.preds => armed \cap Models # {}
    /\ pass.stage = "preds" /\ ~pass.failed =>
          \A i \in Scanned(cursor.preds, pass.upto) : Due(i) => Pending(preds[i].model, preds[i].entity)

DriftCovers == pass.stage = "drift" =>
    /\ pass.read.drift = cursor.drift
    /\ PredsThrough(pass.read.preds)
    /\ ~pass.failed => \A i \in cursor.drift + 1 .. pass.upto :
          drift[i].status = "critical" => Pending("drift", drift[i].model)

\* The pass proposes for enabled rules only.
PassArmed == \A e \in pass.events : e.kind \in armed

CoverInv ==
    /\ PredsThrough(cursor.preds) /\ DriftThrough(cursor.drift)
    /\ ScanCovers /\ DriftCovers /\ PassArmed

\* The tables and the queue only grow.
Grows ==
    /\ \A i \in DOMAIN preds : i \in DOMAIN preds' /\ preds'[i] = preds[i]
    /\ \A i \in DOMAIN drift : i \in DOMAIN drift' /\ drift'[i] = drift[i]
    /\ \A p \in queue : \E q \in queue' : q.kind = p.kind /\ q.event = p.event

LEMMA HandledGrows ==
    ASSUME NEW e, queue' = Handled(e)
    PROVE  \A p \in queue : \E q \in queue' : q.kind = p.kind /\ q.event = p.event
<1>1. queue \subseteq queue'
  BY DEF Handled
<1>2. QED
  BY <1>1

LEMMA TablesGrow ==
    ASSUME TypeInv, [Next]_vars
    PROVE  /\ \A i \in DOMAIN preds : i \in DOMAIN preds' /\ preds'[i] = preds[i]
           /\ \A i \in DOMAIN drift : i \in DOMAIN drift' /\ drift'[i] = drift[i]
<1>1. preds \in Seq(PredRows) /\ drift \in Seq(Findings)
  BY DEF TypeInv, Stored
<1>2. \A row : /\ Len(Append(preds, row)) = Len(preds) + 1
               /\ \A i \in DOMAIN preds : i \in DOMAIN Append(preds, row) /\ Append(preds, row)[i] = preds[i]
  BY <1>1
<1>3. \A i \in DOMAIN preds : i \in DOMAIN preds' /\ preds'[i] = preds[i]
  <2>1. CASE UNCHANGED preds
    BY <2>1
  <2>2. CASE \E row : preds' = Append(preds, row)
    BY <1>2, <2>2
  <2>3. UNCHANGED preds \/ \E row : preds' = Append(preds, row)
    BY DEF Next, Promote, Reload, Scorer, ScoreStart, ScoreNext, RankFresh, PublishChurn, ScoreFails,
       Caster, CastStart, CastNext, CastPublish, CastFails, DriftCheck, Poller, PollRead,
       PollPublish, PollWrite, EngineHandle, Settle, Reconcile, PassRead, PassRank, PassHandle,
       PassDrift, PassWrite, PassFails, Crash, vars
  <2>4. QED
    BY <2>1, <2>2, <2>3
<1>4. \A i \in DOMAIN drift : i \in DOMAIN drift' /\ drift'[i] = drift[i]
  <2>1. CASE UNCHANGED drift
    BY <2>1
  <2>2. CASE DriftCheck
    <3>1. PICK rows : rows = DriftWrites[drifted + 1]
      OBVIOUS
    <3>2. rows \in Seq(Findings)
      <4>1. DriftWrites \in Seq(Seq(Findings)) /\ drifted \in Nat
        BY SceneFacts DEF TypeInv, Stored
      <4>2. drifted + 1 \in 1 .. Len(DriftWrites)
        BY <2>2, <4>1 DEF DriftCheck
      <4>3. QED
        BY <3>1, <4>1, <4>2
    <3>3. drift' = drift \o rows
      BY <2>2, <3>1 DEF DriftCheck
    <3>4. QED
      BY <1>1, <3>2, <3>3
  <2>3. UNCHANGED drift \/ DriftCheck
    BY DEF Next, Promote, Reload, Scorer, ScoreStart, ScoreNext, RankFresh, PublishChurn, ScoreFails,
       Caster, CastStart, CastNext, CastPublish, CastFails, Poller, PollRead,
       PollPublish, PollWrite, EngineHandle, Settle, Reconcile, PassRead, PassRank, PassHandle,
       PassDrift, PassWrite, PassFails, Crash, vars
  <2>4. QED
    BY <2>1, <2>2, <2>3
<1>5. QED
  BY <1>3, <1>4

LEMMA StepGrows ==
    ASSUME KeyInv, TypeInv, [Next]_vars
    PROVE  Grows
<1>1. \A p \in queue : \E q \in queue' : q.kind = p.kind /\ q.event = p.event
  <2>1. CASE UNCHANGED queue
    BY <2>1
  <2>2. CASE \E e : queue' = Handled(e)
    BY <2>2, HandledGrows
  <2>3. CASE Settle
    <3>1. PICK p \in queue : queue' = (queue \ {p}) \union {[p EXCEPT !.open = FALSE]}
      BY <2>3 DEF Settle
    <3>2. [p EXCEPT !.open = FALSE].kind = p.kind /\ [p EXCEPT !.open = FALSE].event = p.event
      BY DEF KeyInv, QueueKeyed
    <3>3. QED
      BY <3>1, <3>2
  <2>4. UNCHANGED queue \/ (\E e : queue' = Handled(e)) \/ Settle
    BY DEF Next, Promote, Reload, Scorer, ScoreStart, ScoreNext, RankFresh, PublishChurn, ScoreFails,
       Caster, CastStart, CastNext, CastPublish, CastFails, DriftCheck, Poller, PollRead,
       PollPublish, PollWrite, EngineHandle, Reconcile, PassRead, PassRank, PassHandle,
       PassDrift, PassWrite, PassFails, Crash, vars
  <2>5. QED
    BY <2>1, <2>2, <2>3, <2>4
<1>2. QED
  BY <1>1, TablesGrow DEF Grows

----------------------------------------------------------------------------
\* Names.

\* The events that a step may make.
IsMade(e) ==
    \/ \E i \in DOMAIN preds : \E rank : e = ChurnEvent(i, rank)
    \/ \E row : e = ForecastEvent(row)
    \/ \E run, S : e = DriftEvent(run, S)

LEMMA MadeNamed ==
    ASSUME NEW e, IsMade(e)
    PROVE  NamedBy(e, preds)
<1>1. CASE \E i \in DOMAIN preds : \E rank : e = ChurnEvent(i, rank)
  BY <1>1 DEF ChurnEvent, NamedBy
<1>2. CASE \E row : e = ForecastEvent(row)
  BY <1>2 DEF ForecastEvent, NamedBy
<1>3. CASE \E run, S : e = DriftEvent(run, S)
  BY <1>3 DEF DriftEvent, DriftKey, NamedBy
<1>4. QED
  BY <1>1, <1>2, <1>3 DEF IsMade

LEMMA PredictionEventMade ==
    ASSUME NEW i \in DOMAIN preds, NEW rank
    PROVE  IsMade(PredictionEvent(i, rank))
  BY DEF PredictionEvent, IsMade

LEMMA DriftEventsMade ==
    ASSUME NEW ids, NEW e \in DriftEvents(ids)
    PROVE  IsMade(e)
<1>1. \E run, S : e = DriftEvent(run, S)
  BY DEF DriftEvents
<1>2. QED
  BY <1>1 DEF IsMade

LEMMA NamedStays ==
    ASSUME Grows, NEW e, NamedBy(e, preds)
    PROVE  NamedBy(e, preds')
  BY DEF Grows, NamedBy

\* Every event a step holds it held before or makes from stored rows.
LEMMA ScorerMakes ==
    ASSUME KeyInv, TypeInv, Scorer \/ ScoreFails
    PROVE  \A e \in scorer'.outbox : e \in scorer.outbox \/ IsMade(e)
<1>1. DOMAIN scorer = ScorerFields /\ scorer.fresh \subseteq DOMAIN preds
  BY DEF KeyInv, Shapes, TypeInv, Tasks
<1>2. CASE ScoreStart \/ ScoreFails
  <2>1. \A at, todo : [NoScoring EXCEPT !.stage = "score", !.version = at, !.todo = todo].outbox = {}
    BY DEF NoScoring
  <2>2. NoScoring.outbox = {}
    BY DEF NoScoring
  <2>3. QED
    BY <1>2, <2>1, <2>2 DEF ScoreStart, ScoreFails
<1>3. CASE ScoreNext
  <2>1. PICK c : scorer' = [scorer EXCEPT !.todo = @ \ {c}, !.fresh = @ \union {Len(preds) + 1}]
    BY <1>3 DEF ScoreNext
  <2>2. QED
    BY <1>1, <2>1 DEF ScorerFields
<1>4. CASE RankFresh
  <2>1. PICK ids : /\ ids \subseteq scorer.fresh
                   /\ scorer' = [scorer EXCEPT !.stage = "publish",
                                  !.outbox = {ChurnEvent(i, Rank(i)) : i \in ids}]
    BY <1>4 DEF RankFresh, Answered
  <2>2. scorer'.outbox = {ChurnEvent(i, Rank(i)) : i \in ids} /\ ids \subseteq DOMAIN preds
    BY <1>1, <2>1 DEF ScorerFields
  <2>3. QED
    BY <2>2 DEF IsMade
<1>5. CASE PublishChurn
  <2>1. scorer' = NoScoring \/ \E e \in scorer.outbox : scorer' = [scorer EXCEPT !.outbox = @ \ {e}]
    BY <1>5 DEF PublishChurn
  <2>2. QED
    BY <1>1, <2>1 DEF ScorerFields, NoScoring
<1>6. QED
  BY <1>2, <1>3, <1>4, <1>5 DEF Scorer

LEMMA CasterMakes ==
    ASSUME KeyInv, Caster \/ CastFails
    PROVE  \A e \in caster'.outbox : e \in caster.outbox \/ IsMade(e)
<1>1. DOMAIN caster = CasterFields
  BY DEF KeyInv, Shapes
<1>2. CASE CastStart \/ CastFails
  <2>1. \A at, todo : [NoCasting EXCEPT !.on = TRUE, !.version = at, !.todo = todo].outbox = {}
    BY DEF NoCasting
  <2>2. NoCasting.outbox = {}
    BY DEF NoCasting
  <2>3. QED
    BY <1>2, <2>1, <2>2 DEF CastStart, CastFails
<1>3. CASE CastNext
  <2>1. PICK k : caster' = [caster EXCEPT !.todo = @ \ {k},
                                          !.outbox = {ForecastEvent(Row("forecast", k))}]
    BY <1>3 DEF CastNext
  <2>2. caster'.outbox = {ForecastEvent(Row("forecast", k))}
    BY <1>1, <2>1 DEF CasterFields
  <2>3. QED
    BY <2>2 DEF IsMade
<1>4. CASE CastPublish
  <2>1. caster' = NoCasting \/ \E e \in caster.outbox : caster' = [caster EXCEPT !.outbox = @ \ {e}]
    BY <1>4 DEF CastPublish
  <2>2. QED
    BY <1>1, <2>1 DEF CasterFields, NoCasting
<1>5. QED
  BY <1>2, <1>3, <1>4 DEF Caster

LEMMA PollerMakes ==
    ASSUME KeyInv, Poller
    PROVE  \A e \in poller'.events : e \in poller.events \/ IsMade(e)
<1>1. DOMAIN poller = PollerFields
  BY DEF KeyInv, Shapes
<1>2. CASE PollRead
  <2>1. poller'.events = DriftEvents(watermark + 1 .. Len(drift))
    BY <1>2 DEF PollRead
  <2>2. QED
    BY <2>1, DriftEventsMade
<1>3. CASE PollPublish
  <2>1. PICK e \in poller.events : poller' = [poller EXCEPT !.events = @ \ {e}]
    BY <1>3 DEF PollPublish
  <2>2. QED
    BY <1>1, <2>1 DEF PollerFields
<1>4. CASE PollWrite
  BY <1>4 DEF PollWrite, NoPoll
<1>5. QED
  BY <1>2, <1>3, <1>4 DEF Poller

LEMMA PassMakes ==
    ASSUME KeyInv, TypeInv, Reconcile \/ PassFails
    PROVE  \A e \in pass'.events : e \in pass.events \/ IsMade(e)
<1>1. DOMAIN pass = PassFields
  BY DEF KeyInv, Shapes
<1>2. CASE PassRead
  <2>1. PICK last : pass' = [NoPass EXCEPT !.stage = "rank", !.read = cursor, !.upto = last]
    BY <1>2 DEF PassRead
  <2>2. QED
    BY <2>1 DEF NoPass
<1>3. CASE PassRank
  <2>1. PICK ids : ids = Scanned(pass.read.preds, pass.upto)
    OBVIOUS
  <2>2. pass.stage = "rank" /\ pass' = [pass EXCEPT !.stage = "preds",
                                         !.events = {PredictionEvent(i, Rank(i)) : i \in ids}]
    BY <1>3, <2>1 DEF PassRank
  <2>3. pass'.events = {PredictionEvent(i, Rank(i)) : i \in ids}
    BY <1>1, <2>2 DEF PassFields
  <2>4. ids \subseteq DOMAIN preds
    <3>1. /\ pass.upto \in Nat /\ pass.upto <= Len(preds) /\ pass.read.preds \in Nat
          /\ Len(preds) \in Nat /\ DOMAIN preds = 1 .. Len(preds)
      BY <2>2 DEF TypeInv, Reads, Cursors, Stored
    <3>2. ids \subseteq pass.read.preds + 1 .. pass.upto
      BY <2>1 DEF Scanned
    <3>3. QED
      BY <3>1, <3>2
  <2>5. QED
    BY <2>3, <2>4, PredictionEventMade
<1>4. CASE PassHandle
  <2>1. PICK e \in pass.events :
            \/ pass' = [pass EXCEPT !.events = @ \ {e}]
            \/ pass' = [pass EXCEPT !.events = @ \ {e}, !.failed = TRUE]
    BY <1>4 DEF PassHandle
  <2>2. QED
    BY <1>1, <2>1 DEF PassFields
<1>5. CASE PassDrift
  <2>1. PICK ids, last, read : pass' = [stage |-> "drift", upto |-> last, failed |-> FALSE,
                                        events |-> DriftEvents(ids), read |-> read]
    BY <1>5 DEF PassDrift
  <2>2. pass'.events = DriftEvents(ids)
    BY <2>1
  <2>3. QED
    BY <2>2, DriftEventsMade
<1>6. CASE PassWrite \/ PassFails
  BY <1>6 DEF PassWrite, PassFails, NoPass
<1>7. QED
  BY <1>2, <1>3, <1>4, <1>5, <1>6 DEF Reconcile

LEMMA FlightsMade ==
    ASSUME KeyInv, TypeInv, [Next]_vars
    PROVE  \A e \in InFlight' : e \in InFlight \/ IsMade(e)
<1>1. CASE Scorer \/ ScoreFails
  <2>1. UNCHANGED <<caster, poller, pass>>
    BY <1>1 DEF Scorer, ScoreStart, ScoreNext, RankFresh, PublishChurn, ScoreFails
  <2>2. QED
    BY <1>1, <2>1, ScorerMakes DEF InFlight
<1>2. CASE Caster \/ CastFails
  <2>1. UNCHANGED <<scorer, poller, pass>>
    BY <1>2 DEF Caster, CastStart, CastNext, CastPublish, CastFails
  <2>2. QED
    BY <1>2, <2>1, CasterMakes DEF InFlight
<1>3. CASE Poller
  <2>1. UNCHANGED <<scorer, caster, pass>>
    BY <1>3 DEF Poller, PollRead, PollPublish, PollWrite
  <2>2. QED
    BY <1>3, <2>1, PollerMakes DEF InFlight
<1>4. CASE Reconcile \/ PassFails
  <2>1. UNCHANGED <<scorer, caster, poller>>
    BY <1>4 DEF Reconcile, PassRead, PassRank, PassHandle, PassDrift, PassWrite, PassFails
  <2>2. QED
    BY <1>4, <2>1, PassMakes DEF InFlight
<1>5. CASE Crash
  BY <1>5 DEF Crash, InFlight, NoScoring, NoCasting, NoPoll, NoPass
<1>6. CASE Promote \/ Reload \/ DriftCheck \/ EngineHandle \/ Settle \/ UNCHANGED vars
  BY <1>6 DEF Promote, Reload, DriftCheck, EngineHandle, Settle, vars, InFlight
<1>7. QED
  BY <1>1, <1>2, <1>3, <1>4, <1>5, <1>6 DEF Next

\* What goes to the bus or to the queue was in flight or on the bus.
LEMMA BusNamedKept ==
    ASSUME BusNamed, Grows,
           \/ UNCHANGED bus \/ bus' = <<>> \/ (bus # <<>> /\ bus' = Tail(bus))
           \/ \E e : NamedBy(e, preds') /\ Published(e)
    PROVE  BusNamed'
<1>1. PICK S : bus \in Seq(S) /\ \A e \in S : NamedBy(e, preds)
  BY DEF BusNamed
<1>2. \A e \in S : NamedBy(e, preds')
  BY <1>1, NamedStays
<1>3. CASE UNCHANGED bus \/ bus' = <<>> \/ (bus # <<>> /\ bus' = Tail(bus))
  <2>1. bus' \in Seq(S)
    <3>1. <<>> \in Seq(S) /\ (bus # <<>> => Tail(bus) \in Seq(S))
      BY <1>1
    <3>2. QED
      BY <1>1, <1>3, <3>1
  <2>2. QED
    BY <1>2, <2>1 DEF BusNamed
<1>4. CASE \E e : NamedBy(e, preds') /\ Published(e)
  <2>1. PICK e : NamedBy(e, preds') /\ Published(e)
    BY <1>4
  <2>2. bus' \in Seq(S \union {e})
    BY <1>1, <2>1, SentIsSeq DEF Published
  <2>3. \A f \in S \union {e} : NamedBy(f, preds')
    BY <1>2, <2>1
  <2>4. QED
    BY <2>2, <2>3 DEF BusNamed
<1>5. QED
  BY <1>3, <1>4

LEMMA QueueNamedKept ==
    ASSUME QueueNamed, KeyInv, Grows,
           UNCHANGED queue \/ Settle \/ \E e : NamedBy(e, preds) /\ queue' = Handled(e)
    PROVE  QueueNamed'
<1>1. ASSUME NEW q \in queue'
      PROVE  NamedBy(q.event, preds)
  <2>1. CASE UNCHANGED queue
    BY <2>1 DEF QueueNamed
  <2>2. CASE Settle
    <3>1. PICK p \in queue : queue' = (queue \ {p}) \union {[p EXCEPT !.open = FALSE]}
      BY <2>2 DEF Settle
    <3>2. [p EXCEPT !.open = FALSE].event = p.event
      BY DEF KeyInv, QueueKeyed
    <3>3. q \in queue \/ q.event = p.event
      BY <3>1, <3>2
    <3>4. QED
      BY <3>3 DEF QueueNamed
  <2>3. CASE \E e : NamedBy(e, preds) /\ queue' = Handled(e)
    <3>1. PICK e : NamedBy(e, preds) /\ queue' = Handled(e)
      BY <2>3
    <3>2. q \in queue \/ q.event = e
      BY <3>1 DEF Handled
    <3>3. QED
      BY <3>1, <3>2 DEF QueueNamed
  <2>4. QED
    BY <2>1, <2>2, <2>3
<1>2. QED
  BY <1>1, NamedStays DEF QueueNamed

LEMMA NameNext ==
    ASSUME KeyInv, TypeInv, NameInv, [Next]_vars
    PROVE  NameInv'
<1>1. Grows
  BY StepGrows
<1>2. FlightNamed'
  <2>1. \A e \in InFlight' : NamedBy(e, preds')
    BY <1>1, FlightsMade, MadeNamed, NamedStays DEF NameInv, FlightNamed
  <2>2. QED
    BY <2>1 DEF FlightNamed
<1>3. BusNamed'
  <2>1. ASSUME NEW e \in InFlight
        PROVE  NamedBy(e, preds')
    BY <1>1, NamedStays DEF NameInv, FlightNamed
  <2>2. \/ UNCHANGED bus \/ bus' = <<>> \/ (bus # <<>> /\ bus' = Tail(bus))
        \/ \E e \in InFlight : Published(e)
    BY DEF Next, Promote, Reload, Scorer, ScoreStart, ScoreNext, RankFresh, PublishChurn, ScoreFails,
       Caster, CastStart, CastNext, CastPublish, CastFails, DriftCheck, Poller, PollRead,
       PollPublish, PollWrite, EngineHandle, Settle, Reconcile, PassRead, PassRank, PassHandle,
       PassDrift, PassWrite, PassFails, Crash, vars, InFlight, Published
  <2>3. QED
    BY <1>1, <2>1, <2>2, BusNamedKept DEF NameInv
<1>4. QueueNamed'
  <2>1. ASSUME bus # <<>>
        PROVE  NamedBy(Head(bus), preds)
    <3>1. PICK S : bus \in Seq(S) /\ \A e \in S : NamedBy(e, preds)
      BY DEF NameInv, BusNamed
    <3>2. Head(bus) \in S
      BY <2>1, <3>1
    <3>3. QED
      BY <3>1, <3>2
  <2>2. \/ UNCHANGED queue \/ Settle
        \/ \E e \in InFlight : queue' = Handled(e)
        \/ bus # <<>> /\ queue' = Handled(Head(bus))
    BY DEF Next, Promote, Reload, Scorer, ScoreStart, ScoreNext, RankFresh, PublishChurn, ScoreFails,
       Caster, CastStart, CastNext, CastPublish, CastFails, DriftCheck, Poller, PollRead,
       PollPublish, PollWrite, EngineHandle, Reconcile, PassRead, PassRank, PassHandle,
       PassDrift, PassWrite, PassFails, Crash, vars, InFlight
  <2>3. UNCHANGED queue \/ Settle \/ \E e : NamedBy(e, preds) /\ queue' = Handled(e)
    BY <2>1, <2>2 DEF NameInv, FlightNamed
  <2>4. QED
    BY <1>1, <2>3, QueueNamedKept DEF NameInv
<1>5. QED
  BY <1>2, <1>3, <1>4 DEF NameInv

LEMMA NameInit == Init => NameInv
<1> SUFFICES ASSUME Init PROVE NameInv
  OBVIOUS
<1>1. /\ scorer = NoScoring /\ caster = NoCasting /\ poller = NoPoll /\ pass = NoPass
      /\ bus = <<>> /\ queue = {}
  BY DEF Init
<1>2. FlightNamed
  BY <1>1 DEF FlightNamed, InFlight, NoScoring, NoCasting, NoPoll, NoPass
<1>3. BusNamed
  <2>1. <<>> \in Seq({})
    OBVIOUS
  <2>2. QED
    BY <1>1, <2>1 DEF BusNamed
<1>4. QED
  BY <1>1, <1>2, <1>3 DEF NameInv, QueueNamed

----------------------------------------------------------------------------
\* Rows are fed by the workers of enabled rules.

LEMMA FedInit == Init => FedInv
<1> SUFFICES ASSUME Init PROVE FedInv
  OBVIOUS
<1>1. scorer = NoScoring /\ caster = NoCasting /\ preds = <<>>
  BY DEF Init
<1>2. scorer.stage = "off" /\ caster.on = FALSE /\ DOMAIN preds = {}
  BY <1>1 DEF NoScoring, NoCasting
<1>3. QED
  BY <1>2 DEF FedInv

\* A worker stores rows of its model, while its rule is enabled.
LEMMA FedRows ==
    ASSUME TypeInv, FedInv, UNCHANGED scene,
           \/ UNCHANGED preds
           \/ \E m \in armed : \E x : preds' = Append(preds, Row(m, x))
    PROVE  \A i \in DOMAIN preds' : \E a \in scene'.armings : preds'[i].model \in a
<1>1. CASE UNCHANGED preds
  BY <1>1 DEF FedInv
<1>2. CASE \E m \in armed : \E x : preds' = Append(preds, Row(m, x))
  <2>1. PICK m \in armed : \E x : preds' = Append(preds, Row(m, x))
    BY <1>2
  <2>2. PICK x, row : preds' = Append(preds, row) /\ row = Row(m, x)
    BY <2>1
  <2>3. row.model = m
    BY <2>2 DEF Row
  <2>4. preds \in Seq(PredRows) /\ armed \in scene.armings
    BY DEF TypeInv, Stored
  <2>5. /\ DOMAIN preds' = DOMAIN preds \union {Len(preds) + 1}
        /\ \A i \in DOMAIN preds : preds'[i] = preds[i]
        /\ preds'[Len(preds) + 1] = row
    BY <2>2, <2>4
  <2>6. ASSUME NEW i \in DOMAIN preds'
        PROVE  \E a \in scene.armings : preds'[i].model \in a
    BY <2>3, <2>4, <2>5 DEF FedInv
  <2>7. QED
    BY <2>6
<1>3. QED
  BY <1>1, <1>2

LEMMA FedNext ==
    ASSUME KeyInv, TypeInv, FedInv, [Next]_vars
    PROVE  FedInv'
<1>1. DOMAIN scorer = ScorerFields /\ DOMAIN caster = CasterFields
  BY DEF KeyInv, Shapes
<1>2. UNCHANGED scene
  BY DEF Next, Promote, Reload, Scorer, ScoreStart, ScoreNext, RankFresh, PublishChurn, ScoreFails,
     Caster, CastStart, CastNext, CastPublish, CastFails, DriftCheck, Poller, PollRead,
     PollPublish, PollWrite, EngineHandle, Settle, Reconcile, PassRead, PassRank, PassHandle,
     PassDrift, PassWrite, PassFails, Crash, vars
<1>3. CASE Scorer \/ ScoreFails
  <2>1. UNCHANGED <<caster, armed>>
    BY <1>3 DEF Scorer, ScoreStart, ScoreNext, RankFresh, PublishChurn, ScoreFails
  <2>2. UNCHANGED preds \/ \E m \in armed : \E x : preds' = Append(preds, Row(m, x))
    BY <1>3 DEF Scorer, ScoreStart, ScoreNext, RankFresh, PublishChurn, ScoreFails, FedInv
  <2>3. scorer'.stage = "score" => "churn" \in armed
    <3>1. CASE ScoreStart
      BY <3>1 DEF ScoreStart
    <3>2. CASE ScoreNext
      BY <3>2 DEF ScoreNext, FedInv
    <3>3. CASE ScoreFails
      BY <3>3 DEF ScoreFails, NoScoring
    <3>4. CASE RankFresh
      <4>1. PICK out : scorer' = [scorer EXCEPT !.stage = "publish", !.outbox = out]
        BY <3>4 DEF RankFresh
      <4>2. scorer'.stage = "publish"
        BY <1>1, <4>1 DEF ScorerFields
      <4>3. QED
        BY <4>2
    <3>5. CASE PublishChurn
      <4>1. scorer.stage = "publish" /\ (scorer' = NoScoring \/ \E out : scorer' = [scorer EXCEPT !.outbox = out])
        BY <3>5 DEF PublishChurn
      <4>2. scorer'.stage # "score"
        BY <1>1, <4>1 DEF ScorerFields, NoScoring
      <4>3. QED
        BY <4>2
    <3>6. QED
      BY <1>3, <3>1, <3>2, <3>3, <3>4, <3>5 DEF Scorer
  <2>4. QED
    BY <1>2, <2>1, <2>2, <2>3, FedRows DEF FedInv
<1>4. CASE Caster \/ CastFails
  <2>1. UNCHANGED <<scorer, armed>>
    BY <1>4 DEF Caster, CastStart, CastNext, CastPublish, CastFails
  <2>2. UNCHANGED preds \/ \E m \in armed : \E x : preds' = Append(preds, Row(m, x))
    BY <1>4 DEF Caster, CastStart, CastNext, CastPublish, CastFails, FedInv
  <2>3. caster'.on => "forecast" \in armed
    <3>1. CASE CastStart
      BY <3>1 DEF CastStart
    <3>2. CASE CastNext
      BY <3>2 DEF CastNext, FedInv
    <3>3. CASE CastFails
      BY <3>3 DEF CastFails, NoCasting
    <3>4. CASE CastPublish
      BY <3>4 DEF CastPublish, FedInv
    <3>5. QED
      BY <1>4, <3>1, <3>2, <3>3, <3>4 DEF Caster
  <2>4. QED
    BY <1>2, <2>1, <2>2, <2>3, FedRows DEF FedInv
<1>5. CASE Crash
  <2>1. scorer'.stage = "off" /\ caster'.on = FALSE /\ UNCHANGED preds
    BY <1>5 DEF Crash, NoScoring, NoCasting
  <2>2. QED
    BY <1>2, <2>1, FedRows DEF FedInv
<1>6. CASE \/ Promote \/ Reload \/ DriftCheck \/ Poller \/ EngineHandle \/ Settle \/ Reconcile \/ PassFails
           \/ UNCHANGED vars
  <2>1. UNCHANGED <<scene, armed, preds, scorer, caster>>
    BY <1>6 DEF Promote, Reload, DriftCheck, Poller, PollRead, PollPublish, PollWrite, EngineHandle, Settle,
       Reconcile, PassRead, PassRank, PassHandle, PassDrift, PassWrite, PassFails, vars
  <2>2. QED
    BY <2>1 DEF FedInv
<1>7. QED
  BY <1>3, <1>4, <1>5, <1>6 DEF Next

----------------------------------------------------------------------------
\* What is due was due before, and what is proposed stays so.

LEMMA RankGrows ==
    ASSUME preds \in Seq(PredRows), preds' \in Seq(PredRows), Grows, NEW i \in DOMAIN preds
    PROVE  /\ Rank(i) \in Nat /\ Rank(i)' \in Nat
           /\ 1 <= Rank(i) /\ Rank(i) <= Rank(i)'
<1> DEFINE S == {j \in DOMAIN preds : Outranks(j, i)}
           T == {j \in DOMAIN preds' : Outranks(j, i)'}
<1>1. \A j \in DOMAIN preds : Outranks(j, i) = Outranks(j, i)'
  BY DEF Outranks, Grows
<1>2. S \subseteq T
  BY <1>1 DEF Grows
<1>3. IsFiniteSet(T)
  <2>1. Len(preds') \in Nat /\ T \subseteq 1 .. Len(preds')
    OBVIOUS
  <2>2. QED
    BY <2>1, FS_Interval, FS_Subset
<1>4. IsFiniteSet(S) /\ Cardinality(S) <= Cardinality(T)
  BY <1>2, <1>3, FS_Subset
<1>5. Cardinality(S) \in Nat /\ Cardinality(T) \in Nat
  BY <1>3, <1>4, FS_CardinalityType
<1>6. Rank(i) = 1 + Cardinality(S) /\ Rank(i)' = 1 + Cardinality(T)
  BY DEF Rank
<1>7. QED
  BY <1>4, <1>5, <1>6

LEMMA DueBefore ==
    ASSUME preds \in Seq(PredRows), preds' \in Seq(PredRows), Grows, NEW i \in DOMAIN preds, Due(i)'
    PROVE  Due(i)
<1>1. preds'[i] = preds[i]
  BY DEF Grows
<1>2. CASE preds[i].model # "churn"
  BY <1>1, <1>2 DEF Due, PredictionEvent
<1>3. CASE preds[i].model = "churn"
  <2>1. PICK p : p = (Risk[preds[i].version][preds[i].entity] >= Bar)
    OBVIOUS
  <2>2. (Risk[preds'[i].version][preds'[i].entity] >= Bar) = p
    BY <1>1, <2>1
  <2>3. /\ Due(i) = (Rank(i) \in 1 .. TopN /\ p)
        /\ Due(i)' = (Rank(i)' \in 1 .. TopN /\ p)
    BY <1>1, <1>3, <2>1, <2>2 DEF Due, PredictionEvent, ChurnEvent
  <2>4. Rank(i) \in Nat /\ Rank(i)' \in Nat /\ 1 <= Rank(i) /\ Rank(i) <= Rank(i)'
    BY RankGrows
  <2>5. TopN \in Nat
    BY FeedAssumption
  <2>6. Rank(i)' \in 1 .. TopN /\ p
    BY <2>3
  <2>7. Rank(i) \in 1 .. TopN
    BY <2>4, <2>5, <2>6
  <2>8. QED
    BY <2>3, <2>6, <2>7
<1>4. QED
  BY <1>2, <1>3

LEMMA ProposedStays ==
    ASSUME Grows, NEW kind, NEW entity, IsProposed(kind, entity)
    PROVE  IsProposed(kind, entity)'
  BY DEF Grows, IsProposed

----------------------------------------------------------------------------
\* The cursors.

\* Handling an event of an enabled rule that fires leaves its subject proposed:
\* whatever keeps a proposal from being made is a proposal of the same subject.
LEMMA HandledProposes ==
    ASSUME KeyInv, NameInv, NEW e, NamedBy(e, preds), e.fires,
           e.kind \in armed, e.kind \in {"churn", "forecast", "drift"},
           queue' = Handled(e)
    PROVE  IsProposed(e.kind, e.entity)'
<1>1. CASE Proposes(e)
  <2>1. PICK p : p = [kind |-> e.kind, event |-> e, open |-> TRUE]
    OBVIOUS
  <2>2. p.kind = e.kind /\ p.event = e
    BY <2>1
  <2>3. p \in queue'
    BY <1>1, <2>1 DEF Handled
  <2>4. QED
    BY <2>2, <2>3 DEF IsProposed
<1>2. CASE ~Proposes(e)
  <2>1. PICK p \in queue : /\ p.kind = e.kind
                           /\ p.event.key = e.key \/ p.event.entity = e.entity
    BY <1>2 DEF Proposes
  <2>2. p.event.kind = e.kind /\ NamedBy(p.event, preds)
    BY <2>1 DEF KeyInv, QueueKeyed, NameInv, QueueNamed
  <2>3. p.event.entity = e.entity
    BY <2>1, <2>2 DEF NamedBy
  <2>4. queue' = queue
    BY <1>2 DEF Handled
  <2>5. QED
    BY <2>1, <2>3, <2>4 DEF IsProposed
<1>3. QED
  BY <1>1, <1>2

\* What has been called for stays called for, and no row becomes due by others.
LEMMA ThroughStays ==
    ASSUME KeyInv, TypeInv, [Next]_vars
    PROVE  /\ \A n \in Nat : n <= Len(preds) /\ PredsThrough(n) =>
                 \A i \in 1 .. n : Due(i)' => IsProposed(preds[i].model, preds[i].entity)'
           /\ \A n \in Nat : n <= Len(drift) /\ DriftThrough(n) =>
                 \A i \in 1 .. n : drift'[i].status = "critical" => IsProposed("drift", drift[i].model)'
<1>1. /\ preds \in Seq(PredRows) /\ preds' \in Seq(PredRows) /\ Grows
      /\ Len(preds) \in Nat /\ Len(drift) \in Nat
      /\ DOMAIN preds = 1 .. Len(preds) /\ DOMAIN drift = 1 .. Len(drift)
  BY TypeNext, StepGrows DEF TypeInv, Stored
<1>2. ASSUME NEW n \in Nat, n <= Len(preds), PredsThrough(n), NEW i \in 1 .. n, Due(i)'
      PROVE  IsProposed(preds[i].model, preds[i].entity)'
  <2>1. i \in DOMAIN preds /\ preds'[i] = preds[i]
    BY <1>1, <1>2 DEF Grows
  <2>2. Due(i)
    BY <1>1, <1>2, <2>1, DueBefore
  <2>3. PICK m, x : m = preds[i].model /\ x = preds[i].entity
    OBVIOUS
  <2>4. IsProposed(m, x)
    BY <1>2, <2>2, <2>3 DEF PredsThrough
  <2>5. IsProposed(m, x)'
    BY <1>1, <2>4, ProposedStays
  <2>6. QED
    BY <2>1, <2>3, <2>5 DEF IsProposed
<1>3. ASSUME NEW n \in Nat, n <= Len(drift), DriftThrough(n), NEW i \in 1 .. n,
             drift'[i].status = "critical"
      PROVE  IsProposed("drift", drift[i].model)'
  <2>1. i \in DOMAIN drift /\ drift'[i] = drift[i]
    BY <1>1, <1>3 DEF Grows
  <2>2. PICK x : x = drift[i].model
    OBVIOUS
  <2>3. IsProposed("drift", x)
    BY <1>3, <2>1, <2>2 DEF DriftThrough
  <2>4. IsProposed("drift", x)'
    BY <1>1, <2>3, ProposedStays
  <2>5. QED
    BY <2>1, <2>2, <2>4 DEF IsProposed
<1>4. QED
  BY <1>2, <1>3

\* The cursors of the last pass still cover their rows.
LEMMA CursorStays ==
    ASSUME KeyInv, TypeInv, CoverInv, [Next]_vars, UNCHANGED cursor
    PROVE  PredsThrough(cursor.preds)' /\ DriftThrough(cursor.drift)'
<1>1. PICK m, n : m = cursor.preds /\ n = cursor.drift
  OBVIOUS
<1>2. /\ m \in Nat /\ m <= Len(preds) /\ n \in Nat /\ n <= Len(drift)
      /\ cursor'.preds = m /\ cursor'.drift = n
  BY <1>1 DEF TypeInv, Reads, Cursors
<1>3. PredsThrough(m) /\ DriftThrough(n)
  BY <1>1 DEF CoverInv
<1>4. QED
  BY <1>2, <1>3, ThroughStays DEF PredsThrough, DriftThrough

\* A step that leaves the pass alone.
LEMMA CoverKept ==
    ASSUME KeyInv, TypeInv, CoverInv, [Next]_vars, UNCHANGED <<armed, cursor, pass>>
    PROVE  CoverInv'
<1>1. /\ Grows /\ preds \in Seq(PredRows) /\ preds' \in Seq(PredRows)
      /\ DOMAIN preds = 1 .. Len(preds) /\ DOMAIN drift = 1 .. Len(drift)
      /\ Len(preds) \in Nat /\ Len(drift) \in Nat
      /\ cursor.preds \in Nat /\ cursor.drift \in Nat /\ pass.upto \in Nat
      /\ pass.read.preds \in Nat /\ pass.read.preds <= Len(preds)
      /\ pass.stage = "preds" => pass.upto <= Len(preds)
      /\ pass.stage = "drift" => pass.upto <= Len(drift)
  <2>1. preds' \in Seq(PredRows) /\ Grows
    BY TypeNext, StepGrows DEF TypeInv, Stored
  <2>2. /\ preds \in Seq(PredRows) /\ drift \in Seq(Findings)
        /\ cursor \in Cursors /\ pass.read \in Cursors /\ pass.upto \in Nat
        /\ pass.read.preds <= Len(preds)
        /\ pass.stage = "preds" => pass.upto <= Len(preds)
        /\ pass.stage = "drift" => pass.upto <= Len(drift)
    BY DEF TypeInv, Stored, Reads
  <2>3. QED
    BY <2>1, <2>2 DEF Cursors
<1>2. ASSUME NEW kind, NEW entity, Pending(kind, entity)
      PROVE  Pending(kind, entity)'
  BY <1>1, <1>2, ProposedStays DEF Pending
<1>3. ScanCovers'
  <2>1. ASSUME pass.stage = "preds", ~pass.failed,
               NEW i \in Scanned(cursor.preds, pass.upto)', Due(i)'
        PROVE  Pending(preds[i].model, preds[i].entity)'
    <3>1. i \in cursor.preds + 1 .. pass.upto /\ preds'[i].model \in armed
      BY <2>1 DEF Scanned
    <3>2. i \in DOMAIN preds /\ preds'[i] = preds[i]
      BY <1>1, <2>1, <3>1 DEF Grows
    <3>3. Due(i) /\ i \in Scanned(cursor.preds, pass.upto)
      BY <1>1, <2>1, <3>1, <3>2, DueBefore DEF Scanned
    <3>4. PICK m, x : m = preds[i].model /\ x = preds[i].entity
      OBVIOUS
    <3>5. Pending(m, x)'
      BY <1>2, <2>1, <3>3, <3>4 DEF CoverInv, ScanCovers
    <3>6. QED
      BY <3>2, <3>4, <3>5 DEF Pending, IsProposed
  <2>2. QED
    BY <2>1 DEF CoverInv, ScanCovers
<1>4. DriftCovers'
  <2>1. ASSUME pass.stage = "drift"
        PROVE  PredsThrough(pass.read.preds)'
    <3>1. PICK n : n = pass.read.preds
      OBVIOUS
    <3>2. n \in Nat /\ n <= Len(preds) /\ PredsThrough(n)
      BY <1>1, <2>1, <3>1 DEF CoverInv, DriftCovers
    <3>3. pass'.read.preds = n
      BY <3>1
    <3>4. QED
      BY <3>2, <3>3, ThroughStays DEF PredsThrough
  <2>2. ASSUME pass.stage = "drift", ~pass.failed,
               NEW i \in cursor.drift + 1 .. pass.upto, drift'[i].status = "critical"
        PROVE  Pending("drift", drift[i].model)'
    <3>1. i \in DOMAIN drift /\ drift'[i] = drift[i]
      BY <1>1, <2>2 DEF Grows
    <3>2. PICK x : x = drift[i].model
      OBVIOUS
    <3>3. Pending("drift", x)'
      BY <1>2, <2>2, <3>1, <3>2 DEF CoverInv, DriftCovers
    <3>4. QED
      BY <3>1, <3>2, <3>3 DEF Pending, IsProposed
  <2>3. QED
    BY <2>1, <2>2 DEF CoverInv, DriftCovers
<1>5. QED
  BY <1>3, <1>4, CursorStays DEF CoverInv, PassArmed

\* The pass is over or was cut short.
LEMMA CoverNoPass ==
    ASSUME PredsThrough(cursor.preds)', DriftThrough(cursor.drift)', pass' = NoPass
    PROVE  CoverInv'
<1>1. pass'.stage = "off" /\ pass'.events = {}
  BY NoPassFacts
<1>2. QED
  BY <1>1 DEF CoverInv, ScanCovers, DriftCovers, PassArmed

LEMMA CoverRead ==
    ASSUME KeyInv, TypeInv, CoverInv, PassRead
    PROVE  CoverInv'
<1>1. UNCHANGED <<armed, preds, drift, queue, cursor>> /\ [Next]_vars
  BY DEF PassRead, Next, Reconcile
<1>2. PICK from, ids : from = cursor.preds /\ ids = Scanned(from, Len(preds))
  OBVIOUS
<1>3. PICK last : last = UpTo(from, ids, PredictionBatch)
  OBVIOUS
<1>4. pass' = [NoPass EXCEPT !.stage = "rank", !.read = cursor, !.upto = last]
  BY <1>2, <1>3 DEF PassRead
<1>5. /\ pass'.stage = "rank" /\ pass'.read = cursor /\ pass'.upto = last
      /\ pass'.events = {} /\ pass'.failed = FALSE
  BY <1>4 DEF NoPass
<1>6. ASSUME last > from
      PROVE  armed \cap Models # {}
  <2>1. from \in Nat /\ from <= Len(preds) /\ Len(preds) \in Nat /\ preds \in Seq(PredRows)
    BY <1>2 DEF TypeInv, Stored, Reads, Cursors
  <2>2. ids \subseteq from + 1 .. Len(preds)
    BY <1>2 DEF Scanned
  <2>3. last \in {from} \union ids
    BY <1>3, <2>1, <2>2, UpToBounds
  <2>4. last \in ids
    BY <1>6, <2>1, <2>3
  <2>5. preds[last].model \in armed
    BY <1>2, <2>4 DEF Scanned
  <2>6. last \in DOMAIN preds
    BY <2>1, <2>2, <2>4
  <2>7. preds[last] \in PredRows
    BY <2>1, <2>6
  <2>8. QED
    BY <2>5, <2>7 DEF PredRows
<1>7. ScanCovers' /\ DriftCovers' /\ PassArmed'
  BY <1>1, <1>2, <1>5, <1>6 DEF ScanCovers, DriftCovers, PassArmed
<1>8. QED
  BY <1>1, <1>7, CursorStays DEF CoverInv

\* The ranks are those of the moment, and a row that is not due now never will be.
LEMMA CoverRank ==
    ASSUME KeyInv, TypeInv, CoverInv, PassRank
    PROVE  CoverInv'
<1>1. UNCHANGED <<armed, preds, drift, queue, cursor>> /\ [Next]_vars
  BY DEF PassRank, Next, Reconcile
<1>2. DOMAIN pass = PassFields /\ pass.stage = "rank"
  BY DEF KeyInv, Shapes, PassRank
<1>3. PICK ids : ids = Scanned(pass.read.preds, pass.upto)
  OBVIOUS
<1>4. pass' = [pass EXCEPT !.stage = "preds", !.events = {PredictionEvent(i, Rank(i)) : i \in ids}]
  BY <1>3 DEF PassRank
<1>5. /\ pass'.stage = "preds" /\ pass'.read = pass.read /\ pass'.upto = pass.upto
      /\ pass'.failed = pass.failed /\ pass'.events = {PredictionEvent(i, Rank(i)) : i \in ids}
  BY <1>2, <1>4 DEF PassFields
<1>6. pass.read = cursor /\ (pass.upto > cursor.preds => armed \cap Models # {})
  BY <1>2 DEF CoverInv, ScanCovers
<1>7. \A i \in ids : preds[i].model \in armed /\ preds[i].model \in Models
  <2>1. /\ pass.upto \in Nat /\ pass.upto <= Len(preds) /\ pass.read \in Cursors
        /\ preds \in Seq(PredRows)
    BY <1>2 DEF TypeInv, Stored, Reads
  <2>2. ids \subseteq pass.read.preds + 1 .. pass.upto /\ \A i \in ids : preds[i].model \in armed
    BY <1>3 DEF Scanned
  <2>3. ids \subseteq DOMAIN preds
    BY <2>1, <2>2 DEF Cursors
  <2>4. \A i \in ids : preds[i] \in PredRows
    BY <2>1, <2>3
  <2>5. QED
    BY <2>2, <2>4 DEF PredRows
<1>8. \A i \in ids : /\ PredictionEvent(i, Rank(i)).kind = preds[i].model
                     /\ PredictionEvent(i, Rank(i)).entity = preds[i].entity
  BY <1>7 DEF PredictionEvent, ChurnEvent, ForecastEvent, Models
<1>9. ScanCovers'
  <2>1. ASSUME NEW i \in Scanned(cursor.preds, pass.upto)', Due(i)'
        PROVE  Pending(preds[i].model, preds[i].entity)'
    <3>1. i \in ids
      BY <1>1, <1>3, <1>5, <1>6, <2>1 DEF Scanned
    <3>2. Due(i)
      BY <1>1, <2>1 DEF Due, PredictionEvent, ChurnEvent, ForecastEvent, Rank, Outranks
    <3>3. PICK e : e = PredictionEvent(i, Rank(i))
      OBVIOUS
    <3>4. e \in pass'.events /\ e.fires /\ e.kind = preds[i].model /\ e.entity = preds[i].entity
      BY <1>5, <1>8, <3>1, <3>2, <3>3 DEF Due
    <3>5. QED
      BY <1>1, <3>4 DEF Pending
  <2>2. QED
    BY <1>1, <1>5, <1>6, <2>1 DEF ScanCovers
<1>10. PassArmed'
  BY <1>1, <1>5, <1>7, <1>8 DEF PassArmed
<1>11. DriftCovers'
  BY <1>5 DEF DriftCovers
<1>12. QED
  BY <1>1, <1>9, <1>10, <1>11, CursorStays DEF CoverInv

LEMMA CoverHandle ==
    ASSUME KeyInv, TypeInv, NameInv, CoverInv, PassHandle
    PROVE  CoverInv'
<1>1. /\ UNCHANGED <<scene, armed, preds, drift, cursor>> /\ [Next]_vars
      /\ pass.stage \in {"preds", "drift"}
  BY DEF PassHandle, Next, Reconcile
<1>2. DOMAIN pass = PassFields
  BY DEF KeyInv, Shapes
<1>3. PICK e \in pass.events :
          \/ queue' = Handled(e) /\ pass' = [pass EXCEPT !.events = @ \ {e}]
          \/ queue' = queue /\ pass' = [pass EXCEPT !.events = @ \ {e}, !.failed = TRUE]
  BY DEF PassHandle
<1>4. /\ pass'.stage = pass.stage /\ pass'.read = pass.read /\ pass'.upto = pass.upto
      /\ pass'.events = pass.events \ {e}
      /\ pass'.failed = TRUE \/ (pass'.failed = pass.failed /\ queue' = Handled(e))
  BY <1>2, <1>3 DEF PassFields
<1>5. Grows
  BY <1>1, StepGrows
<1>6. NamedBy(e, preds) /\ e.kind \in armed /\ e.kind \in {"churn", "forecast", "drift"}
  <2>1. NamedBy(e, preds) /\ e.kind \in armed
    BY DEF NameInv, FlightNamed, InFlight, CoverInv, PassArmed
  <2>2. armed \subseteq {"churn", "forecast", "drift"}
    BY SceneFacts DEF TypeInv, Stored
  <2>3. QED
    BY <2>1, <2>2
<1>7. ASSUME ~pass'.failed, NEW kind, NEW entity, Pending(kind, entity)
      PROVE  Pending(kind, entity)'
  <2>1. queue' = Handled(e)
    BY <1>4, <1>7
  <2>2. CASE IsProposed(kind, entity)
    BY <1>5, <2>2, ProposedStays DEF Pending
  <2>3. CASE \E f \in pass.events : f.fires /\ f.kind = kind /\ f.entity = entity
    <3>1. PICK f \in pass.events : f.fires /\ f.kind = kind /\ f.entity = entity
      BY <2>3
    <3>2. CASE f = e
      <4>1. IsProposed(e.kind, e.entity)'
        BY <1>6, <2>1, <3>1, <3>2, HandledProposes
      <4>2. IsProposed(kind, entity)'
        BY <3>1, <3>2, <4>1 DEF IsProposed
      <4>3. QED
        BY <4>2 DEF Pending
    <3>3. CASE f # e
      BY <1>4, <3>1, <3>3 DEF Pending
    <3>4. QED
      BY <3>2, <3>3
  <2>4. QED
    BY <1>7, <2>2, <2>3 DEF Pending
<1>8. \A i : Due(i)' => Due(i)
  BY <1>1 DEF Due, PredictionEvent, ChurnEvent, ForecastEvent, Rank, Outranks
<1>9. ~pass'.failed => ~pass.failed
  BY <1>4
<1>10. ScanCovers'
  <2>1. ASSUME pass.stage = "preds", ~pass'.failed,
               NEW i \in Scanned(cursor.preds, pass.upto)', Due(i)'
        PROVE  Pending(preds[i].model, preds[i].entity)'
    <3>1. i \in Scanned(cursor.preds, pass.upto)
      BY <1>1, <1>4 DEF Scanned
    <3>2. PICK m, x : m = preds[i].model /\ x = preds[i].entity
      OBVIOUS
    <3>3. Pending(m, x)
      BY <1>8, <1>9, <2>1, <3>1, <3>2 DEF CoverInv, ScanCovers
    <3>4. Pending(m, x)'
      BY <1>7, <2>1, <3>3
    <3>5. QED
      BY <1>1, <3>2, <3>4 DEF Pending, IsProposed
  <2>2. QED
    BY <1>1, <1>4, <2>1 DEF CoverInv, ScanCovers
<1>11. DriftCovers'
  <2>1. ASSUME pass.stage = "drift"
        PROVE  PredsThrough(pass.read.preds)'
    <3>1. PICK n : n = pass.read.preds
      OBVIOUS
    <3>2. n \in Nat /\ n <= Len(preds) /\ PredsThrough(n)
      BY <2>1, <3>1 DEF CoverInv, DriftCovers, TypeInv, Reads, Cursors
    <3>3. pass'.read.preds = n
      BY <1>4, <3>1
    <3>4. QED
      BY <1>1, <3>2, <3>3, ThroughStays DEF PredsThrough
  <2>2. ASSUME pass.stage = "drift", ~pass'.failed,
               NEW i \in cursor.drift + 1 .. pass.upto, drift[i].status = "critical"
        PROVE  Pending("drift", drift[i].model)'
    <3>1. PICK x : x = drift[i].model
      OBVIOUS
    <3>2. Pending("drift", x)
      BY <1>9, <2>2, <3>1 DEF CoverInv, DriftCovers
    <3>3. Pending("drift", x)'
      BY <1>7, <2>2, <3>2
    <3>4. QED
      BY <1>1, <3>1, <3>3 DEF Pending, IsProposed
  <2>3. QED
    BY <1>1, <1>4, <2>1, <2>2 DEF CoverInv, DriftCovers
<1>12. PassArmed'
  BY <1>1, <1>4 DEF CoverInv, PassArmed
<1>13. QED
  BY <1>1, <1>10, <1>11, <1>12, CursorStays DEF CoverInv

\* An event is built of what was read of its run, and one critical finding among
\* it is enough.
LEMMA CriticalFires ==
    ASSUME NEW ids, NEW i \in ids, drift[i].status = "critical"
    PROVE  \E e \in DriftEvents(ids) : e.fires /\ e.kind = "drift" /\ e.entity = drift[i].model
<1>1. PICK run : run = <<drift[i].model, drift[i].at>>
  OBVIOUS
<1>2. PICK S : S = {drift[j] : j \in {k \in ids : <<drift[k].model, drift[k].at>> = run}}
  OBVIOUS
<1>3. \E r \in S : r.status = "critical"
  BY <1>1, <1>2
<1>4. Worst(S) = "critical"
  BY <1>3 DEF Worst
<1>5. PICK e : e = DriftEvent(run, S)
  OBVIOUS
<1>6. e.fires /\ e.kind = "drift" /\ e.entity = drift[i].model
  BY <1>1, <1>4, <1>5 DEF DriftEvent
<1>7. e \in DriftEvents(ids)
  BY <1>1, <1>2, <1>5 DEF DriftEvents
<1>8. QED
  BY <1>6, <1>7

LEMMA DriftEventsDrift ==
    ASSUME NEW ids
    PROVE  /\ \A e \in DriftEvents(ids) : e.kind = "drift"
           /\ DriftEvents(ids) # {} => ids # {}
<1>1. \A e \in DriftEvents(ids) : \E run, S : e = DriftEvent(run, S)
  BY DEF DriftEvents
<1>2. \A run, S : DriftEvent(run, S).kind = "drift"
  BY DEF DriftEvent
<1>3. ids = {} => DriftEvents(ids) = {}
  BY DEF DriftEvents
<1>4. QED
  BY <1>1, <1>2, <1>3

\* The predictions are through: with the rules of the scan switched together,
\* the rows that it leaves out do not lie below the new cursor.
LEMMA PredsCovered ==
    ASSUME SwitchedTogether, TypeInv, FedInv, CoverInv, pass.stage = "preds", pass.events = {}
    PROVE  PredsThrough(Reached(pass.read.preds))
<1>1. pass.read = cursor /\ (pass.upto > cursor.preds => armed \cap Models # {})
  BY DEF CoverInv, ScanCovers
<1>2. CASE pass.failed
  BY <1>1, <1>2 DEF Reached, CoverInv
<1>3. CASE ~pass.failed
  <2>1. /\ pass.upto \in Nat /\ pass.upto <= Len(preds) /\ cursor.preds \in Nat
        /\ preds \in Seq(PredRows)
    BY DEF TypeInv, Stored, Reads, Cursors
  <2>2. ASSUME NEW i \in 1 .. pass.upto, Due(i)
        PROVE  IsProposed(preds[i].model, preds[i].entity)
    <3>1. CASE i <= cursor.preds
      <4>1. i \in 1 .. cursor.preds
        BY <2>1, <3>1
      <4>2. QED
        BY <2>2, <4>1 DEF CoverInv, PredsThrough
    <3>2. CASE i > cursor.preds
      <4>1. i \in cursor.preds + 1 .. pass.upto /\ i \in DOMAIN preds /\ pass.upto > cursor.preds
        BY <2>1, <3>2
      <4>2. preds[i] \in PredRows
        BY <2>1, <4>1
      <4>3. PICK a \in scene.armings : preds[i].model \in a
        BY <4>1 DEF FedInv
      <4>4. a \cap Models = armed \cap Models
        <5>1. a \cap Models # {}
          BY <4>2, <4>3 DEF PredRows
        <5>2. armed \in scene.armings /\ scene \in Scenes /\ armed \cap Models # {}
          BY <1>1, <4>1 DEF TypeInv, Stored
        <5>3. QED
          BY <4>3, <5>1, <5>2 DEF SwitchedTogether
      <4>5. i \in Scanned(cursor.preds, pass.upto)
        BY <4>1, <4>2, <4>3, <4>4 DEF Scanned, PredRows
      <4>6. Pending(preds[i].model, preds[i].entity)
        BY <1>3, <2>2, <4>5 DEF CoverInv, ScanCovers
      <4>7. QED
        BY <4>6 DEF Pending
    <3>3. QED
      BY <2>1, <3>1, <3>2
  <2>3. QED
    BY <1>3, <2>2 DEF Reached, PredsThrough
<1>4. QED
  BY <1>2, <1>3

LEMMA CoverDrift ==
    ASSUME SwitchedTogether, KeyInv, TypeInv, FedInv, CoverInv, PassDrift
    PROVE  CoverInv'
<1>1. /\ UNCHANGED <<scene, armed, preds, drift, queue, cursor>> /\ [Next]_vars
      /\ pass.stage = "preds" /\ pass.events = {}
  BY DEF PassDrift, Next, Reconcile
<1>2. PICK from : from = pass.read.drift
  OBVIOUS
<1>3. PICK ids : ids = (IF "drift" \in armed THEN from + 1 .. Len(drift) ELSE {})
  OBVIOUS
<1>4. PICK last : last = UpTo(from, ids, DriftBatch)
  OBVIOUS
<1>5. PICK at : at = Reached(pass.read.preds)
  OBVIOUS
<1>6. pass' = [stage |-> "drift", upto |-> last, failed |-> FALSE,
               events |-> DriftEvents(from + 1 .. last),
               read |-> [pass.read EXCEPT !.preds = at]]
  BY <1>2, <1>3, <1>4, <1>5 DEF PassDrift
<1>7. /\ pass'.stage = "drift" /\ pass'.upto = last /\ pass'.failed = FALSE
      /\ pass'.events = DriftEvents(from + 1 .. last)
      /\ pass'.read.preds = at /\ pass'.read.drift = cursor.drift
  <2>1. pass.read = cursor /\ pass.read \in Cursors
    BY <1>1 DEF CoverInv, ScanCovers, TypeInv, Reads
  <2>2. QED
    BY <1>6, <2>1 DEF Cursors
<1>8. from = cursor.drift
  BY <1>1, <1>2 DEF CoverInv, ScanCovers
<1>9. PredsThrough(at)'
  <2>1. PredsThrough(at)
    BY <1>1, <1>5, PredsCovered
  <2>2. \A i : Due(i)' => Due(i)
    BY <1>1 DEF Due, PredictionEvent, ChurnEvent, ForecastEvent, Rank, Outranks
  <2>3. QED
    BY <1>1, <2>1, <2>2 DEF PredsThrough, IsProposed
<1>10. ASSUME NEW i \in cursor.drift + 1 .. last, drift[i].status = "critical"
       PROVE  Pending("drift", drift[i].model)'
  <2>1. \E e \in DriftEvents(from + 1 .. last) :
            e.fires /\ e.kind = "drift" /\ e.entity = drift[i].model
    BY <1>8, <1>10, CriticalFires
  <2>2. QED
    BY <1>1, <1>7, <2>1 DEF Pending
<1>11. DriftCovers'
  BY <1>1, <1>7, <1>9, <1>10 DEF DriftCovers, PredsThrough
<1>12. PassArmed'
  <2>1. ASSUME pass'.events # {}
        PROVE  "drift" \in armed
    <3>1. from \in Nat /\ from <= Len(drift) /\ Len(drift) \in Nat
      BY <1>2 DEF TypeInv, Stored, Reads, Cursors
    <3>2. ids \subseteq from + 1 .. Len(drift)
      BY <1>3
    <3>3. last \in {from} \union ids /\ last \in Nat
      BY <1>4, <3>1, <3>2, UpToBounds
    <3>4. from + 1 .. last # {}
      BY <1>7, <2>1, DriftEventsDrift
    <3>5. last # from
      BY <3>1, <3>3, <3>4
    <3>6. QED
      BY <1>3, <3>3, <3>5
  <2>2. QED
    BY <1>1, <1>7, <2>1, DriftEventsDrift DEF PassArmed
<1>13. ScanCovers'
  BY <1>7 DEF ScanCovers
<1>14. QED
  BY <1>1, <1>11, <1>12, <1>13, CursorStays DEF CoverInv

\* The cursors are written: to where the two scans got without a failure.
LEMMA CoverWrite ==
    ASSUME KeyInv, TypeInv, CoverInv, PassWrite
    PROVE  CoverInv'
<1>1. /\ UNCHANGED <<preds, drift, queue>> /\ pass' = NoPass
      /\ pass.stage = "drift" /\ pass.events = {}
  BY DEF PassWrite
<1>2. PICK at : at = Reached(pass.read.drift)
  OBVIOUS
<1>3. cursor' = [pass.read EXCEPT !.drift = at]
  BY <1>2 DEF PassWrite
<1>4. cursor'.preds = pass.read.preds /\ cursor'.drift = at
  BY <1>3 DEF TypeInv, Reads, Cursors
<1>5. PredsThrough(cursor.preds)'
  <2>1. PICK n : n = pass.read.preds
    OBVIOUS
  <2>2. PredsThrough(n)
    BY <1>1, <2>1 DEF CoverInv, DriftCovers
  <2>3. \A i : Due(i)' => Due(i)
    BY <1>1 DEF Due, PredictionEvent, ChurnEvent, ForecastEvent, Rank, Outranks
  <2>4. QED
    BY <1>1, <1>4, <2>1, <2>2, <2>3 DEF PredsThrough, IsProposed
<1>6. DriftThrough(at)
  <2>1. CASE pass.failed
    BY <1>1, <1>2, <2>1 DEF Reached, CoverInv, DriftCovers
  <2>2. CASE ~pass.failed
    <3>1. at = pass.upto /\ at \in Nat /\ cursor.drift \in Nat
      BY <1>2, <2>2 DEF Reached, TypeInv, Reads, Cursors
    <3>2. ASSUME NEW i \in 1 .. at, drift[i].status = "critical"
          PROVE  IsProposed("drift", drift[i].model)
      <4>1. CASE i <= cursor.drift
        <5>1. i \in 1 .. cursor.drift
          BY <3>1, <4>1
        <5>2. QED
          BY <3>2, <5>1 DEF CoverInv, DriftThrough
      <4>2. CASE i > cursor.drift
        <5>1. i \in cursor.drift + 1 .. pass.upto
          BY <3>1, <4>2
        <5>2. Pending("drift", drift[i].model)
          BY <1>1, <2>2, <3>2, <5>1 DEF CoverInv, DriftCovers
        <5>3. QED
          BY <1>1, <5>2 DEF Pending
      <4>3. QED
        BY <3>1, <4>1, <4>2
    <3>3. QED
      BY <3>2 DEF DriftThrough
  <2>3. QED
    BY <2>1, <2>2
<1>7. DriftThrough(cursor.drift)'
  BY <1>1, <1>4, <1>6 DEF DriftThrough, IsProposed
<1>8. QED
  BY <1>1, <1>5, <1>7, CoverNoPass

LEMMA CoverInit == Init => CoverInv
<1> SUFFICES ASSUME Init PROVE CoverInv
  OBVIOUS
<1>1. cursor.preds = 0 /\ cursor.drift = 0 /\ pass = NoPass
  BY DEF Init
<1>2. pass.stage = "off" /\ pass.events = {}
  BY <1>1, NoPassFacts
<1>3. QED
  BY <1>1, <1>2 DEF CoverInv, PredsThrough, DriftThrough, ScanCovers, DriftCovers, PassArmed

LEMMA CoverNext ==
    ASSUME SwitchedTogether, KeyInv, TypeInv, NameInv, FedInv, CoverInv, [Next]_vars
    PROVE  CoverInv'
<1>1. CASE PassFails \/ Crash
  <2>1. UNCHANGED cursor /\ pass' = NoPass
    BY <1>1 DEF PassFails, Crash
  <2>2. QED
    BY <2>1, CursorStays, CoverNoPass
<1>2. CASE \/ Promote \/ Reload \/ Scorer \/ ScoreFails \/ Caster \/ CastFails \/ DriftCheck \/ Poller
           \/ EngineHandle \/ Settle \/ UNCHANGED vars
  <2>1. UNCHANGED <<armed, cursor, pass>>
    BY <1>2 DEF Promote, Reload, Scorer, ScoreStart, ScoreNext, RankFresh, PublishChurn, ScoreFails,
       Caster, CastStart, CastNext, CastPublish, CastFails, DriftCheck, Poller, PollRead,
       PollPublish, PollWrite, EngineHandle, Settle, vars
  <2>2. QED
    BY <2>1, CoverKept
<1>3. CASE Reconcile
  BY <1>3, CoverRead, CoverRank, CoverHandle, CoverDrift, CoverWrite DEF Reconcile
<1>4. QED
  BY <1>1, <1>2, <1>3 DEF Next

\* govern/reconcile.go, "a dropped domain-bus event can never silently void a
\* proposal", for events that say more than their row: no row that calls for a
\* human lies below a cursor with nobody called.  A rank is that of a moment but
\* later ones are only worse; a proposal that fails holds its cursor back; the
\* part of a run that a batch cuts off lies above the cursor, and one critical
\* finding in either part is enough.
THEOREM CursorsCoverRows ==
    ASSUME SwitchedTogether
    PROVE  Spec => []CursorsCover
<1> DEFINE IInv == KeyInv /\ TypeInv /\ NameInv /\ FedInv /\ CoverInv
<1>1. Init => IInv
  BY KeyInit, TypeInit, NameInit, FedInit, CoverInit
<1>2. IInv /\ [Next]_vars => IInv'
  BY KeyNext, TypeNext, NameNext, FedNext, CoverNext
<1>3. IInv => CursorsCover
  BY DEF CoverInv, CursorsCover, PredsThrough, DriftThrough
<1>4. QED
  BY <1>1, <1>2, <1>3, PTL DEF Spec
=============================================================================
