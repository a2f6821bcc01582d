-------------------------- MODULE ProposalDelivery --------------------------
(***************************************************************************)
(* How a persisted prediction becomes a proposal.  A producer inserts the  *)
(* prediction and then publishes an event on the in-process bus, which     *)
(* drops events for a slow subscriber and forgets them in a restart; the   *)
(* playbook engine proposes from the event.  The reconciler reads the      *)
(* predictions above a persisted cursor and sends them through the same    *)
(* engine, and the retention job archives what the cursor has passed.      *)
(*                                                                         *)
(* The queue is kept coarse: ActionQueue has its statements, and shows     *)
(* that Propose may be taken as one step.                                  *)
(***************************************************************************)
EXTENDS Naturals, Sequences, FiniteSets

CONSTANTS Triggers,         \* predictions whose rule's condition holds
          Key,              \* Key[t]: the dedup key of t's proposal
          Scope,            \* Scope[k]: rule and entity of proposal k
          AutoKeys,         \* the proposals of auto-tier rules
          Producers,        \* goroutines that score and persist
          Maker,            \* Maker[t]: the producer that scores t
          BatchProducers,   \* those that publish when their pass is over
          HotWindow,        \* those whose rows the retention job archives
          SubBuffer,        \* capacity of the engine's bus channel
          PredictionBatch,  \* rows one reconciler pass reads at most
          MaxFaults,        \* bound: storage errors and restarts
          None              \* no trigger

Keys == {Key[t] : t \in Triggers}

ASSUME DeliveryAssumption ==
    /\ Maker \in [Triggers -> Producers]
    /\ BatchProducers \subseteq Producers /\ HotWindow \subseteq Producers
    /\ SubBuffer \in Nat \ {0} /\ PredictionBatch \in Nat \ {0}
    /\ MaxFaults \in Nat
    /\ None \notin Triggers

\* The dedup key of a streamed score contains the id of its prediction; only
\* the forecast worker makes several predictions with one key (a category and
\* week, forecast by two model versions), and its rows are never archived.
ASSUME KeyAssumption ==
    \A s, t \in Triggers :
        Key[s] = Key[t] /\ Maker[s] \in HotWindow => s = t

VARIABLES
    stored,      \* where the row of a trigger is
    id,          \* its bigserial id, 0 before the insert
    lastId,      \* the sequence of gold.predictions
    fresh,       \* fresh[p]: rows p has persisted and not published, in order
    bus,         \* the engine's subscription channel
    live,        \* the event the engine goroutine is handling
    queue,       \* status by dedup key
    cursor,      \* gold.governance_state: the reconciler's watermark
    pass,        \* the reconciler's pass in memory
    considered,  \* triggers whose Propose has returned without error (history)
    overtaken,   \* triggers not yet committed when the cursor passed (history)
    faults

producerVars == <<stored, id, lastId, fresh>>
engineVars == <<bus, live>>
historyVars == <<considered, overtaken>>
vars == <<producerVars, engineVars, queue, cursor, pass, historyVars, faults>>

QueueStatuses == {"absent", "pending", "approved", "failed", "settled"}

NoPass == [on |-> FALSE, rows |-> {}, upto |-> 0, gaps |-> {}, failed |-> FALSE]

Init ==
    /\ stored = [t \in Triggers |-> "none"]
    /\ id = [t \in Triggers |-> 0]
    /\ lastId = 0
    /\ fresh = [p \in Producers |-> <<>>]
    /\ bus = <<>>
    /\ live = None
    /\ queue = [k \in Keys |-> "absent"]
    /\ cursor = 0
    /\ pass = NoPass
    /\ considered = {}
    /\ overtaken = {}
    /\ faults = 0

Fault == faults < MaxFaults /\ faults' = faults + 1

Persisted(t) == stored[t] \in {"hot", "archived"}

----------------------------------------------------------------------------
(* Producers: the score-writer's worker and the batch scorers              *)

Inserting(p) == {t \in Triggers : Maker[t] = p /\ stored[t] = "inserting"}

\* INSERT ... RETURNING id: the id is taken from the sequence now, the row is
\* visible to others when the statement commits.  The score-writer and
\* the forecast worker publish each row before they score the next.
Insert(t) ==
    LET p == Maker[t] IN
    /\ stored[t] = "none"
    /\ Inserting(p) = {}
    /\ p \notin BatchProducers => fresh[p] = <<>>
    /\ lastId' = lastId + 1
    /\ id' = [id EXCEPT ![t] = lastId + 1]
    /\ stored' = [stored EXCEPT ![t] = "inserting"]
    /\ UNCHANGED <<fresh, engineVars, queue, cursor, pass, historyVars, faults>>

InsertCommit(t) ==
    LET p == Maker[t] IN
    /\ stored[t] = "inserting"
    /\ stored' = [stored EXCEPT ![t] = "hot"]
    /\ fresh' = [fresh EXCEPT ![p] = Append(@, t)]
    /\ UNCHANGED <<id, lastId, engineVars, queue, cursor, pass, historyVars, faults>>

\* The row is not stored, or the answer that it is was lost.  A batch pass stops
\* at its first error and publishes none of the rows it has persisted; the next
\* pass does not score them again.
InsertFail(t) ==
    LET p == Maker[t] IN
    /\ stored[t] = "inserting"
    /\ Fault
    /\ \/ /\ stored' = [stored EXCEPT ![t] = "none"]
          /\ id' = [id EXCEPT ![t] = 0]
       \/ /\ stored' = [stored EXCEPT ![t] = "hot"]
          /\ UNCHANGED id
    /\ fresh' = [fresh EXCEPT ![p] = <<>>]
    /\ UNCHANGED <<lastId, engineVars, queue, cursor, pass, historyVars>>

PassOver(p) ==
    p \in BatchProducers => \A t \in Triggers : Maker[t] = p => Persisted(t)

\* Mutant: the send is not bounded by the channel's capacity.
PublishUnbounded(p) ==
    /\ fresh[p] # <<>>
    /\ PassOver(p)
    /\ bus' = Append(bus, Head(fresh[p]))
    /\ fresh' = [fresh EXCEPT ![p] = Tail(@)]
    /\ UNCHANGED <<stored, id, lastId, live, queue, cursor, pass, historyVars, faults>>

\* A full channel drops the event, after the timeout if it is PublishWait.
Publish(p) ==
    /\ fresh[p] # <<>>
    /\ PassOver(p)
    /\ bus' = IF Len(bus) < SubBuffer THEN Append(bus, Head(fresh[p])) ELSE bus
    /\ fresh' = [fresh EXCEPT ![p] = Tail(@)]
    /\ UNCHANGED <<stored, id, lastId, live, queue, cursor, pass, historyVars, faults>>

----------------------------------------------------------------------------
(* Engine.Handle, called by the bus consumer and by the reconciler         *)

Suppressed(k) ==
    \E j \in Keys : Scope[j] = Scope[k] /\ queue[j] = "pending"

\* A storage error before the proposal is committed.
ProposeFails == UNCHANGED <<queue, considered>> /\ Fault

\* No-op: the dedup key exists, or a proposal on the entity is open.
ProposeNothing(t) ==
    /\ queue[Key[t]] # "absent" \/ Suppressed(Key[t])
    /\ considered' = considered \cup {t}
    /\ UNCHANGED <<queue, faults>>

\* A new proposal; an auto-tier one is executed at once.
ProposeNew(t) ==
    LET k == Key[t] IN
    /\ queue[k] = "absent" /\ ~Suppressed(k)
    /\ considered' = considered \cup {t}
    /\ queue' = [queue EXCEPT ![k] = IF k \in AutoKeys THEN "settled" ELSE "pending"]
    /\ UNCHANGED faults

\* AutoApproveAndExecute fails: the row exists, undecided or failed.
ProposeAutoFails(t) ==
    LET k == Key[t] IN
    /\ k \in AutoKeys
    /\ queue[k] = "absent" /\ ~Suppressed(k)
    /\ considered' = considered \cup {t}
    /\ \E st \in {"pending", "failed"} : queue' = [queue EXCEPT ![k] = st]
    /\ Fault

\* The error count that Handle returns for one trigger, 0 or 1.
HandleOk(t) == ProposeNothing(t) \/ ProposeNew(t)
HandleError(t) == ProposeFails \/ ProposeAutoFails(t)

LiveReceive ==
    /\ live = None /\ bus # <<>>
    /\ live' = Head(bus)
    /\ bus' = Tail(bus)
    /\ UNCHANGED <<producerVars, queue, cursor, pass, historyVars, faults>>

\* The bus consumer ignores the count.
LiveHandle ==
    /\ live # None
    /\ HandleOk(live) \/ HandleError(live)
    /\ live' = None
    /\ UNCHANGED <<producerVars, bus, cursor, pass, overtaken>>

----------------------------------------------------------------------------
(* Reconciler.Once                                                         *)

Unseen == {t \in Triggers : stored[t] = "hot" /\ id[t] > cursor}

\* ORDER BY id LIMIT predictionBatch
Batch(rows) ==
    /\ rows \subseteq Unseen
    /\ \A s \in rows, t \in Unseen \ rows : id[s] < id[t]
    /\ \/ rows = Unseen
       \/ Cardinality(rows) = PredictionBatch /\ Cardinality(Unseen) > PredictionBatch

\* maxID: the last id of the batch, or the cursor when it is empty.
PassStart ==
    /\ ~pass.on
    /\ \E rows \in SUBSET Unseen, upto \in {cursor} \cup {id[t] : t \in Unseen} :
         /\ Batch(rows)
         /\ Cardinality(rows) <= PredictionBatch
         /\ \A t \in rows : id[t] <= upto
         /\ upto \in {cursor} \cup {id[t] : t \in rows}
         /\ rows # {} => upto # cursor
         /\ pass' = [on |-> TRUE, rows |-> rows, upto |-> upto, failed |-> FALSE,
                     gaps |-> {t \in Triggers : stored[t] = "inserting" /\ id[t] <= upto}]
    /\ UNCHANGED <<producerVars, engineVars, queue, cursor, historyVars, faults>>

PassHandle ==
    \E t \in pass.rows :
      /\ \A s \in pass.rows : id[t] <= id[s]
      /\ \/ HandleOk(t) /\ pass' = [pass EXCEPT !.rows = @ \ {t}]
         \/ HandleError(t) /\ pass' = [pass EXCEPT !.rows = @ \ {t}, !.failed = TRUE]
      /\ UNCHANGED <<producerVars, engineVars, cursor, overtaken>>

\* Mutant: the cursor advances although a proposal was not stored.
PassEndDespiteFailure ==
    /\ pass.on /\ pass.rows = {}
    /\ pass' = NoPass
    /\ cursor' = pass.upto
    /\ overtaken' = overtaken \cup pass.gaps
    /\ UNCHANGED <<producerVars, engineVars, queue, considered, faults>>

\* Mutant: the cursor is never written back.
PassEndCursorLost ==
    /\ pass.on /\ pass.rows = {}
    /\ pass' = NoPass
    /\ UNCHANGED <<producerVars, engineVars, queue, cursor, historyVars, faults>>

\* writeWatermark: the old cursor when a proposal was not stored.
PassEnd ==
    /\ pass.on /\ pass.rows = {}
    /\ pass' = NoPass
    /\ IF pass.failed
       THEN UNCHANGED <<cursor, overtaken>>
       ELSE cursor' = pass.upto /\ overtaken' = overtaken \cup pass.gaps
    /\ UNCHANGED <<producerVars, engineVars, queue, considered, faults>>

\* writeWatermark fails: the pass is repeated.
PassWriteFails ==
    /\ pass.on /\ pass.rows = {}
    /\ pass' = NoPass
    /\ Fault
    /\ UNCHANGED <<producerVars, engineVars, queue, cursor, historyVars>>

----------------------------------------------------------------------------
(* Retention, reviewers and restarts                                       *)

\* Mutant: the queue is not asked.
NeverCited(t) == FALSE

\* The cited rows: triggers of pending and failed actions.
Cited(t) == queue[Key[t]] \in {"pending", "failed"}

\* A row is aged when it is 30 days old: no event about it is in memory still.
Aged(t) ==
    /\ live # t
    /\ \A i \in DOMAIN bus : bus[i] # t
    /\ \A p \in Producers : \A i \in DOMAIN fresh[p] : fresh[p][i] # t

\* Retention.Once, row by row: only the score-writer's rows have a hot window.
Archive(t) ==
    /\ stored[t] = "hot" /\ Maker[t] \in HotWindow
    /\ Aged(t)
    /\ id[t] <= cursor
    /\ ~Cited(t)
    /\ stored' = [stored EXCEPT ![t] = "archived"]
    /\ UNCHANGED <<id, lastId, fresh, engineVars, queue, cursor, pass, historyVars, faults>>

\* ActionQueue's moves of an existing row: decided, executed, failed, retried.
QueueMoves == {<<"pending", "approved">>, <<"pending", "settled">>,
               <<"approved", "settled">>, <<"approved", "failed">>,
               <<"failed", "approved">>}

Decide(k) ==
    /\ \E st \in QueueStatuses :
         /\ <<queue[k], st>> \in QueueMoves
         /\ queue' = [queue EXCEPT ![k] = st]
    /\ UNCHANGED <<producerVars, engineVars, cursor, pass, historyVars, faults>>

\* The process restarts.  An insert that was under way has committed or not.
Restart ==
    /\ Fault
    /\ \E done \in SUBSET {t \in Triggers : stored[t] = "inserting"} :
         LET to(t) == IF t \in done THEN "hot" ELSE "none" IN
         /\ stored' = [t \in Triggers |->
                          IF stored[t] = "inserting" THEN to(t) ELSE stored[t]]
         /\ id' = [t \in Triggers |-> IF stored'[t] = "none" THEN 0 ELSE id[t]]
    /\ fresh' = [p \in Producers |-> <<>>]
    /\ bus' = <<>> /\ live' = None /\ pass' = NoPass
    /\ UNCHANGED <<lastId, queue, cursor, historyVars>>

----------------------------------------------------------------------------
Reconcile == PassStart \/ PassHandle \/ PassEnd \/ PassWriteFails

Next ==
    \/ \E t \in Triggers : Insert(t) \/ InsertCommit(t) \/ InsertFail(t) \/ Archive(t)
    \/ \E p \in Producers : Publish(p)
    \/ LiveReceive
    \/ LiveHandle
    \/ Reconcile
    \/ \E k \in Keys : Decide(k)
    \/ Restart

Spec == Init /\ [][Next]_vars

\* The reconciler ticks for ever.  Nothing is assumed of the bus, of the
\* producers or of the reviewers.
FairSpec == Spec /\ WF_vars(Reconcile)

----------------------------------------------------------------------------
(* Properties                                                              *)

TypeOK ==
    /\ stored \in [Triggers -> {"none", "inserting", "hot", "archived"}]
    /\ id \in [Triggers -> Nat]
    /\ lastId \in Nat
    /\ \A t \in Triggers : (id[t] = 0 <=> stored[t] = "none") /\ id[t] <= lastId
    /\ fresh \in [Producers -> Seq(Triggers)]
    /\ bus \in Seq(Triggers) /\ Len(bus) <= SubBuffer
    /\ live \in Triggers \cup {None}
    /\ queue \in [Keys -> QueueStatuses]
    /\ cursor \in Nat /\ cursor <= lastId
    /\ pass \in [on : BOOLEAN, rows : SUBSET Triggers, upto : Nat,
                 gaps : SUBSET Triggers, failed : BOOLEAN]
    /\ considered \subseteq Triggers
    /\ overtaken \subseteq Triggers
    /\ faults \in 0 .. MaxFaults

\* Whatever the bus dropped and wherever the process restarted, a prediction
\* the reconciler's cursor has passed was put to the queue; the one exception
\* is a row whose insert had not committed when a later id was read.
CursorCovers ==
    \A t \in Triggers :
        Persisted(t) /\ id[t] <= cursor => t \in considered \cup overtaken

\* A row does not leave the hot table before the backstop has considered it,
\* and a question a reviewer has not answered keeps its evidence (Retention).
ArchivedIsDone ==
    \A t \in Triggers : stored[t] = "archived" =>
        /\ t \in considered \cup overtaken
        /\ queue[Key[t]] # "pending"

\* At-least-once delivery of proposals by the reconciler alone.
EveryTriggerConsidered ==
    \A t \in Triggers : Persisted(t) ~> t \in considered \cup overtaken

\* "... so a dropped domain-bus event can never silently void a proposal": a
\* row that no event in memory is about and the cursor has passed was put to
\* the queue.
NoProposalVoided ==
    \A t \in Triggers :
        stored[t] = "hot" /\ id[t] <= cursor /\ Aged(t) => t \in considered
=============================================================================
