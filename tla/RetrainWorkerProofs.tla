------------------------ MODULE RetrainWorkerProofs ------------------------
(***************************************************************************)
(* Proofs about RetrainWorker: the store beside it lives as it does alone; *)
(* its types; only what a person approved is trained; the audit log tells  *)
(* how every request stands; and a single training worker trains a request *)
(* at most once.                                                           *)
(***************************************************************************)
EXTENDS RetrainWorker, ActionQueueProofs

RequestStates == {"absent", "pending", "running", "done", "failed"}
Places == {"sleep", "reap", "poll", "next", "refused", "honoured",
           "training", "done", "failed"}
InHand == {"refused", "honoured", "training", "done", "failed"}

\* What a commit may leave a request at.
Settled == {"running", "done", "failed"}

----------------------------------------------------------------------------
(* The store                                                               *)

\* A step of the whole system is a step of the store, or none.
LEMMA StoreMoves == RetrainNext => [Next]_vars
  <1> SUFFICES ASSUME RetrainNext PROVE [Next]_vars
    OBVIOUS
  <1>1. CASE StoreStep
    BY <1>1 DEF StoreStep
  <1>2. ASSUME NEW c \in Callers, ExecuteRetrain(c) PROVE Next
    BY <1>2 DEF ExecuteRetrain, Next, Advance
  <1>3. ASSUME \/ \E s \in Strays : InsertByHand(s)
               \/ \E i \in Ids : GrowOld(i)
               \/ \E w \in Workers : Wake(w) \/ Work(w) \/ Crash(w)
        PROVE UNCHANGED vars
    BY <1>3 DEF InsertByHand, GrowOld, Wake, Work, Crash, Reap, Poll, Take, Refuse,
           NoTrainer, DryRun, Launch, TrainerEnds, Finalize, CycleEnd, Commit
  <1> QED BY <1>1, <1>2, <1>3 DEF RetrainNext

\* The worker, and whoever writes requests by hand, leave the store to its own
\* specification, and so to all that is proved of it.
THEOREM StoreUndisturbed == RetrainSpec => Spec
  <1>1. RetrainInit => Init
    BY DEF RetrainInit
  <1>2. [RetrainNext]_allVars => [Next]_vars
    BY StoreMoves DEF allVars
  <1> QED BY <1>1, <1>2, PTL DEF RetrainSpec, Spec

\* What the store's proofs say of every state: authority is never taken back,
\* and no automatic approval is a retraining's.
LEMMA StoreInv == RetrainSpec => [](TypeOK /\ AuthorityInv)
  <1>1. Init => AuthorityInv
    BY DEF Init, AuthorityInv, EffectsAuthorised, Written, At
  <1>2. Spec => [](TypeOK /\ AuthorityInv)
    BY <1>1, AuthorityStep, TypeCorrect, PTL DEF Spec
  <1> QED BY <1>2, StoreUndisturbed, PTL

LEMMA ApprovalStays ==
    ASSUME TypeOK, [Next]_vars, NEW r \in Rows, Written(r, "approved") # {}
    PROVE  Written(r, "approved")' # {}
  <1>1. ASSUME NEW q \in Rows, NEW tr \in Transitions, Log(q, tr)
        PROVE Written(r, "approved")' # {}
    <2>1. audit \in [Rows -> Seq(Transitions)] /\ "approved" \in Transitions
      BY DEF TypeOK, Transitions
    <2> QED BY <1>1, <2>1, LogWrites
  <1>2. CASE audit' = audit
    BY <1>2 DEF Written
  <1>3. audit' = audit \/ \E q \in Rows, tr \in Transitions : Log(q, tr)
    <2>1. \A c \in Callers : ~At(c, "idle") => row[c] \in Rows
      BY DEF TypeOK
    <2>2. CASE \E c \in Requests, q \in Rows : Approve(c, q) \/ Reject(c, q) \/ Retry(c, q)
      BY <2>2 DEF Approve, Reject, Retry, Decide, Transitions
    <2>3. ASSUME NEW c \in Callers,
                 ProposeInsert(c) \/ AutoStamp(c) \/ RecordOutcome(c)
          PROVE audit' = audit \/ \E q \in Rows, tr \in Transitions : Log(q, tr)
      <3>1. row[c] \in Rows
        BY <2>1, <2>3 DEF ProposeInsert, AutoStamp, RecordOutcome, At
      <3> QED BY <2>3, <3>1 DEF ProposeInsert, AutoStamp, RecordOutcome, queueVars, Transitions
    <2>4. CASE \/ \E c \in Engines, q \in Rows : ProposeCheck(c, q)
               \/ \E c \in Callers : AutoCheck(c) \/ ExecuteLoad(c) \/ ExecuteAuthorise(c)
                                     \/ RunExecutor(c) \/ Abort(c)
               \/ UNCHANGED vars
      BY <2>4 DEF ProposeCheck, AutoCheck, ExecuteLoad, ExecuteAuthorise, RunExecutor,
             Abort, vars, queueVars
    <2> QED BY <2>2, <2>3, <2>4 DEF Next, Advance
  <1> QED BY <1>1, <1>2, <1>3

----------------------------------------------------------------------------
(* Types                                                                   *)

\* A commit keeps the types of what it writes.
LEMMA CommitTyped ==
    ASSUME RetrainTypeOK, NEW w \in Workers, NEW R \in SUBSET Ids,
           NEW to \in Settled, Commit(w, R, to)
    PROVE  /\ state' \in [Ids -> RequestStates]
           /\ outcomes' \in [Ids -> Seq({"done", "failed"})]
           /\ dirty' \in [Workers -> SUBSET Ids]
  <1> DEFINE written(q) == IF q \in R THEN to ELSE "failed"
             touched == R \cup dirty[w]
             logged == IF to = "running" THEN touched \ R ELSE touched
  <1>1. /\ state' = [q \in Ids |-> IF q \in touched THEN written(q) ELSE state[q]]
        /\ outcomes' = [q \in Ids |->
                           IF q \in logged /\ OnQueue(q)
                           THEN Append(outcomes[q], written(q)) ELSE outcomes[q]]
        /\ dirty' = [dirty EXCEPT ![w] = {}]
    BY DEF Commit
  <1>2. state' \in [Ids -> RequestStates]
    <2>1. \A q \in Ids :
             (IF q \in touched THEN written(q) ELSE state[q]) \in RequestStates
      BY DEF RetrainTypeOK, Settled, RequestStates
    <2> HIDE DEF touched, written
    <2> QED BY <1>1, <2>1
  <1>3. outcomes' \in [Ids -> Seq({"done", "failed"})]
    <2>1. ASSUME NEW q \in Ids
          PROVE  (IF q \in logged /\ OnQueue(q)
                  THEN Append(outcomes[q], written(q)) ELSE outcomes[q])
                 \in Seq({"done", "failed"})
      <3>1. outcomes[q] \in Seq({"done", "failed"})
        BY DEF RetrainTypeOK
      <3>2. q \in logged => written(q) \in {"done", "failed"}
        BY DEF Settled
      <3> HIDE DEF written, logged
      <3> QED BY <3>1, <3>2
    <2> HIDE DEF logged, written
    <2> QED BY <1>1, <2>1
  <1>4. dirty' \in [Workers -> SUBSET Ids]
    BY <1>1 DEF RetrainTypeOK
  <1> QED BY <1>2, <1>3, <1>4

\* What a commit does to one request: nothing, or it starts to run, or it gets
\* its final status, together with the audit row if there is an action.
LEMMA CommitRow ==
    ASSUME RetrainTypeOK, NEW w \in Workers, NEW R \in SUBSET Ids,
           NEW to \in Settled, Commit(w, R, to), NEW i \in Ids
    PROVE  \/ /\ state'[i] = state[i]
              /\ outcomes'[i] = outcomes[i]
           \/ state'[i] = "running" /\ i \in R /\ to = "running"
           \/ /\ state'[i] \in {"done", "failed"}
              /\ OnQueue(i) => outcomes'[i] = Append(outcomes[i], state'[i])
  <1> DEFINE written == IF i \in R THEN to ELSE "failed"
             touched == R \cup dirty[w]
             logged == IF to = "running" THEN touched \ R ELSE touched
  <1>1. /\ state'[i] = IF i \in touched THEN written ELSE state[i]
        /\ outcomes'[i] = IF i \in logged /\ OnQueue(i)
                          THEN Append(outcomes[i], written) ELSE outcomes[i]
    BY DEF Commit
  <1>2. CASE i \notin touched
    BY <1>1, <1>2
  <1>3. CASE i \in R /\ to = "running"
    BY <1>1, <1>3
  <1>4. CASE i \in touched /\ ~(i \in R /\ to = "running")
    <2>1. i \in logged /\ written \in {"done", "failed"}
      BY <1>4 DEF Settled
    <2> HIDE DEF written, logged
    <2> QED BY <1>1, <1>4, <2>1
  <1> QED BY <1>2, <1>3, <1>4

\* A request comes into the table as pending, and only once.
LEMMA InsertRow ==
    ASSUME RetrainTypeOK, NEW i \in Ids, NEW m \in Models, Insert(i, m)
    PROVE  /\ state' \in [Ids -> RequestStates] /\ asked' \in [Ids -> Models \cup {None}]
           /\ earlier' \in [Ids -> SUBSET Ids] /\ UNCHANGED <<age, outcomes>>
           /\ \A j \in Ids : state[j] # "absent" =>
                 state'[j] = state[j] /\ asked'[j] = asked[j]
           /\ \A j \in Ids : state'[j] = state[j] \/ state'[j] = "pending"
  <1>1. CASE state[i] # "absent"
    BY <1>1 DEF Insert, RetrainTypeOK, RequestStates, requestVars, tableVars
  <1>2. CASE state[i] = "absent"
    <2>1. /\ state' = [state EXCEPT ![i] = "pending"]
          /\ asked' = [asked EXCEPT ![i] = m]
          /\ earlier' = [earlier EXCEPT ![i] = Requested]
          /\ UNCHANGED <<age, outcomes>>
      BY <1>2 DEF Insert
    <2>2. /\ state \in [Ids -> RequestStates] /\ asked \in [Ids -> Models \cup {None}]
          /\ earlier \in [Ids -> SUBSET Ids]
      BY DEF RetrainTypeOK, RequestStates
    <2>3. Requested \in SUBSET Ids
      BY DEF Requested
    <2> QED BY <1>2, <2>1, <2>2, <2>3 DEF RequestStates
  <1> QED BY <1>1, <1>2

\* The steps that insert are those of an executor and those by hand.
LEMMA Inserts ==
    ASSUME TypeOK, (\E c \in Callers : ExecuteRetrain(c)) \/ (\E s \in Strays : InsertByHand(s))
    PROVE  /\ \/ \E i \in Ids, m \in Models : Insert(i, m)
              \/ UNCHANGED requestVars
           /\ UNCHANGED <<workerVars, trainings, fleetVars>>
  <1>1. ASSUME NEW c \in Callers, ExecuteRetrain(c)
        PROVE (\E i \in Ids, m \in Models : Insert(i, m)) \/ UNCHANGED requestVars
    BY <1>1 DEF ExecuteRetrain, Retrains, Ids, Models
  <1>2. ASSUME NEW s \in Strays, InsertByHand(s)
        PROVE \E i \in Ids, m \in Models : Insert(i, m)
    BY <1>2, RetrainAssumption DEF InsertByHand, Models
  <1> QED BY <1>1, <1>2 DEF ExecuteRetrain, InsertByHand

\* The types are kept, and a worker in the middle of a request has it in hand.
LEMMA RetrainTypeStep ==
    TypeOK /\ RetrainTypeOK /\ [RetrainNext]_allVars => RetrainTypeOK'
  <1> SUFFICES ASSUME TypeOK, RetrainTypeOK, [RetrainNext]_allVars PROVE RetrainTypeOK'
    OBVIOUS
  <1> USE RetrainAssumption DEF Stands, Go, fleetVars
  <1>1. CASE UNCHANGED retrainVars
    BY <1>1 DEF RetrainTypeOK, retrainVars, requestVars, tableVars, workerVars
  <1>2. CASE (\E c \in Callers : ExecuteRetrain(c)) \/ (\E s \in Strays : InsertByHand(s))
    <2>1. UNCHANGED <<workerVars, trainings, fleetVars>>
      BY <1>2, Inserts
    <2>2. CASE UNCHANGED requestVars
      BY <1>1, <2>1, <2>2 DEF retrainVars
    <2>3. ASSUME NEW i \in Ids, NEW m \in Models, Insert(i, m) PROVE RetrainTypeOK'
      BY <2>1, <2>3, InsertRow DEF RetrainTypeOK, RequestStates, workerVars
    <2> QED BY <1>2, <2>2, <2>3, Inserts
  <1>3. ASSUME NEW i \in Ids, GrowOld(i) PROVE RetrainTypeOK'
    BY <1>3 DEF RetrainTypeOK, GrowOld, workerVars
  <1>4. ASSUME NEW w \in Workers, NEW R \in SUBSET Ids, NEW to \in Settled, Commit(w, R, to)
        PROVE  /\ state' \in [Ids -> RequestStates]
               /\ outcomes' \in [Ids -> Seq({"done", "failed"})]
               /\ dirty' \in [Workers -> SUBSET Ids]
               /\ UNCHANGED <<asked, earlier, fleetVars>>
    BY <1>4, CommitTyped DEF Commit
  <1>5. ASSUME NEW w \in Workers, Wake(w) \/ Poll(w) \/ TrainerEnds(w) \/ Crash(w)
        PROVE RetrainTypeOK'
    <2>1. CASE Wake(w)
      BY <2>1 DEF RetrainTypeOK, Wake, requestVars, tableVars
    <2>2. CASE Poll(w)
      BY <2>2 DEF RetrainTypeOK, Poll, requestVars, tableVars
    <2>3. CASE TrainerEnds(w)
      <3>1. /\ \E place \in {"done", "failed"} : at' = [at EXCEPT ![w] = place]
            /\ hand[w] \in Ids
        BY <2>3 DEF RetrainTypeOK, TrainerEnds
      <3> QED BY <2>3, <3>1 DEF RetrainTypeOK, TrainerEnds, requestVars, tableVars
    <2>4. CASE Crash(w)
      BY <2>4 DEF RetrainTypeOK, Crash, requestVars, tableVars
    <2> QED BY <1>5, <2>1, <2>2, <2>3, <2>4
  <1>6. ASSUME NEW w \in Workers, Take(w) PROVE RetrainTypeOK'
    BY <1>6 DEF RetrainTypeOK, Take, requestVars, tableVars
  <1>7. ASSUME NEW w \in Workers, NoTrainer(w) \/ DryRun(w) PROVE RetrainTypeOK'
    <2>1. CASE NoTrainer(w)
      <3>1. hand[w] \in Ids
        BY <2>1 DEF RetrainTypeOK, NoTrainer
      <3> QED BY <2>1, <3>1 DEF RetrainTypeOK, NoTrainer, Done, requestVars, tableVars
    <2>2. CASE DryRun(w)
      BY <2>2 DEF RetrainTypeOK, DryRun, Done, requestVars, tableVars
    <2> QED BY <1>7, <2>1, <2>2
  <1>8. ASSUME NEW w \in Workers, Reap(w) PROVE RetrainTypeOK'
    <2>1. stale[w] \in SUBSET Ids /\ "failed" \in Settled
      BY DEF RetrainTypeOK, Settled
    <2> QED BY <1>4, <1>8, <2>1 DEF RetrainTypeOK, RequestStates, Reap
  <1>9. ASSUME NEW w \in Workers, CycleEnd(w) PROVE RetrainTypeOK'
    <2>1. "failed" \in Settled /\ {} \in SUBSET Ids
      BY DEF Settled
    <2> QED BY <1>4, <1>9, <2>1 DEF RetrainTypeOK, RequestStates, CycleEnd
  <1>10. ASSUME NEW w \in Workers, Refuse(w) \/ Finalize(w) PROVE RetrainTypeOK'
    <2>1. hand[w] \in Ids /\ \E to \in Settled : Commit(w, {hand[w]}, to)
      BY <1>10 DEF RetrainTypeOK, Refuse, Finalize, Settled
    <2>2. /\ state' \in [Ids -> RequestStates]
          /\ outcomes' \in [Ids -> Seq({"done", "failed"})]
          /\ dirty' \in [Workers -> SUBSET Ids]
          /\ UNCHANGED <<asked, earlier, fleetVars>>
      BY <1>4, <2>1
    <2>3. /\ at' = [at EXCEPT ![w] = "next"] /\ hand' = [hand EXCEPT ![w] = None]
          /\ UNCHANGED <<age, stale, todo, trainings>>
      BY <1>10 DEF Refuse, Finalize, Done
    <2> QED BY <2>2, <2>3 DEF RetrainTypeOK, RequestStates
  <1>11. ASSUME NEW w \in Workers, Launch(w) PROVE RetrainTypeOK'
    <2>1. hand[w] \in Ids /\ "running" \in Settled
      BY <1>11 DEF RetrainTypeOK, Launch, Settled
    <2>2. /\ state' \in [Ids -> RequestStates]
          /\ outcomes' \in [Ids -> Seq({"done", "failed"})]
          /\ dirty' \in [Workers -> SUBSET Ids]
          /\ UNCHANGED <<asked, earlier, fleetVars>>
      BY <1>4, <1>11, <2>1 DEF Launch
    <2>3. /\ at' = [at EXCEPT ![w] = "training"]
          /\ age' = [age EXCEPT ![hand[w]] = "recent"]
          /\ trainings' = [trainings EXCEPT ![hand[w]] = @ + 1]
          /\ UNCHANGED <<stale, todo, hand>>
      BY <1>11 DEF Launch
    <2>4. trainings' \in [Ids -> Nat]
      BY <2>1, <2>3 DEF RetrainTypeOK
    <2> QED BY <2>1, <2>2, <2>3, <2>4 DEF RetrainTypeOK, RequestStates
  <1> QED BY <1>1, <1>2, <1>3, <1>5, <1>6, <1>7, <1>8, <1>9, <1>10, <1>11
          DEF RetrainNext, StoreStep, Work, allVars

LEMMA RetrainTypes == RetrainSpec => []RetrainTypeOK
  <1>1. RetrainInit => RetrainTypeOK
    BY RetrainAssumption DEF RetrainInit, RetrainTypeOK
  <1> QED BY <1>1, RetrainTypeStep, StoreInv, PTL DEF RetrainSpec

----------------------------------------------------------------------------
(* What the workers hold                                                   *)

LEMMA RowStays ==
    ASSUME TypeOK, [Next]_vars, NEW r \in Rows, status[r] # "absent"
    PROVE  status'[r] # "absent"
  <1>1. status \in [Rows -> Statuses] /\ pc \in [Callers -> Steps]
    BY DEF TypeOK
  <1>2. CASE UNCHANGED status
    BY <1>2
  <1>3. ASSUME NEW q \in Rows, NEW to \in Statuses \ {"absent"}, SetStatus(q, to)
        PROVE status'[r] # "absent"
    BY <1>1, <1>3 DEF SetStatus
  <1>4. \A c \in Callers : ~At(c, "idle") => row[c] \in Rows
    BY DEF TypeOK
  <1>5. UNCHANGED status \/ \E q \in Rows, to \in Statuses \ {"absent"} : SetStatus(q, to)
    <2>1. CASE \E c \in Requests, q \in Rows : Approve(c, q) \/ Reject(c, q) \/ Retry(c, q)
      BY <2>1 DEF Approve, Reject, Retry, Decide, Statuses
    <2>2. ASSUME NEW c \in Callers, ProposeInsert(c) \/ RecordOutcome(c)
          PROVE UNCHANGED status \/ \E q \in Rows, to \in Statuses \ {"absent"} : SetStatus(q, to)
      <3>1. row[c] \in Rows
        BY <1>4, <2>2 DEF ProposeInsert, RecordOutcome, At
      <3> QED BY <2>2, <3>1 DEF ProposeInsert, RecordOutcome, queueVars, Statuses
    <2>3. CASE \/ \E c \in Engines, q \in Rows : ProposeCheck(c, q)
               \/ \E c \in Callers : AutoCheck(c) \/ AutoStamp(c) \/ ExecuteLoad(c)
                                     \/ ExecuteAuthorise(c) \/ RunExecutor(c) \/ Abort(c)
               \/ UNCHANGED vars
      BY <2>3 DEF ProposeCheck, AutoCheck, AutoStamp, ExecuteLoad, ExecuteAuthorise,
             RunExecutor, Abort, vars, queueVars
    <2> QED BY <2>1, <2>2, <2>3 DEF Next, Advance
  <1> QED BY <1>2, <1>3, <1>5

\* Whatever a worker holds is a request of the table, whose action, if it is no
\* ghost, is on the queue.
HeldInv ==
    /\ \A w \in Workers : stale[w] \cup todo[w] \cup dirty[w] \subseteq Requested
    /\ \A w \in Workers : hand[w] \in Requested \cup {None}
    /\ \A i \in Requested : i \in Rows => status[i] # "absent"

\* The workers change no request but those they hold.
LEMMA WorkRow ==
    ASSUME RetrainTypeOK, HeldInv, NEW w \in Workers, Wake(w) \/ Work(w) \/ Crash(w),
           NEW i \in Ids
    PROVE  /\ \/ state'[i] = state[i] /\ outcomes'[i] = outcomes[i]
              \/ i \in Requested /\ Launch(w) /\ i = hand[w] /\ state'[i] = "running"
              \/ /\ i \in Requested /\ state'[i] \in {"done", "failed"}
                 /\ OnQueue(i) => outcomes'[i] = Append(outcomes[i], state'[i])
           /\ UNCHANGED <<vars, asked>>
  <1> USE DEF Stands, Go
  <1>1. UNCHANGED <<vars, asked>>
    BY DEF Wake, Work, Crash, Reap, Poll, Take, Refuse, NoTrainer, DryRun, Launch,
           TrainerEnds, Finalize, CycleEnd, Commit, requestVars, tableVars
  <1>2. CASE \/ Wake(w) \/ Crash(w) \/ Poll(w) \/ Take(w) \/ NoTrainer(w)
             \/ DryRun(w) \/ TrainerEnds(w)
    BY <1>1, <1>2 DEF Wake, Crash, Poll, Take, NoTrainer, DryRun, TrainerEnds,
           requestVars, tableVars
  <1>3. ASSUME NEW R \in SUBSET Requested, NEW to \in Settled, Commit(w, R, to),
               state'[i] # state[i] \/ outcomes'[i] # outcomes[i]
        PROVE i \in Requested
    BY <1>3 DEF Commit, HeldInv, RetrainTypeOK
  <1>4. /\ stale[w] \in SUBSET Requested /\ {} \in SUBSET Requested
        /\ Requested \subseteq Ids /\ {"failed", "done", "running"} \subseteq Settled
        /\ hand[w] # None => {hand[w]} \in SUBSET Requested
    BY DEF HeldInv, Requested, Settled
  <1>5. at[w] \in InHand => hand[w] \in Requested
    BY RetrainAssumption, ConstantsAssumption DEF RetrainTypeOK, HeldInv, InHand, Ids
  <1>6. CASE Launch(w)
    <2>1. Commit(w, {hand[w]}, "running") /\ hand[w] \in Requested /\ hand[w] \in Ids
      BY <1>4, <1>5, <1>6 DEF Launch, InHand
    <2>2. \/ state'[i] = state[i] /\ outcomes'[i] = outcomes[i]
          \/ state'[i] = "running" /\ i \in {hand[w]}
          \/ /\ state'[i] \in {"done", "failed"}
             /\ OnQueue(i) => outcomes'[i] = Append(outcomes[i], state'[i])
      BY <1>4, <2>1, CommitRow
    <2>3. state'[i] # state[i] \/ outcomes'[i] # outcomes[i] => i \in Requested
      BY <1>3, <1>4, <2>1
    <2> QED BY <1>1, <1>6, <2>1, <2>2, <2>3
  <1>7. ASSUME NEW R \in SUBSET Requested, NEW to \in {"done", "failed"}, Commit(w, R, to)
        PROVE \/ state'[i] = state[i] /\ outcomes'[i] = outcomes[i]
              \/ /\ i \in Requested /\ state'[i] \in {"done", "failed"}
                 /\ OnQueue(i) => outcomes'[i] = Append(outcomes[i], state'[i])
    <2>1. \/ state'[i] = state[i] /\ outcomes'[i] = outcomes[i]
          \/ /\ state'[i] \in {"done", "failed"}
             /\ OnQueue(i) => outcomes'[i] = Append(outcomes[i], state'[i])
      BY <1>4, <1>7, CommitRow
    <2> QED BY <1>3, <1>4, <1>7, <2>1
  <1>8. CASE Reap(w) \/ CycleEnd(w) \/ Refuse(w) \/ Finalize(w)
    <2>1. \E R \in SUBSET Requested, to \in {"done", "failed"} : Commit(w, R, to)
      BY <1>4, <1>5, <1>8 DEF Reap, CycleEnd, Refuse, Finalize, InHand
    <2> QED BY <1>1, <1>7, <2>1
  <1> QED BY <1>2, <1>6, <1>8 DEF Work

\* A request stays in the table with its model.
LEMMA RequestStays ==
    ASSUME TypeOK, RetrainTypeOK, HeldInv, [RetrainNext]_allVars, NEW i \in Requested
    PROVE  i \in Requested' /\ asked'[i] = asked[i]
  <1>1. i \in Ids /\ state[i] # "absent"
    BY DEF Requested
  <1>2. CASE UNCHANGED <<state, asked>>
    BY <1>1, <1>2 DEF Requested
  <1>3. CASE (\E c \in Callers : ExecuteRetrain(c)) \/ (\E s \in Strays : InsertByHand(s))
    BY <1>1, <1>2, <1>3, Inserts, InsertRow DEF Requested, requestVars, tableVars
  <1>4. ASSUME NEW w \in Workers, Wake(w) \/ Work(w) \/ Crash(w)
        PROVE i \in Requested' /\ asked'[i] = asked[i]
    BY <1>1, <1>4, WorkRow DEF Requested
  <1>5. CASE (\E j \in Ids : GrowOld(j)) \/ UNCHANGED retrainVars
    BY <1>2, <1>5 DEF GrowOld, retrainVars, requestVars, tableVars
  <1> QED BY <1>3, <1>4, <1>5 DEF RetrainNext, StoreStep, allVars

LEMMA HeldStep ==
    TypeOK /\ RowExists /\ RetrainTypeOK /\ HeldInv /\ [RetrainNext]_allVars => HeldInv'
  <1> SUFFICES ASSUME TypeOK, RowExists, RetrainTypeOK, HeldInv, [RetrainNext]_allVars
               PROVE HeldInv'
    OBVIOUS
  <1> USE DEF Stands, Go
  <1>a. [Next]_vars
    BY StoreMoves DEF allVars
  <1>b. Requested \subseteq Requested' /\ Requested \subseteq Ids
    BY RequestStays DEF Requested
  <1>c. \A r \in Rows : status[r] # "absent" => status'[r] # "absent"
    BY <1>a, RowStays
  <1>1. ASSUME UNCHANGED <<stale, todo, hand, dirty>>,
               \A j \in Requested' \ Requested : j \in Rows => status'[j] # "absent"
        PROVE HeldInv'
    BY <1>1, <1>b, <1>c DEF HeldInv
  <1>2. ASSUME NEW c \in Callers, ExecuteRetrain(c) PROVE HeldInv'
    <2>1. row[c] \in Rows /\ status[row[c]] # "absent"
      BY <1>2 DEF ExecuteRetrain, RunExecutor, At, RowExists, Retrains
    <2>2. Requested' \subseteq Requested \cup {row[c]}
      BY <1>2, <2>1 DEF ExecuteRetrain, Insert, Requested, RetrainTypeOK, requestVars, tableVars
    <2> QED BY <1>1, <1>2, <1>c, <2>1, <2>2 DEF ExecuteRetrain, workerVars
  <1>3. ASSUME NEW s \in Strays, InsertByHand(s) PROVE HeldInv'
    <2>1. Requested' \subseteq Requested \cup {s.action}
      BY <1>3 DEF InsertByHand, Insert, Requested, RetrainTypeOK
    <2> QED BY <1>1, <1>3, <1>c, <2>1 DEF InsertByHand, workerVars
  <1>4. CASE (\E j \in Ids : GrowOld(j)) \/ StoreStep \/ UNCHANGED allVars
    <2>1. Requested' = Requested /\ UNCHANGED workerVars
      BY <1>4 DEF GrowOld, StoreStep, allVars, retrainVars, requestVars, tableVars, Requested
    <2> QED BY <1>1, <2>1 DEF workerVars
  <1>5. ASSUME NEW w \in Workers, Wake(w) \/ Work(w) \/ Crash(w) PROVE HeldInv'
    <2>1. \A j \in Ids : j \in Requested' => j \in Requested
      BY <1>5, WorkRow DEF Requested
    <2>2. UNCHANGED status
      BY <1>5, WorkRow DEF vars, queueVars, Requested, Wake, Work, Crash, Reap, Poll, Take,
             Refuse, NoTrainer, DryRun, Launch, TrainerEnds, Finalize, CycleEnd, Commit
    <2>3. {j \in Ids : state[j] = "running" /\ age[j] = "stale"} \subseteq Requested
          /\ {j \in Ids : state[j] = "pending"} \subseteq Requested
      BY DEF Requested
    <2>4. Requested' = Requested
      BY <1>b, <2>1 DEF Requested
    <2> DEFINE Holds(v) == /\ stale[v] \cup todo[v] \cup dirty[v] \subseteq Requested
                           /\ hand[v] \in Requested \cup {None}
    <2>5. ASSUME NEW v \in Workers PROVE Holds(v)'
      <3>1. Holds(v) /\ Holds(w)
        BY DEF HeldInv
      <3>2. CASE v # w
        BY <1>5, <2>4, <3>1, <3>2 DEF RetrainTypeOK, Wake, Work, Crash, Reap, Poll, Take,
             Refuse, NoTrainer, DryRun, Launch, TrainerEnds, Finalize, CycleEnd, Commit, Done
      <3>3. CASE v = w
        <4>1. CASE Wake(w) \/ Poll(w) \/ Crash(w)
          BY <2>3, <2>4, <3>1, <3>3, <4>1 DEF RetrainTypeOK, Wake, Poll, Crash
        <4>2. CASE Take(w) \/ TrainerEnds(w) \/ DryRun(w)
          BY <2>4, <3>1, <3>3, <4>2 DEF RetrainTypeOK, Take, TrainerEnds, DryRun, Done
        <4>3. CASE NoTrainer(w)
          <5>1. hand[w] \in Requested
            BY <3>1, <4>3, RetrainAssumption, ConstantsAssumption DEF RetrainTypeOK, NoTrainer, Ids
          <5> QED BY <2>4, <3>1, <3>3, <4>3, <5>1 DEF RetrainTypeOK, NoTrainer, Done
        <4>4. CASE Reap(w) \/ CycleEnd(w) \/ Refuse(w) \/ Launch(w) \/ Finalize(w)
          BY <2>4, <3>1, <3>3, <4>4
             DEF RetrainTypeOK, Reap, CycleEnd, Refuse, Launch, Finalize, Commit, Done
        <4> QED BY <1>5, <4>1, <4>2, <4>3, <4>4 DEF Work
      <3> QED BY <3>2, <3>3
    <2> QED BY <2>2, <2>4, <2>5 DEF HeldInv
  <1> QED BY <1>2, <1>3, <1>4, <1>5 DEF RetrainNext

\* The invariants that the theorems below build on.
Ground == TypeOK /\ AuthorityInv /\ RowExists /\ RetrainTypeOK /\ HeldInv

LEMMA GroundInv == RetrainSpec => []Ground
  <1>1. Init => RowExists
    BY DEF Init, RowExists
  <1>2. Spec => []RowExists
    BY <1>1, RowExistsStep, TypeCorrect, PTL DEF Spec
  <1>3. RetrainInit => HeldInv
    BY DEF RetrainInit, HeldInv, Requested
  <1>4. RetrainSpec => []HeldInv
    BY <1>2, <1>3, HeldStep, StoreInv, StoreUndisturbed, RetrainTypes, PTL DEF RetrainSpec
  <1> QED BY <1>2, <1>4, StoreInv, StoreUndisturbed, RetrainTypes, PTL DEF Ground

\* Every variable stays in its type, for any number of rows and workers, of
\* which any may be dry runs; and a worker holds only requests of the table,
\* whose actions are on the queue.
THEOREM RetrainTypeCorrect == RetrainSpec => [](RetrainTypeOK /\ HeldInv)
  BY GroundInv, PTL DEF Ground

----------------------------------------------------------------------------
(* Only what a person approved is trained                                  *)

Governed(i) ==
    /\ i \in Retrains /\ Written(i, "approved") # {}
    /\ i \in Requested /\ asked[i] = Target[i]

\* The look-up settles it: approval, request and model stay what they are.
GovernInv ==
    /\ \A i \in Ids : trainings[i] > 0 => Governed(i)
    /\ \A w \in Workers : at[w] = "honoured" => Governed(hand[w])

LEMMA GovernedStays ==
    ASSUME Ground, [RetrainNext]_allVars, NEW i, Governed(i)
    PROVE  Governed(i)'
  <1>1. [Next]_vars
    BY StoreMoves DEF allVars
  <1>2. i \in Rows /\ i \in Requested
    BY DEF Governed, Retrains
  <1>3. Written(i, "approved")' # {}
    BY <1>1, <1>2, ApprovalStays DEF Governed, Ground
  <1>4. i \in Requested' /\ asked'[i] = asked[i]
    BY <1>2, RequestStays DEF Ground
  <1> QED BY <1>3, <1>4 DEF Governed

\* What authorise() accepts, a person approved: a retraining is not on the
\* allow-list of the automatic tier.
LEMMA HonouredIsGoverned ==
    ASSUME Ground, NEW i \in Requested, Honoured(i)
    PROVE  Governed(i)
  <1>1. i \in Retrains /\ ~AutoAllowed(Action[i])
    BY DEF Honoured, OnQueue, Retrains, AutoAllowed
  <1>2. Written(i, "auto_approved") = {}
    BY <1>1 DEF Ground, AuthorityInv, Retrains
  <1> QED BY <1>1, <1>2 DEF Governed, Honoured, Approved

\* The steps that start a training or accept a request.
LEMMA AcceptSteps ==
    ASSUME RetrainTypeOK, [RetrainNext]_allVars, NEW w \in Workers
    PROVE  /\ trainings' = trainings \/ \E v \in Workers : Launch(v)
           /\ at'[w] = "honoured" => Take(w) \/ (at[w] = "honoured" /\ hand'[w] = hand[w])
  <1> USE DEF Stands, Go
  <1>1. trainings' = trainings \/ \E v \in Workers : Launch(v)
    BY DEF RetrainNext, StoreStep, ExecuteRetrain, InsertByHand, GrowOld, Wake, Work, Crash,
           Reap, Poll, Take, Refuse, NoTrainer, DryRun, TrainerEnds, Finalize, CycleEnd,
           allVars, retrainVars
  <1>2. ASSUME at'[w] = "honoured", NEW v \in Workers, Wake(v) \/ Work(v) \/ Crash(v)
        PROVE Take(w) \/ (at[w] = "honoured" /\ hand'[w] = hand[w])
    <2>1. CASE v # w
      BY <1>2, <2>1 DEF RetrainTypeOK, Wake, Work, Crash, Reap, Poll, Take, Refuse, NoTrainer,
           DryRun, Launch, TrainerEnds, Finalize, CycleEnd, Done
    <2>2. CASE v = w
      BY <1>2, <2>2 DEF RetrainTypeOK, Wake, Work, Crash, Reap, Poll, Refuse, NoTrainer,
           DryRun, Launch, TrainerEnds, Finalize, CycleEnd, Done
    <2> QED BY <2>1, <2>2
  <1>3. ASSUME at'[w] = "honoured", UNCHANGED workerVars
        PROVE at[w] = "honoured" /\ hand'[w] = hand[w]
    BY <1>3 DEF workerVars
  <1>4. UNCHANGED workerVars \/ \E v \in Workers : Wake(v) \/ Work(v) \/ Crash(v)
    BY DEF RetrainNext, StoreStep, ExecuteRetrain, InsertByHand, GrowOld, allVars, retrainVars
  <1> QED BY <1>1, <1>2, <1>3, <1>4

\* Whoever writes the request, and whatever the callers of the store and any
\* number of workers do, a trainer has run only for a retrain_model action that
\* a person approved, and for its model.
THEOREM OnlyApprovedTrain == RetrainSpec => []NoUngovernedTraining
  <1>1. RetrainInit => GovernInv
    BY DEF RetrainInit, GovernInv
  <1>2. Ground /\ GovernInv /\ [RetrainNext]_allVars => GovernInv'
    <2> SUFFICES ASSUME Ground, GovernInv, [RetrainNext]_allVars PROVE GovernInv'
      OBVIOUS
    <2>a. RetrainTypeOK /\ HeldInv
      BY DEF Ground
    <2>1. ASSUME NEW i \in Ids, trainings'[i] > 0 PROVE Governed(i)'
      <3>1. CASE trainings' = trainings
        BY <2>1, <3>1, GovernedStays DEF GovernInv
      <3>2. ASSUME NEW v \in Workers, Launch(v) PROVE Governed(i)'
        <4>1. /\ at[v] = "honoured" /\ hand[v] \in Ids
              /\ trainings' = [trainings EXCEPT ![hand[v]] = @ + 1]
          BY <2>a, <3>2 DEF Launch, Stands, RetrainTypeOK
        <4>2. CASE i = hand[v]
          BY <4>1, <4>2, GovernedStays DEF GovernInv
        <4>3. CASE i # hand[v]
          BY <2>1, <2>a, <4>1, <4>3, GovernedStays DEF GovernInv, RetrainTypeOK
        <4> QED BY <4>2, <4>3
      <3>3. trainings' = trainings \/ \E v \in Workers : Launch(v)
        <4>1. CASE Workers = {}
          BY <4>1 DEF RetrainNext, StoreStep, ExecuteRetrain, InsertByHand, GrowOld,
                 allVars, retrainVars
        <4> QED BY <2>a, <4>1, AcceptSteps
      <3> QED BY <3>1, <3>2, <3>3
    <2>2. ASSUME NEW w \in Workers, at'[w] = "honoured" PROVE Governed(hand[w])'
      <3>1. CASE Take(w)
        <4>1. PICK i \in todo[w] : /\ hand' = [hand EXCEPT ![w] = i]
                                   /\ Go(w, IF Honoured(i) THEN "honoured" ELSE "refused")
          BY <3>1 DEF Take
        <4>2. i \in Requested /\ Honoured(i) /\ hand'[w] = i
          BY <2>2, <2>a, <4>1 DEF Go, HeldInv, RetrainTypeOK
        <4> QED BY <4>2, HonouredIsGoverned, GovernedStays
      <3>2. CASE at[w] = "honoured" /\ hand'[w] = hand[w]
        BY <3>2, GovernedStays DEF GovernInv
      <3> QED BY <2>2, <2>a, <3>1, <3>2, AcceptSteps
    <2> QED BY <2>1, <2>2 DEF GovernInv
  <1>3. GovernInv => NoUngovernedTraining
    BY DEF GovernInv, NoUngovernedTraining, Governed
  <1> QED BY <1>1, <1>2, <1>3, GroundInv, PTL DEF RetrainSpec

----------------------------------------------------------------------------
(* The audit log tells how a request stands                                *)

\* Whoever moves a request, to whatever end, does so as the log tells.
LEMMA LoopStep == Ground /\ LoopClosed /\ [RetrainNext]_allVars => LoopClosed'
  <1> SUFFICES ASSUME Ground, LoopClosed, [RetrainNext]_allVars, NEW i \in Rows
               PROVE  /\ state'[i] \in {"done", "failed"} =>
                            /\ outcomes'[i] # <<>>
                            /\ outcomes'[i][Len(outcomes'[i])] = state'[i]
                      /\ state'[i] \in {"absent", "pending"} => outcomes'[i] = <<>>
    BY DEF LoopClosed
  <1>1. i \in Ids /\ TypeOK /\ RetrainTypeOK /\ HeldInv
    BY DEF Ids, Ground
  <1>2. CASE state'[i] = state[i] /\ outcomes'[i] = outcomes[i]
    BY <1>2 DEF LoopClosed
  <1>3. CASE (\E c \in Callers : ExecuteRetrain(c)) \/ (\E s \in Strays : InsertByHand(s))
    <2>1. CASE UNCHANGED requestVars
      BY <1>2, <2>1 DEF requestVars, tableVars
    <2>2. ASSUME NEW j \in Ids, NEW m \in Models, Insert(j, m)
          PROVE /\ outcomes' = outcomes
                /\ state'[i] = state[i] \/ (state[i] = "absent" /\ state'[i] = "pending")
      BY <1>1, <2>2, InsertRow
    <2>3. \/ /\ outcomes' = outcomes
             /\ state'[i] = state[i] \/ (state[i] = "absent" /\ state'[i] = "pending")
          \/ UNCHANGED requestVars
      BY <1>1, <1>3, <2>2, Inserts
    <2> QED BY <2>1, <2>3 DEF LoopClosed
  <1>4. ASSUME NEW w \in Workers, Wake(w) \/ Work(w) \/ Crash(w)
        PROVE \/ state'[i] = state[i] /\ outcomes'[i] = outcomes[i]
              \/ state'[i] = "running"
              \/ /\ state'[i] \in {"done", "failed"}
                 /\ outcomes'[i] = Append(outcomes[i], state'[i])
    <2>1. i \in Requested => OnQueue(i)
      BY <1>1 DEF HeldInv, OnQueue
    <2> QED BY <1>1, <1>4, <2>1, WorkRow
  <1>5. ASSUME state'[i] \in {"done", "failed"}, outcomes'[i] = Append(outcomes[i], state'[i])
        PROVE outcomes'[i] # <<>> /\ outcomes'[i][Len(outcomes'[i])] = state'[i]
    <2>1. outcomes[i] \in Seq({"done", "failed"}) /\ Len(outcomes[i]) \in Nat
      BY <1>1 DEF RetrainTypeOK
    <2>2. ASSUME NEW to \in {"done", "failed"}
          PROVE LET log == Append(outcomes[i], to) IN log # <<>> /\ log[Len(log)] = to
      BY <2>1
    <2> QED BY <1>5, <2>2
  <1>6. CASE StoreStep \/ (\E j \in Ids : GrowOld(j)) \/ UNCHANGED allVars
    BY <1>2, <1>6 DEF StoreStep, GrowOld, allVars, retrainVars, requestVars, tableVars
  <1>7. CASE \E w \in Workers : Wake(w) \/ Work(w) \/ Crash(w)
    BY <1>2, <1>4, <1>5, <1>7
  <1> QED BY <1>3, <1>6, <1>7 DEF RetrainNext

\* Through crashes, a reaper in another process and workers that finish late,
\* the last outcome on the audit log is the status of the request, and no
\* outcome is there before the request is taken.
THEOREM OutcomeOnRecord == RetrainSpec => []LoopClosed
  <1>1. RetrainInit => LoopClosed
    BY DEF RetrainInit, LoopClosed, Ids
  <1> QED BY <1>1, LoopStep, GroundInv, PTL DEF RetrainSpec

----------------------------------------------------------------------------
(* One training run per request                                            *)

\* At most one of the workers trains (docker-compose.yml starts one).
OneTrainer == \A v, w \in Workers \ DryRuns : v = w

\* What the training worker has read and not begun has not been trained.
TrainInv ==
    /\ TrainsOnce
    /\ \A i \in Ids : state[i] \in {"absent", "pending"} => trainings[i] = 0
    /\ \A w \in Workers \ DryRuns :
          /\ \A i \in todo[w] : trainings[i] = 0
          /\ at[w] \in {"refused", "honoured"} =>
                trainings[hand[w]] = 0 /\ hand[w] \notin todo[w]

LEMMA TrainStep ==
    ASSUME OneTrainer
    PROVE  Ground /\ TrainInv /\ [RetrainNext]_allVars => TrainInv'
  <1> SUFFICES ASSUME Ground, TrainInv, [RetrainNext]_allVars PROVE TrainInv'
    OBVIOUS
  <1> USE DEF Stands, Go
  <1>1. TypeOK /\ RetrainTypeOK /\ HeldInv
    BY DEF Ground
  <1>2. CASE \/ \E c \in Callers : ExecuteRetrain(c)
             \/ \E s \in Strays : InsertByHand(s)
    <2>1. /\ \A i \in Ids : state'[i] \in {"absent", "pending"} =>
                               state[i] \in {"absent", "pending"}
          /\ UNCHANGED <<workerVars, trainings>>
      <3>1. CASE UNCHANGED requestVars
        BY <1>1, <1>2, <3>1, Inserts DEF requestVars, tableVars
      <3>2. ASSUME NEW j \in Ids, NEW m \in Models, Insert(j, m)
            PROVE \A i \in Ids : state'[i] \in {"absent", "pending"} =>
                                    state[i] \in {"absent", "pending"}
        BY <1>1, <3>2, InsertRow
      <3> QED BY <1>1, <1>2, <3>1, <3>2, Inserts
    <2> QED BY <2>1 DEF TrainInv, TrainsOnce, workerVars
  <1>3. CASE StoreStep \/ (\E j \in Ids : GrowOld(j)) \/ UNCHANGED allVars
    BY <1>3 DEF TrainInv, TrainsOnce, StoreStep, GrowOld, allVars, retrainVars, requestVars,
           tableVars, workerVars
  <1>4. ASSUME NEW w \in Workers, Wake(w) \/ Work(w) \/ Crash(w) PROVE TrainInv'
    <2>1. \A i \in Ids : state'[i] \in {"absent", "pending"} => state'[i] = state[i]
      BY <1>1, <1>4, WorkRow
    <2>2. CASE Launch(w)
      <3>1. /\ w \in Workers \ DryRuns /\ hand[w] \in Ids /\ hand[w] \notin todo[w]
            /\ trainings[hand[w]] = 0 /\ at' = [at EXCEPT ![w] = "training"]
            /\ trainings' = [trainings EXCEPT ![hand[w]] = @ + 1] /\ UNCHANGED <<todo, hand>>
        BY <1>1, <2>2 DEF Launch, TrainInv, RetrainTypeOK
      <3>2. state'[hand[w]] \notin {"absent", "pending"}
        BY <3>1, <2>2 DEF Launch, Commit
      <3>3. \A i \in Ids : trainings'[i] = IF i = hand[w] THEN 1 ELSE trainings[i]
        BY <1>1, <3>1 DEF RetrainTypeOK
      <3>4. TrainsOnce' /\ \A i \in Ids : state'[i] \in {"absent", "pending"} =>
                                             trainings'[i] = 0
        BY <2>1, <3>2, <3>3 DEF TrainInv, TrainsOnce
      <3>5. \A v \in Workers \ DryRuns : v = w
        BY <3>1 DEF OneTrainer
      <3>6. todo[w] \subseteq Ids /\ at'[w] = "training"
        BY <1>1, <3>1 DEF RetrainTypeOK
      <3> QED BY <3>1, <3>3, <3>4, <3>5, <3>6 DEF TrainInv
    <2>3. CASE ~Launch(w)
      <3>1. trainings' = trainings
        BY <1>4, <2>3 DEF Wake, Work, Crash, Reap, Poll, Take, Refuse, NoTrainer, DryRun,
             TrainerEnds, Finalize, CycleEnd
      <3>2. TrainsOnce' /\ \A i \in Ids : state'[i] \in {"absent", "pending"} =>
                                             trainings'[i] = 0
        BY <2>1, <3>1 DEF TrainInv, TrainsOnce
      <3>3. ASSUME NEW v \in Workers \ DryRuns
            PROVE  /\ \A i \in todo'[v] : trainings[i] = 0
                   /\ at'[v] \in {"refused", "honoured"} =>
                         trainings[hand'[v]] = 0 /\ hand'[v] \notin todo'[v]
        <4>1. CASE Poll(w)
          BY <1>1, <3>3, <4>1 DEF TrainInv, RetrainTypeOK, Poll
        <4>2. CASE Take(w)
          BY <1>1, <3>3, <4>2 DEF TrainInv, RetrainTypeOK, Take
        <4>3. CASE Wake(w) \/ Crash(w) \/ Reap(w) \/ NoTrainer(w) \/ DryRun(w)
          BY <1>1, <3>3, <4>3
             DEF TrainInv, RetrainTypeOK, Wake, Crash, Reap, NoTrainer, DryRun, Done
        <4>4. CASE Refuse(w) \/ TrainerEnds(w) \/ Finalize(w) \/ CycleEnd(w)
          BY <1>1, <3>3, <4>4
             DEF TrainInv, RetrainTypeOK, Refuse, TrainerEnds, Finalize, CycleEnd, Done
        <4> QED BY <1>4, <2>3, <4>1, <4>2, <4>3, <4>4 DEF Work
      <3> QED BY <3>1, <3>2, <3>3 DEF TrainInv
    <2> QED BY <2>2, <2>3
  <1> QED BY <1>2, <1>3, <1>4 DEF RetrainNext

\* With one training worker, beside any number of dry runs, a request is
\* trained at most once, however often its executor is run again.
THEOREM SingleWorkerTrainsOnce ==
    ASSUME OneTrainer
    PROVE  RetrainSpec => []TrainsOnce
  <1>1. RetrainInit => TrainInv
    BY DEF RetrainInit, TrainInv, TrainsOnce
  <1>2. TrainInv => TrainsOnce
    BY DEF TrainInv
  <1> QED BY <1>1, <1>2, TrainStep, GroundInv, PTL DEF RetrainSpec
=============================================================================
