---------------------------- MODULE RetrainWorker ----------------------------
(***************************************************************************)
(* The retrain worker (ml/monitor/retrain_worker.py) beside the approval   *)
(* store it answers to.  The store's retrain_model executor writes a row   *)
(* of gold.retrain_requests, at most one per action id; each worker        *)
(* process loops: fail the runs a crashed worker left 'running', read the  *)
(* pending requests once, and work through them in order of id: look the   *)
(* action and its approval up in the store, then refuse, or train in a     *)
(* subprocess and write the outcome.  Every commit is a step, and workers  *)
(* may run side by side (the compose service, and the one-shot command of  *)
(* the Makefile).  A request may also be written into the table by hand.   *)
(***************************************************************************)
EXTENDS ActionQueue

CONSTANTS Ghosts,     \* action ids that no action has
          Target,     \* Target[r]: the model that the retrain_model action r names
          Trainable,  \* models with a trainer mapped
          Strays,     \* requests that somebody may write by hand: [action, model]
          Workers,    \* worker processes
          Fleets,     \* the sets of them to consider as started
          DryRuns,    \* those started with --dry-run
          MaxCrashes  \* bound: worker processes that die

Ids == Rows \cup Ghosts
Retrains == {r \in Rows : Action[r] = "retrain_model"}
Models == {Target[r] : r \in Retrains} \cup {s.model : s \in Strays}

ASSUME RetrainAssumption ==
    /\ Ghosts \cap Rows = {} /\ None \notin Ghosts
    /\ DOMAIN Target = Retrains
    /\ \A s \in Strays : s.action \in Ids
    /\ DryRuns \subseteq Workers /\ Fleets \subseteq SUBSET Workers
    /\ MaxCrashes \in Nat

VARIABLES
    state,       \* gold.retrain_requests.status, by action id (UNIQUE)
    asked,       \* its model
    earlier,     \* the requests with a smaller id
    age,         \* started_at: null, within or beyond STALE_RUNNING
    outcomes,    \* the 'outcome' entries of the audit log, by the status in them
    at,          \* where each worker stands in its loop
    stale,       \* stale[w]: the requests w read as interrupted
    todo,        \* todo[w]: the pending requests w read and has not taken
    hand,        \* hand[w]: the request w has taken, or None
    dirty,       \* dirty[w]: requests w finalised in a transaction still open
    trainings,   \* how often a trainer was launched for a request (history)
    crashes,
    deployed     \* the workers that are started at all

tableVars == <<state, asked, earlier, age>>
requestVars == <<tableVars, outcomes>>
workerVars == <<at, stale, todo, hand, dirty>>
fleetVars == <<crashes, deployed>>
retrainVars == <<requestVars, workerVars, trainings, fleetVars>>
allVars == <<vars, retrainVars>>

RetrainInit ==
    /\ Init
    /\ state = [i \in Ids |-> "absent"]
    /\ asked = [i \in Ids |-> None]
    /\ earlier = [i \in Ids |-> {}]
    /\ age = [i \in Ids |-> "none"]
    /\ outcomes = [i \in Ids |-> <<>>]
    /\ at = [w \in Workers |-> "sleep"]
    /\ stale = [w \in Workers |-> {}]
    /\ todo = [w \in Workers |-> {}]
    /\ hand = [w \in Workers |-> None]
    /\ dirty = [w \in Workers |-> {}]
    /\ trainings = [i \in Ids |-> 0]
    /\ crashes = 0
    /\ deployed \in Fleets

----------------------------------------------------------------------------
(* Requests                                                                *)

Requested == {i \in Ids : state[i] # "absent"}

\* Mutant: the statement re-arms a request that is there already.
InsertRearms(i, m) ==
    /\ state' = [state EXCEPT ![i] = "pending"]
    /\ asked' = [asked EXCEPT ![i] = m]
    /\ earlier' = [earlier EXCEPT ![i] = Requested \ {i}]
    /\ UNCHANGED <<age, outcomes>>

\* INSERT ... ON CONFLICT (action_id) DO NOTHING.
Insert(i, m) ==
    IF state[i] # "absent" THEN UNCHANGED requestVars
    ELSE /\ state' = [state EXCEPT ![i] = "pending"]
         /\ asked' = [asked EXCEPT ![i] = m]
         /\ earlier' = [earlier EXCEPT ![i] = Requested]
         /\ UNCHANGED <<age, outcomes>>

\* The retrain_model executor: its statement takes effect, whatever answer
\* arrives, or it fails without.
ExecuteRetrain(c) ==
    /\ row[c] \in Retrains /\ RunExecutor(c)
    /\ \/ effects'[row[c]] = 1 /\ Insert(row[c], Target[row[c]])
       \/ /\ pc'[c] = "failed" /\ effects'[row[c]] = effects[row[c]]
          /\ UNCHANGED requestVars
    /\ UNCHANGED <<workerVars, trainings, fleetVars>>

\* Every other step of the store.
StoreStep ==
    /\ Next
    /\ \A r \in Retrains : attempts'[r] = attempts[r]
    /\ UNCHANGED retrainVars

\* Somebody writes a request past the store, about an action that is on the
\* queue or an id that is on none.
InsertByHand(s) ==
    /\ s.action \in Rows => status[s.action] # "absent"
    /\ state[s.action] = "absent"
    /\ Insert(s.action, s.model)
    /\ UNCHANGED <<vars, workerVars, trainings, fleetVars>>

\* started_at falls behind now() - STALE_RUNNING: a training may take longer.
GrowOld(i) ==
    /\ state[i] = "running" /\ age[i] = "recent"
    /\ age' = [age EXCEPT ![i] = "stale"]
    /\ UNCHANGED <<vars, state, asked, earlier, outcomes, workerVars, trainings, fleetVars>>

----------------------------------------------------------------------------
(* Transactions                                                            *)

OnQueue(i) == i \in Rows /\ status[i] # "absent"

\* A row another worker has updated and not committed makes an update wait.
Locked(w, R) == \E v \in Workers \ {w} : dirty[v] \cap R # {}

\* Commit: requests R become `to`, and those finalised earlier in the same
\* transaction become visible as failed; each final status with its audit row,
\* when there is an action to refer to.
Commit(w, R, to) ==
    LET written(i) == IF i \in R THEN to ELSE "failed"
        touched == R \cup dirty[w]
        logged == IF to = "running" THEN touched \ R ELSE touched
    IN
    /\ ~Locked(w, R)
    /\ state' = [i \in Ids |-> IF i \in touched THEN written(i) ELSE state[i]]
    /\ outcomes' = [i \in Ids |->
                       IF i \in logged /\ OnQueue(i)
                       THEN Append(outcomes[i], written(i)) ELSE outcomes[i]]
    /\ dirty' = [dirty EXCEPT ![w] = {}]
    /\ UNCHANGED <<vars, asked, earlier, fleetVars>>

Stands(w, where) == at[w] = where
Go(w, where) == at' = [at EXCEPT ![w] = where]

----------------------------------------------------------------------------
(* One cycle of main()                                                     *)

\* The SELECT of reap_stale_running.
Wake(w) ==
    /\ Stands(w, "sleep") /\ w \in deployed
    /\ stale' = [stale EXCEPT ![w] =
                    {i \in Ids : state[i] = "running" /\ age[i] = "stale"}]
    /\ Go(w, "reap")
    /\ UNCHANGED <<vars, requestVars, todo, hand, dirty, trainings, fleetVars>>

\* Mutant: the interrupted requests are put back into the queue.
ReapRequeues(w) ==
    /\ Stands(w, "reap")
    /\ state' = [i \in Ids |-> IF i \in stale[w] THEN "pending" ELSE state[i]]
    /\ stale' = [stale EXCEPT ![w] = {}]
    /\ Go(w, "poll")
    /\ UNCHANGED <<vars, asked, earlier, age, outcomes, todo, hand, dirty, trainings, fleetVars>>

\* Its UPDATEs, WHERE id only, and the audit rows.
Reap(w) ==
    /\ Stands(w, "reap")
    /\ Commit(w, stale[w], "failed")
    /\ stale' = [stale EXCEPT ![w] = {}]
    /\ Go(w, "poll")
    /\ UNCHANGED <<age, todo, hand, trainings>>

Poll(w) ==
    /\ Stands(w, "poll")
    /\ todo' = [todo EXCEPT ![w] = {i \in Ids : state[i] = "pending"}]
    /\ Go(w, "next")
    /\ UNCHANGED <<vars, requestVars, stale, hand, dirty, trainings, fleetVars>>

\* Leaving the connection's block commits; then sleep, or the process ends.
CycleEnd(w) ==
    /\ Stands(w, "next") /\ todo[w] = {}
    /\ Commit(w, {}, "failed")
    /\ Go(w, "sleep")
    /\ UNCHANGED <<age, stale, todo, hand, trainings>>

----------------------------------------------------------------------------
(* process_request                                                         *)

Approved(r) == Written(r, "approved") \cup Written(r, "auto_approved") # {}

\* Mutant: the action exists and fits, its approval is not asked for.
HonouredUnapproved(i) ==
    OnQueue(i) /\ Action[i] = "retrain_model" /\ Target[i] = asked[i]

\* authorise().
Honoured(i) ==
    /\ OnQueue(i)
    /\ Action[i] = "retrain_model"
    /\ Approved(i)
    /\ Target[i] = asked[i]

\* The next of the requests read, in order of id, is looked up in the store.
Take(w) ==
    /\ Stands(w, "next")
    /\ \E i \in todo[w] :
          /\ todo[w] \cap earlier[i] = {}
          /\ hand' = [hand EXCEPT ![w] = i]
          /\ todo' = [todo EXCEPT ![w] = @ \ {i}]
          /\ Go(w, IF Honoured(i) THEN "honoured" ELSE "refused")
    /\ UNCHANGED <<vars, requestVars, stale, dirty, trainings, fleetVars>>

Done(w) == Go(w, "next") /\ hand' = [hand EXCEPT ![w] = None]

Refuse(w) ==
    /\ Stands(w, "refused")
    /\ Commit(w, {hand[w]}, "failed")
    /\ Done(w)
    /\ UNCHANGED <<age, stale, todo, trainings>>

\* finalize() without a commit of its own.
NoTrainer(w) ==
    /\ Stands(w, "honoured") /\ asked[hand[w]] \notin Trainable
    /\ ~Locked(w, {hand[w]})
    /\ dirty' = [dirty EXCEPT ![w] = @ \cup {hand[w]}]
    /\ Done(w)
    /\ UNCHANGED <<vars, requestVars, stale, todo, trainings, fleetVars>>

DryRun(w) ==
    /\ Stands(w, "honoured") /\ asked[hand[w]] \in Trainable
    /\ w \in DryRuns
    /\ Done(w)
    /\ UNCHANGED <<vars, requestVars, stale, todo, dirty, trainings, fleetVars>>

\* Mutant: started_at is not set, so no cycle will find the run again.
LaunchUntimed(w) ==
    /\ Stands(w, "honoured") /\ asked[hand[w]] \in Trainable
    /\ w \notin DryRuns
    /\ Commit(w, {hand[w]}, "running")
    /\ trainings' = [trainings EXCEPT ![hand[w]] = @ + 1]
    /\ Go(w, "training")
    /\ UNCHANGED <<age, stale, todo, hand>>

\* UPDATE ... 'running' WHERE id only, commit, and the trainer is started.
Launch(w) ==
    /\ Stands(w, "honoured") /\ asked[hand[w]] \in Trainable
    /\ w \notin DryRuns
    /\ Commit(w, {hand[w]}, "running")
    /\ age' = [age EXCEPT ![hand[w]] = "recent"]
    /\ trainings' = [trainings EXCEPT ![hand[w]] = @ + 1]
    /\ Go(w, "training")
    /\ UNCHANGED <<stale, todo, hand>>

TrainerEnds(w) ==
    /\ Stands(w, "training")
    /\ Go(w, "done") \/ Go(w, "failed")
    /\ UNCHANGED <<vars, requestVars, stale, todo, hand, dirty, trainings, fleetVars>>

\* Mutant: the request is finished, the audit row is forgotten.
FinalizeUnlogged(w) ==
    /\ at[w] \in {"done", "failed"}
    /\ state' = [state EXCEPT ![hand[w]] = at[w]]
    /\ Done(w)
    /\ UNCHANGED <<vars, asked, earlier, age, outcomes, stale, todo, dirty, trainings, fleetVars>>

\* finalize() and commit: WHERE id only, whatever happened meanwhile.
Finalize(w) ==
    /\ at[w] \in {"done", "failed"}
    /\ Commit(w, {hand[w]}, at[w])
    /\ Done(w)
    /\ UNCHANGED <<age, stale, todo, trainings>>

\* The process dies, or an exception ends it: the open transaction rolls back.
Crash(w) ==
    /\ ~Stands(w, "sleep") /\ crashes < MaxCrashes
    /\ crashes' = crashes + 1
    /\ Go(w, "sleep")
    /\ stale' = [stale EXCEPT ![w] = {}]
    /\ todo' = [todo EXCEPT ![w] = {}]
    /\ hand' = [hand EXCEPT ![w] = None]
    /\ dirty' = [dirty EXCEPT ![w] = {}]
    /\ UNCHANGED <<vars, requestVars, trainings, deployed>>

----------------------------------------------------------------------------
Work(w) ==
    \/ Reap(w)
    \/ Poll(w)
    \/ Take(w)
    \/ Refuse(w)
    \/ NoTrainer(w)
    \/ DryRun(w)
    \/ Launch(w)
    \/ TrainerEnds(w)
    \/ Finalize(w)
    \/ CycleEnd(w)

RetrainNext ==
    \/ StoreStep
    \/ \E c \in Callers : ExecuteRetrain(c)
    \/ \E s \in Strays : InsertByHand(s)
    \/ \E i \in Ids : GrowOld(i)
    \/ \E w \in Workers : Wake(w) \/ Work(w) \/ Crash(w)

RetrainSpec == RetrainInit /\ [][RetrainNext]_allVars

\* Beside the store's own fairness: a process that runs gets on, a trainer
\* comes to an end, the watching worker polls for ever and is restarted when it
\* dies, and time passes.  Nobody has to start a dry run, or to look at an
\* empty table.
WakeForRequest(w) == Requested # {} /\ Wake(w)

RetrainFairness ==
    /\ Fairness
    /\ \A w \in Workers : WF_allVars(Work(w))
    /\ \A w \in Workers \ DryRuns : WF_allVars(WakeForRequest(w))
    /\ WF_allVars(\E i \in Ids : GrowOld(i))

RetrainFairSpec == RetrainSpec /\ RetrainFairness

----------------------------------------------------------------------------
(* Properties                                                              *)

RetrainTypeOK ==
    /\ state \in [Ids -> {"absent", "pending", "running", "done", "failed"}]
    /\ asked \in [Ids -> Models \cup {None}]
    /\ earlier \in [Ids -> SUBSET Ids]
    /\ age \in [Ids -> {"none", "recent", "stale"}]
    /\ outcomes \in [Ids -> Seq({"done", "failed"})]
    /\ at \in [Workers -> {"sleep", "reap", "poll", "next", "refused", "honoured",
                           "training", "done", "failed"}]
    /\ stale \in [Workers -> SUBSET Ids]
    /\ todo \in [Workers -> SUBSET Ids]
    /\ hand \in [Workers -> Ids \cup {None}]
    /\ dirty \in [Workers -> SUBSET Ids]
    /\ trainings \in [Ids -> Nat]
    /\ crashes \in 0 .. MaxCrashes /\ deployed \in Fleets
    /\ \A w \in Workers :
          at[w] \in {"refused", "honoured", "training", "done", "failed"} => hand[w] \in Ids

\* "A row inserted straight into gold.retrain_requests trains nothing": whoever
\* wrote the request and whatever its action went through meanwhile, a trainer
\* has run only for a retrain_model action that a person approved - the
\* automatic tier never lets one through - and for the model that action names.
NoUngovernedTraining ==
    \A i \in Ids : trainings[i] > 0 =>
        i \in Retrains /\ Written(i, "approved") # {} /\ asked[i] = Target[i]

\* The loop approved -> execute -> outcome is closed on the audit log: the last
\* outcome row tells how the request stands, through crashes, a reaper and a
\* worker that finishes late; and nothing is reported before a request is taken.
LoopClosed ==
    \A i \in Rows :
        /\ state[i] \in {"done", "failed"} =>
              /\ outcomes[i] # <<>>
              /\ outcomes[i][Len(outcomes[i])] = state[i]
        /\ state[i] \in {"absent", "pending"} => outcomes[i] = <<>>

\* One approval, one training run, even when the executor is run again by a
\* retry: "another training run is a governed effect, and the approval that
\* authorised the first attempt should be looked at before one more"
\* (reap_stale_running).
TrainsOnce == \A i \in Ids : trainings[i] <= 1

\* A request comes to an outcome a human sees, even when the worker dies in the
\* middle of its training (process_request, reap_stale_running).
EveryRequestSettles ==
    deployed \ DryRuns # {} =>
        \A i \in Ids : state[i] = "pending" ~> state[i] \in {"done", "failed"}
=============================================================================
