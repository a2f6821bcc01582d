-------------------------- MODULE MCRetrainWorker --------------------------
(***************************************************************************)
(* One auto-tier note; two approval_required retrainings of one scope, so  *)
(* that the second is suppressed while the first is open, one of a model   *)
(* that has no trainer; and a retraining of the auto tier, which the       *)
(* allow-list keeps out.  Two engines propose, two people decide.          *)
(***************************************************************************)
EXTENDS RetrainWorker, TLC

CONSTANTS note, drift, shift, eager, ghost, session, registry, category,
          fraud, other, watch, dry, bus, reconciler, alice, bob

MCAction == (note :> "log_event_note")
            @@ [r \in {drift, shift, eager} |-> "retrain_model"]
MCTier == [r \in {note, eager} |-> "auto"]
          @@ [r \in {drift, shift} |-> "approval_required"]
MCScope == (note :> session) @@ (eager :> category)
           @@ [r \in {drift, shift} |-> registry]
MCTarget == (shift :> other) @@ [r \in {drift, eager} |-> fraud]

\* Requests written by hand: about an action that does not exist, about one
\* that is no retraining, and about a retraining, with another model or perhaps
\* before its approval.
MCStrays == {[action |-> ghost, model |-> fraud], [action |-> note, model |-> fraud],
             [action |-> drift, model |-> other], [action |-> drift, model |-> fraud]}
MCFleets == {{}, {watch}, {watch, dry}}

-----------------------------------------------------------------------------
(* Scenes.  No fairness condition is about the steps that these cut.       *)

\* Rows of different scopes share no state, only callers: a behaviour is about
\* the rows of one scope.
Touched == {r \in Rows : status[r] # "absent" \/ \E c \in Callers : row[c] = r}

OneScopeAtATime == \A q, r \in Touched' : Scope[q] = Scope[r]

ByExecutor == Requested' # Requested => attempts' # attempts

\* Without workers all callers act, and the second row is not retried.
StoreAlone ==
    deployed = {} => ByExecutor /\ Written(shift, "retrying")' = {}

\* With workers one engine proposes a row once, one person decides on the
\* retrainings and no call is cut short; a worker wakes when there is a request
\* and dies while there is only one; the dry run has one, the executor's.
StoreAndWorkers ==
    deployed # {} =>
        /\ row'[reconciler] = None /\ row'[bob] = None /\ row'[alice] # note
        /\ row'[bus] \notin {None, row[bus]} => status[row'[bus]] = "absent"
        /\ aborted' = {}
        /\ \E scene \in {{note}, {eager}, {drift, shift}, {shift, ghost}} :
              Touched' \cup Requested' \subseteq scene
        /\ Cardinality(Requested') = 2 => crashes' = 0
        /\ deployed = {watch, dry} => Touched' \subseteq {drift} /\ ByExecutor /\ crashes' = 0
        /\ Requested = {} => at' = at

Scenes == OneScopeAtATime /\ StoreAlone /\ StoreAndWorkers
=============================================================================
