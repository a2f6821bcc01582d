---------------------------- MODULE ActionQueue ----------------------------
(***************************************************************************)
(* The approval store of api/internal/actions: gold.action_queue and       *)
(* gold.action_audit_log in Postgres, and every operation the service      *)
(* offers on them.  An operation is a goroutine that issues several SQL    *)
(* statements; each statement (or transaction) is one action here, so all  *)
(* interleavings of concurrent callers are explored.                       *)
(*                                                                         *)
(* A queue row is identified by its dedup_key, which the table keeps       *)
(* UNIQUE: a row of Rows exists when its status is not "absent".  The      *)
(* engine goroutines (the live bus consumer and the reconciler) propose    *)
(* rows and run the auto tier; HTTP requests approve, reject and retry.    *)
(* A caller may stop between any two statements: a database error, a       *)
(* request whose client went away (the request context is cancelled), or   *)
(* a crash of the process, which stops all of them.                        *)
(***************************************************************************)
EXTENDS Naturals, Sequences, FiniteSets

CONSTANTS Rows,        \* dedup keys of the proposals that may be made
          Action,      \* Action[r]: the executor that row r names
          Tier,        \* Tier[r]: "auto" or "approval_required"
          Scope,       \* Scope[r]: rule + entity, or NoEntity
          NoEntity,    \* the empty entity: its proposals are never suppressed
          Engines,     \* goroutines inside playbook.Engine.propose
          Requests,    \* HTTP requests that approve, reject or retry
          None,        \* no row
          MaxRetries   \* bound: retries of one row

Executors == {"hold_order_for_review", "release_order", "draft_purchase_order",
              "log_retention_email", "propose_retention_offer",
              "retrain_model", "log_event_note"}

ASSUME ConstantsAssumption ==
    /\ Action \in [Rows -> Executors]
    /\ Tier \in [Rows -> {"auto", "approval_required"}]
    /\ None \notin Rows
    /\ MaxRetries \in Nat

Callers == Engines \cup Requests
Statuses == {"absent", "pending", "approved", "rejected", "executed", "failed"}
Transitions == {"proposed", "auto_approved", "approved", "rejected",
                "executed", "failed", "retrying"}

VARIABLES
    status,    \* gold.action_queue.status, by row
    audit,     \* gold.action_audit_log, by row, in order of id
    pc,        \* the statement each caller is about to run
    row,       \* the row each caller works on
    effects,   \* how often the business effect of a row was applied
    attempts,  \* how often the executor of a row was started (history)
    aborted    \* the rows a call gave up on half-way (history)

queueVars == <<status, audit>>
callVars == <<pc, row>>
historyVars == <<attempts, aborted>>
vars == <<queueVars, callVars, effects, historyVars>>

\* "executed" and "failed": about to record that outcome.
Steps == {"idle", "insert", "auto", "stamp", "load", "authorise", "run",
          "executed", "failed"}

Init ==
    /\ status = [r \in Rows |-> "absent"]
    /\ audit = [r \in Rows |-> <<>>]
    /\ pc = [c \in Callers |-> "idle"]
    /\ row = [c \in Callers |-> None]
    /\ effects = [r \in Rows |-> 0]
    /\ attempts = [r \in Rows |-> 0]
    /\ aborted = {}

----------------------------------------------------------------------------
\* The audit log is only ever appended to, in the database too.
Written(r, tr) == {i \in DOMAIN audit[r] : audit[r][i] = tr}
Log(r, tr) == audit' = [audit EXCEPT ![r] = Append(@, tr)]

SetStatus(r, to) == status' = [status EXCEPT ![r] = to]

Start(c, r, step) ==
    /\ pc' = [pc EXCEPT ![c] = step]
    /\ row' = [row EXCEPT ![c] = r]

Goto(c, step) ==
    /\ pc' = [pc EXCEPT ![c] = step]
    /\ UNCHANGED row

Return(c) == Start(c, None, "idle")

At(c, step) == pc[c] = step

----------------------------------------------------------------------------
(* Propose: one transaction under an advisory lock on (rule, entity)       *)

\* Mutant: the allow-list is not consulted.
AutoAllowedToAll(action) == TRUE

\* autoAllowList: reversible, informational effects only.
AutoAllowed(action) == action \in {"log_event_note", "log_retention_email"}

TierAccepted(r) == Tier[r] = "auto" => AutoAllowed(Action[r])

\* Mutant: the transaction takes no advisory lock.
ScopeNeverLocked(r) == FALSE

\* pg_advisory_xact_lock: held from the check of the open proposals to the
\* commit of the insert, and released by a rollback.
ScopeLocked(r) ==
    \E d \in Callers : At(d, "insert") /\ Scope[row[d]] = Scope[r]

OpenInScope(r) ==
    \E q \in Rows : Scope[q] = Scope[r] /\ status[q] = "pending"

ProposeCheck(c, r) ==
    /\ At(c, "idle")
    /\ TierAccepted(r)
    /\ Scope[r] # NoEntity => ~ScopeLocked(r) /\ ~OpenInScope(r)
    /\ Start(c, r, "insert")
    /\ UNCHANGED <<queueVars, effects, historyVars>>

\* INSERT ... ON CONFLICT (dedup_key) DO NOTHING, then the 'proposed' audit
\* row, then commit.  The engine carries on with an auto-tier row.
ProposeInsert(c) ==
    LET r == row[c] IN
    /\ At(c, "insert")
    /\ UNCHANGED <<effects, historyVars>>
    /\ \/ /\ status[r] # "absent"
          /\ Return(c)
          /\ UNCHANGED queueVars
       \/ /\ status[r] = "absent"
          /\ SetStatus(r, "pending")
          /\ Log(r, "proposed")
          /\ IF Tier[r] = "auto" THEN Goto(c, "auto") ELSE Return(c)

----------------------------------------------------------------------------
(* Decisions of a human, and retries                                       *)

\* Mutant: the UPDATE has lost its condition on the status.
DecideAnyStatus(c, r, to) ==
    /\ At(c, "idle")
    /\ status[r] # "absent" /\ Written(r, to) = {}
    /\ SetStatus(r, to)
    /\ Log(r, to)

\* Mutant: the status is committed and the audit row is not.
DecideUnlogged(c, r, to) ==
    /\ At(c, "idle")
    /\ status[r] = "pending"
    /\ SetStatus(r, to)
    /\ UNCHANGED audit

\* UPDATE ... WHERE status = 'pending' and the audit row, in one transaction.
Decide(c, r, to) ==
    /\ At(c, "idle")
    /\ status[r] = "pending"
    /\ SetStatus(r, to)
    /\ Log(r, to)

\* Mutant: the error of decide() is ignored and the row is executed.
ApproveDespiteError(c, r) ==
    /\ At(c, "idle")
    /\ IF status[r] = "pending"
       THEN SetStatus(r, "approved") /\ Log(r, "approved")
       ELSE UNCHANGED queueVars
    /\ Start(c, r, "load")
    /\ UNCHANGED <<effects, historyVars>>

Approve(c, r) ==
    /\ Decide(c, r, "approved")
    /\ Start(c, r, "load")
    /\ UNCHANGED <<effects, historyVars>>

Reject(c, r) ==
    /\ Decide(c, r, "rejected")
    /\ UNCHANGED <<callVars, effects, historyVars>>

\* Mutant: the re-arm writes the transition's name into the status.
RetryMislabelled(c, r) ==
    /\ At(c, "idle")
    /\ status[r] = "failed"
    /\ SetStatus(r, "retrying")
    /\ Log(r, "retrying")
    /\ Start(c, r, "load")
    /\ UNCHANGED <<effects, historyVars>>

\* Mutant: the re-arm has lost its condition on 'failed'.
RetryAnyStatus(c, r) ==
    /\ At(c, "idle")
    /\ status[r] \in {"failed", "approved"}
    /\ Cardinality(Written(r, "retrying")) < MaxRetries
    /\ SetStatus(r, "approved")
    /\ Log(r, "retrying")
    /\ Start(c, r, "load")
    /\ UNCHANGED <<effects, historyVars>>

\* UPDATE ... WHERE status = 'failed' and the 'retrying' row, in one
\* transaction; a caller that matches no row returns ErrInvalidState.
Retry(c, r) ==
    /\ At(c, "idle")
    /\ status[r] = "failed"
    /\ Cardinality(Written(r, "retrying")) < MaxRetries
    /\ SetStatus(r, "approved")
    /\ Log(r, "retrying")
    /\ Start(c, r, "load")
    /\ UNCHANGED <<effects, historyVars>>

----------------------------------------------------------------------------
(* AutoApproveAndExecute: three separate statements, no transaction        *)

\* SELECT risk_tier, action, status: every guard is on what it returned.
AutoCheck(c) ==
    LET r == row[c] IN
    /\ At(c, "auto")
    /\ IF Tier[r] = "auto" /\ AutoAllowed(Action[r]) /\ status[r] = "pending"
       THEN Goto(c, "stamp")
       ELSE Return(c)
    /\ UNCHANGED <<queueVars, effects, historyVars>>

AutoStamp(c) ==
    /\ At(c, "stamp")
    /\ Log(row[c], "auto_approved")
    /\ Goto(c, "load")
    /\ UNCHANGED <<status, effects, historyVars>>

----------------------------------------------------------------------------
(* execute and recordOutcome                                               *)

\* SELECT ... FROM action_queue: the status the rest of the call relies on.
ExecuteLoad(c) ==
    /\ At(c, "load")
    /\ IF status[row[c]] \in {"pending", "approved"}
       THEN Goto(c, "authorise")
       ELSE Return(c)
    /\ UNCHANGED <<queueVars, effects, historyVars>>

\* SELECT EXISTS (... transition IN ('approved', 'auto_approved')).
ExecuteAuthorise(c) ==
    /\ At(c, "authorise")
    /\ IF Written(row[c], "approved") \cup Written(row[c], "auto_approved") # {}
       THEN Goto(c, "run")
       ELSE Return(c)
    /\ UNCHANGED <<queueVars, effects, historyVars>>

\* Upserts and inserts guarded by a natural key change nothing a second
\* time; log_event_note is a plain INSERT.
Applied(r) ==
    IF Action[r] = "log_event_note" THEN effects[r] + 1 ELSE 1

\* The executor returns nil, or an error without effect, or an error after
\* its statement took effect (the answer was lost, the context cancelled).
RunExecutor(c) ==
    LET r == row[c] IN
    /\ At(c, "run")
    /\ attempts' = [attempts EXCEPT ![r] = @ + 1]
    /\ \/ effects' = [effects EXCEPT ![r] = Applied(r)] /\ Goto(c, "executed")
       \/ effects' = [effects EXCEPT ![r] = Applied(r)] /\ Goto(c, "failed")
       \/ UNCHANGED effects /\ Goto(c, "failed")
    /\ UNCHANGED <<queueVars, aborted>>

\* Mutant: the outcome's audit row is written, the status is not.
RecordAuditOnly(c) ==
    /\ pc[c] \in {"executed", "failed"}
    /\ Log(row[c], pc[c])
    /\ Return(c)
    /\ UNCHANGED <<status, effects, historyVars>>

\* UPDATE ... SET status WHERE id (whatever the status was meanwhile) and the
\* audit row, in one transaction.
RecordOutcome(c) ==
    /\ pc[c] \in {"executed", "failed"}
    /\ SetStatus(row[c], pc[c])
    /\ Log(row[c], pc[c])
    /\ Return(c)
    /\ UNCHANGED <<effects, historyVars>>

\* The call ends between two statements: an open transaction rolls back, what
\* was committed stays.
Abort(c) ==
    /\ ~At(c, "idle")
    /\ aborted' = aborted \cup {row[c]}
    /\ Return(c)
    /\ UNCHANGED <<queueVars, effects, attempts>>

----------------------------------------------------------------------------
Advance(c) ==
    \/ ProposeInsert(c)
    \/ AutoCheck(c)
    \/ AutoStamp(c)
    \/ ExecuteLoad(c)
    \/ ExecuteAuthorise(c)
    \/ RunExecutor(c)
    \/ RecordOutcome(c)

Next ==
    \/ \E c \in Engines, r \in Rows : ProposeCheck(c, r)
    \/ \E c \in Requests, r \in Rows : Approve(c, r) \/ Reject(c, r) \/ Retry(c, r)
    \/ \E c \in Callers : Advance(c) \/ Abort(c)

\* A goroutine that is not aborted runs on; nobody has to propose or decide.
Fairness == \A c \in Callers : WF_vars(Advance(c))

Spec == Init /\ [][Next]_vars
FairSpec == Spec /\ Fairness

----------------------------------------------------------------------------
(* Properties                                                              *)

TypeOK ==
    /\ status \in [Rows -> Statuses]
    /\ audit \in [Rows -> Seq(Transitions)]
    /\ pc \in [Callers -> Steps]
    /\ row \in [Callers -> Rows \cup {None}]
    /\ \A c \in Callers : row[c] = None <=> At(c, "idle")
    /\ effects \in [Rows -> Nat]
    /\ attempts \in [Rows -> Nat]
    /\ aborted \subseteq Rows

\* No business effect without authority on the log, and no effect beyond the
\* reversible, informational ones without a human's 'approved' (the invariant
\* that the comments of execute() and of the allow-list state).
Informational == {"log_event_note", "log_retention_email"}

EffectsAuthorised ==
    \A r \in Rows : effects[r] > 0 =>
        \/ Written(r, "approved") # {}
        \/ Action[r] \in Informational /\ Written(r, "auto_approved") # {}

\* The queue status and the audit trail tell the same story: the last entry
\* that moves a row names the status it has now ("the queue status and the
\* authority row can never disagree", decide and recordOutcome).
StatusAfter(tr) ==
    CASE tr = "proposed" -> "pending"
      [] tr = "retrying" -> "approved"
      [] OTHER -> tr

StatusMatchesAudit ==
    \A r \in Rows :
        IF status[r] = "absent" THEN audit[r] = <<>>
        ELSE \E i \in DOMAIN audit[r] :
                /\ audit[r][i] # "auto_approved"
                /\ StatusAfter(audit[r][i]) = status[r]
                /\ \A j \in DOMAIN audit[r] : j > i => audit[r][j] = "auto_approved"

\* Every start of an executor is paid for by its own entry on the log: an
\* approval, an automatic approval or a retry (Approve, Retry and
\* AutoApproveAndExecute each lead to at most one execution).
AttemptsAccounted ==
    \A r \in Rows :
        attempts[r] <= Cardinality(Written(r, "approved"))
                       + Cardinality(Written(r, "auto_approved"))
                       + Cardinality(Written(r, "retrying"))

\* At most one caller executes an approval_required row at any time, retries
\* included ("two concurrent retries cannot both proceed", Retry).
Executing(c, r) ==
    row[c] = r /\ pc[c] \in {"load", "authorise", "run", "executed", "failed"}

OneExecutionAtATime ==
    \A r \in Rows : Tier[r] = "approval_required" =>
        \A c, d \in Callers : Executing(c, r) /\ Executing(d, r) => c = d

\* A reviewer never faces two open questions about one rule and entity, even
\* when the live bus and the reconciler propose at the same time (Propose).
OneOpenPerScope ==
    \A q, r \in Rows :
        /\ Scope[q] = Scope[r] /\ Scope[q] # NoEntity
        /\ status[q] = "pending" /\ status[r] = "pending"
        => q = r

\* The approval_required rows live the abstract life of a proposal: decided
\* once, performed only while approved, executed and rejected for good.
ApprovalRows == {r \in Rows : Tier[r] = "approval_required"}

Lifecycle == INSTANCE ProposalLifecycle
    WITH Proposals <- ApprovalRows,
         state <- [r \in ApprovalRows |-> status[r]],
         done <- [r \in ApprovalRows |-> effects[r] > 0]

ImplementsLifecycle == Lifecycle!LifecycleSpec

\* An approved row comes to an outcome, unless a call on it was cut short
\* (Approve and Retry execute what they armed).
ApprovedSettles ==
    \A r \in Rows :
        status[r] = "approved" ~> status[r] # "approved" \/ r \in aborted
=============================================================================
