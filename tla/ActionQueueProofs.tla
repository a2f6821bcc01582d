------------------------- MODULE ActionQueueProofs -------------------------
(***************************************************************************)
(* What ActionQueue's operations guarantee for every set of proposals,     *)
(* engine goroutines and HTTP requests.                                    *)
(***************************************************************************)
EXTENDS ActionQueue, FiniteSetTheorems, TLAPS

----------------------------------------------------------------------------
(* Type correctness                                                        *)

LEMMA AppendType ==
    ASSUME NEW r \in Rows, NEW tr \in Transitions,
           audit \in [Rows -> Seq(Transitions)], Log(r, tr)
    PROVE  audit' \in [Rows -> Seq(Transitions)]
BY DEF Log

\* The program counters and the rows the callers work on.
CallsOK ==
    /\ pc \in [Callers -> Steps]
    /\ row \in [Callers -> Rows \cup {None}]
    /\ \A c \in Callers : row[c] = None <=> At(c, "idle")

LEMMA StartType ==
    ASSUME CallsOK, NEW c \in Callers, NEW r \in Rows,
           NEW step \in Steps \ {"idle"}, Start(c, r, step)
    PROVE  CallsOK'
BY ConstantsAssumption DEF CallsOK, Start, At

LEMMA ReturnType ==
    ASSUME CallsOK, NEW c \in Callers, Return(c)
    PROVE  CallsOK'
BY DEF CallsOK, Return, Start, At, Steps

LEMMA GotoType ==
    ASSUME CallsOK, NEW c \in Callers, ~At(c, "idle"),
           NEW step \in Steps \ {"idle"}, Goto(c, step)
    PROVE  CallsOK'
BY DEF CallsOK, Goto, At

\* Every reachable state of the queue, the log and the callers is well-typed,
\* and a caller names a row exactly while its call is running.
THEOREM TypeCorrect == Spec => []TypeOK
<1>1. Init => TypeOK
  BY ConstantsAssumption
  DEF Init, TypeOK, Statuses, Steps, At, Callers
<1>2. TypeOK /\ [Next]_vars => TypeOK'
  <2> SUFFICES ASSUME TypeOK, [Next]_vars PROVE TypeOK'
    OBVIOUS
  <2> DEFINE StoreOK ==
        /\ status \in [Rows -> Statuses]
        /\ audit \in [Rows -> Seq(Transitions)]
        /\ effects \in [Rows -> Nat]
        /\ attempts \in [Rows -> Nat]
        /\ aborted \subseteq Rows
  <2>0. /\ StoreOK /\ CallsOK
        /\ StoreOK' /\ CallsOK' => TypeOK'
    BY DEF TypeOK, CallsOK
  <2>a. \A c \in Callers : ~At(c, "idle") => row[c] \in Rows
    BY <2>0 DEF CallsOK
  <2> USE DEF SetStatus, queueVars, callVars, historyVars, Statuses
  <2>1. ASSUME NEW c \in Engines, NEW r \in Rows, ProposeCheck(c, r)
        PROVE TypeOK'
    <3>1. CallsOK'
      BY <2>0, <2>1, StartType DEF ProposeCheck, Steps, Callers
    <3>2. QED
      BY <2>0, <2>1, <3>1 DEF ProposeCheck
  <2>2. ASSUME NEW c \in Requests, NEW r \in Rows, Approve(c, r)
        PROVE TypeOK'
    <3>1. CallsOK'
      BY <2>0, <2>2, StartType DEF Approve, Steps, Callers
    <3>2. QED
      BY <2>0, <2>2, <3>1, AppendType DEF Approve, Decide, Transitions
  <2>3. ASSUME NEW c \in Requests, NEW r \in Rows, Reject(c, r)
        PROVE TypeOK'
    BY <2>0, <2>3, AppendType DEF Reject, Decide, Transitions, CallsOK, At
  <2>4. ASSUME NEW c \in Requests, NEW r \in Rows, Retry(c, r)
        PROVE TypeOK'
    <3>1. CallsOK'
      BY <2>0, <2>4, StartType DEF Retry, Steps, Callers
    <3>2. QED
      BY <2>0, <2>4, <3>1, AppendType DEF Retry, Transitions
  <2>5. ASSUME NEW c \in Callers, ProposeInsert(c)
        PROVE TypeOK'
    <3>1. ~At(c, "idle") /\ row[c] \in Rows
      BY <2>5, <2>a DEF ProposeInsert, At
    <3>2. CallsOK'
      BY <2>0, <2>5, <3>1, ReturnType, GotoType DEF ProposeInsert, Steps
    <3>3. CASE status[row[c]] # "absent"
      BY <2>0, <2>5, <3>2, <3>3 DEF ProposeInsert
    <3>4. CASE status[row[c]] = "absent"
      BY <2>0, <2>5, <3>1, <3>2, <3>4, AppendType DEF ProposeInsert, Transitions
    <3>5. QED
      BY <3>3, <3>4
  <2>6. ASSUME NEW c \in Callers, AutoCheck(c)
        PROVE TypeOK'
    <3>1. CallsOK'
      BY <2>0, <2>6, ReturnType, GotoType DEF AutoCheck, Steps, At
    <3>2. QED
      BY <2>0, <2>6, <3>1 DEF AutoCheck
  <2>7. ASSUME NEW c \in Callers, AutoStamp(c)
        PROVE TypeOK'
    <3>1. ~At(c, "idle") /\ row[c] \in Rows
      BY <2>7, <2>a DEF AutoStamp, At
    <3>2. CallsOK'
      BY <2>0, <2>7, <3>1, GotoType DEF AutoStamp, Steps
    <3>3. QED
      BY <2>0, <2>7, <3>1, <3>2, AppendType DEF AutoStamp, Transitions
  <2>8. ASSUME NEW c \in Callers, ExecuteLoad(c)
        PROVE TypeOK'
    <3>1. CallsOK'
      BY <2>0, <2>8, ReturnType, GotoType DEF ExecuteLoad, Steps, At
    <3>2. QED
      BY <2>0, <2>8, <3>1 DEF ExecuteLoad
  <2>9. ASSUME NEW c \in Callers, ExecuteAuthorise(c)
        PROVE TypeOK'
    <3>1. CallsOK'
      BY <2>0, <2>9, ReturnType, GotoType DEF ExecuteAuthorise, Steps, At
    <3>2. QED
      BY <2>0, <2>9, <3>1 DEF ExecuteAuthorise
  <2>10. ASSUME NEW c \in Callers, RunExecutor(c)
         PROVE TypeOK'
    <3>1. ~At(c, "idle") /\ row[c] \in Rows
      BY <2>10, <2>a DEF RunExecutor, At
    <3>2. CallsOK'
      BY <2>0, <2>10, <3>1, GotoType DEF RunExecutor, Steps
    <3>3. Applied(row[c]) \in Nat
      BY <2>0, <3>1 DEF Applied
    <3>4. QED
      BY <2>0, <2>10, <3>1, <3>2, <3>3 DEF RunExecutor
  <2>11. ASSUME NEW c \in Callers, RecordOutcome(c)
         PROVE TypeOK'
    <3>1. row[c] \in Rows /\ pc[c] \in Statuses \cap Transitions
      BY <2>11, <2>a DEF RecordOutcome, At, Transitions
    <3>2. CallsOK'
      BY <2>0, <2>11, ReturnType DEF RecordOutcome
    <3>3. QED
      BY <2>0, <2>11, <3>1, <3>2, AppendType DEF RecordOutcome
  <2>12. ASSUME NEW c \in Callers, Abort(c)
         PROVE TypeOK'
    <3>1. CallsOK'
      BY <2>0, <2>12, ReturnType DEF Abort
    <3>2. QED
      BY <2>0, <2>a, <2>12, <3>1 DEF Abort
  <2>13. CASE UNCHANGED vars
    BY <2>13 DEF vars, TypeOK, At
  <2>14. QED
    BY <2>1, <2>2, <2>3, <2>4, <2>5, <2>6, <2>7, <2>8, <2>9, <2>10, <2>11,
       <2>12, <2>13 DEF Next, Advance
<1>3. QED
  BY <1>1, <1>2, PTL DEF Spec

----------------------------------------------------------------------------
(* Authority on the log before any effect                                  *)

LEMMA LogWrites ==
    ASSUME NEW r \in Rows, NEW tr \in Transitions,
           audit \in [Rows -> Seq(Transitions)], Log(r, tr)
    PROVE  /\ Written(r, tr)' # {}
           /\ \A q \in Rows, t \in Transitions :
                 /\ Written(q, t) \subseteq Written(q, t)'
                 /\ q # r \/ t # tr => Written(q, t)' = Written(q, t)
<1> DEFINE s == audit[r]
<1>1. /\ s \in Seq(Transitions)
      /\ audit' = [audit EXCEPT ![r] = Append(s, tr)]
  BY DEF Log
<1>2. /\ audit'[r] = Append(s, tr)
      /\ Len(s) \in Nat /\ DOMAIN s = 1 .. Len(s)
      /\ DOMAIN Append(s, tr) = 1 .. (Len(s) + 1)
      /\ Append(s, tr)[Len(s) + 1] = tr
      /\ \A i \in 1 .. Len(s) : Append(s, tr)[i] = s[i]
  BY <1>1
<1>3. (Len(s) + 1) \in Written(r, tr)'
  BY <1>2 DEF Written
<1>4. ASSUME NEW q \in Rows, NEW t \in Transitions
      PROVE  /\ Written(q, t) \subseteq Written(q, t)'
             /\ q # r \/ t # tr => Written(q, t)' = Written(q, t)
  <2>1. CASE q # r
    BY <1>1, <2>1 DEF Written
  <2>2. CASE q = r
    BY <1>2, <2>2 DEF Written
  <2>3. QED
    BY <2>1, <2>2
<1>5. QED
  BY <1>3, <1>4

Authorised(r) ==
    \/ Written(r, "approved") # {}
    \/ Action[r] \in Informational /\ Written(r, "auto_approved") # {}

\* The chain that makes EffectsAuthorised inductive: the allow-list is asked
\* before the stamp, the stamp precedes the run, the run the effect.
AuthorityInv ==
    /\ \A r \in Rows : Written(r, "auto_approved") # {} => AutoAllowed(Action[r])
    /\ \A c \in Callers : At(c, "stamp") => AutoAllowed(Action[row[c]])
    /\ \A c \in Callers : At(c, "run") => Authorised(row[c])
    /\ EffectsAuthorised

\* Authority is never lost, because the log is append-only; a new entry gives
\* automatic authority only to the row it is written for.
LEMMA LogKeepsAuthority ==
    ASSUME NEW r \in Rows, NEW tr \in Transitions, TypeOK, Log(r, tr)
    PROVE  /\ \A q \in Rows : Authorised(q) => Authorised(q)'
           /\ \A q \in Rows :
                 /\ q # r \/ tr # "auto_approved"
                 /\ Written(q, "auto_approved")' # {}
                 => Written(q, "auto_approved") # {}
<1>1. audit \in [Rows -> Seq(Transitions)]
  BY DEF TypeOK
<1>2. "approved" \in Transitions /\ "auto_approved" \in Transitions
  BY DEF Transitions
<1>3. QED
  BY <1>1, <1>2, LogWrites DEF Authorised

LEMMA AuthorityStep ==
    TypeOK /\ AuthorityInv /\ [Next]_vars => AuthorityInv'
<1> SUFFICES ASSUME TypeOK, AuthorityInv, [Next]_vars PROVE AuthorityInv'
  OBVIOUS
<1>a. \A c \in Callers : ~At(c, "idle") => row[c] \in Rows
  BY DEF TypeOK
<1>b. /\ pc \in [Callers -> Steps] /\ row \in [Callers -> Rows \cup {None}]
      /\ effects \in [Rows -> Nat]
  BY DEF TypeOK
<1>c. ASSUME UNCHANGED audit
      PROVE  \A r \in Rows :
               /\ Authorised(r)' <=> Authorised(r)
               /\ Written(r, "auto_approved")' = Written(r, "auto_approved")
  BY <1>c DEF Authorised, Written
<1>d. EffectsAuthorised <=> \A r \in Rows : effects[r] > 0 => Authorised(r)
  BY DEF EffectsAuthorised, Authorised
<1>e. EffectsAuthorised' <=> \A r \in Rows : effects'[r] > 0 => Authorised(r)'
  BY DEF EffectsAuthorised, Authorised
<1> USE DEF At, Goto, Return, Start, queueVars, callVars, historyVars, Callers
<1>1. ASSUME NEW c \in Engines, NEW r \in Rows, ProposeCheck(c, r)
      PROVE AuthorityInv'
  BY <1>1, <1>a, <1>b, <1>c, <1>d, <1>e DEF ProposeCheck, AuthorityInv
<1>2. ASSUME NEW c \in Requests, NEW r \in Rows, Approve(c, r)
      PROVE AuthorityInv'
  <2>1. Log(r, "approved") /\ "approved" \in Transitions
    BY <1>2 DEF Approve, Decide, Transitions
  <2>2. QED
    BY <1>2, <1>a, <1>b, <1>d, <1>e, <2>1, LogKeepsAuthority
    DEF Approve, Decide, AuthorityInv
<1>3. ASSUME NEW c \in Requests, NEW r \in Rows, Reject(c, r)
      PROVE AuthorityInv'
  <2>1. Log(r, "rejected") /\ "rejected" \in Transitions
    BY <1>3 DEF Reject, Decide, Transitions
  <2>2. QED
    BY <1>3, <1>a, <1>b, <1>d, <1>e, <2>1, LogKeepsAuthority
    DEF Reject, Decide, AuthorityInv
<1>4. ASSUME NEW c \in Requests, NEW r \in Rows, Retry(c, r)
      PROVE AuthorityInv'
  <2>1. Log(r, "retrying") /\ "retrying" \in Transitions
    BY <1>4 DEF Retry, Transitions
  <2>2. QED
    BY <1>4, <1>a, <1>b, <1>d, <1>e, <2>1, LogKeepsAuthority
    DEF Retry, AuthorityInv
<1>5. ASSUME NEW c \in Callers, ProposeInsert(c)
      PROVE AuthorityInv'
  <2>1. CASE UNCHANGED queueVars
    BY <1>5, <1>a, <1>b, <1>c, <1>d, <1>e, <2>1 DEF ProposeInsert, AuthorityInv
  <2>2. CASE Log(row[c], "proposed")
    <3>1. row[c] \in Rows /\ "proposed" \in Transitions
      BY <1>5, <1>a DEF ProposeInsert, Transitions
    <3>2. QED
      BY <1>5, <1>a, <1>b, <1>d, <1>e, <2>2, <3>1, LogKeepsAuthority
      DEF ProposeInsert, AuthorityInv
  <2>3. QED
    BY <1>5, <2>1, <2>2 DEF ProposeInsert
<1>6. ASSUME NEW c \in Callers, AutoCheck(c)
      PROVE AuthorityInv'
  BY <1>6, <1>a, <1>b, <1>c, <1>d, <1>e DEF AutoCheck, AuthorityInv
<1>7. ASSUME NEW c \in Callers, AutoStamp(c)
      PROVE AuthorityInv'
  <2>1. /\ Log(row[c], "auto_approved") /\ "auto_approved" \in Transitions
        /\ row[c] \in Rows
        /\ AutoAllowed(Action[row[c]])
    BY <1>7, <1>a DEF AutoStamp, Transitions, AuthorityInv
  <2>2. QED
    BY <1>7, <1>a, <1>b, <1>d, <1>e, <2>1, LogKeepsAuthority
    DEF AutoStamp, AuthorityInv
<1>8. ASSUME NEW c \in Callers, ExecuteLoad(c)
      PROVE AuthorityInv'
  BY <1>8, <1>a, <1>b, <1>c, <1>d, <1>e DEF ExecuteLoad, AuthorityInv
<1>9. ASSUME NEW c \in Callers, ExecuteAuthorise(c)
      PROVE AuthorityInv'
  <2>1. row[c] \in Rows
    BY <1>9, <1>a DEF ExecuteAuthorise
  <2>2. pc'[c] = "run" => Authorised(row[c])
    BY <1>9, <1>b, <2>1
    DEF ExecuteAuthorise, AuthorityInv, Authorised, AutoAllowed, Informational
  <2>3. QED
    BY <1>9, <1>a, <1>b, <1>c, <1>d, <1>e, <2>2 DEF ExecuteAuthorise, AuthorityInv
<1>10. ASSUME NEW c \in Callers, RunExecutor(c)
       PROVE AuthorityInv'
  <2>1. row[c] \in Rows /\ Authorised(row[c])
    BY <1>10, <1>a DEF RunExecutor, AuthorityInv
  <2>2. \A r \in Rows : effects'[r] > 0 => Authorised(r)
    BY <1>10, <1>b, <1>d, <2>1 DEF RunExecutor, AuthorityInv
  <2>3. QED
    BY <1>10, <1>a, <1>b, <1>c, <1>e, <2>2 DEF RunExecutor, AuthorityInv
<1>11. ASSUME NEW c \in Callers, RecordOutcome(c)
       PROVE AuthorityInv'
  <2>1. /\ Log(row[c], pc[c]) /\ pc[c] \in Transitions
        /\ row[c] \in Rows /\ pc[c] # "auto_approved"
    BY <1>11, <1>a DEF RecordOutcome, Transitions
  <2>2. QED
    BY <1>11, <1>a, <1>b, <1>d, <1>e, <2>1, LogKeepsAuthority
    DEF RecordOutcome, AuthorityInv
<1>12. ASSUME NEW c \in Callers, Abort(c)
       PROVE AuthorityInv'
  BY <1>12, <1>a, <1>b, <1>c, <1>d, <1>e DEF Abort, AuthorityInv
<1>13. CASE UNCHANGED vars
  BY <1>13, <1>a, <1>c, <1>d, <1>e DEF vars, AuthorityInv
<1>14. QED
  BY <1>1, <1>2, <1>3, <1>4, <1>5, <1>6, <1>7, <1>8, <1>9, <1>10, <1>11,
     <1>12, <1>13 DEF Next, Advance

\* No effect without authority on the log, whatever the callers interleave
\* and wherever they stop.
THEOREM EffectsAlwaysAuthorised == Spec => []EffectsAuthorised
<1>1. Init => AuthorityInv
  BY DEF Init, AuthorityInv, EffectsAuthorised, Written, At
<1>2. AuthorityInv => EffectsAuthorised
  BY DEF AuthorityInv
<1>3. QED
  BY <1>1, <1>2, AuthorityStep, TypeCorrect, PTL DEF Spec

----------------------------------------------------------------------------
(* The approval_required rows: one execution at a time, and with it the     *)
(* abstract life of a proposal (ProposalLifecycle).                         *)

\* Only an auto row is on the automatic path; an approval_required row is
\* executed while it stands approved, by one caller; that caller records
\* success only after the effect.
ExecutionInv ==
    /\ \A c \in Callers : pc[c] \in {"auto", "stamp"} => Tier[row[c]] = "auto"
    /\ \A c \in Callers, r \in ApprovalRows :
          Executing(c, r) => status[r] = "approved"
    /\ \A r \in ApprovalRows, c, d \in Callers :
          Executing(c, r) /\ Executing(d, r) => c = d
    /\ \A c \in Callers : At(c, "executed") => effects[row[c]] > 0

\* The part of the type invariant these proofs use.
LEMMA CallFacts ==
    ASSUME TypeOK
    PROVE  /\ pc \in [Callers -> Steps] /\ row \in [Callers -> Rows \cup {None}]
           /\ \A c \in Callers : ~At(c, "idle") => row[c] \in Rows
           /\ status \in [Rows -> Statuses] /\ effects \in [Rows -> Nat]
           /\ ApprovalRows \subseteq Rows
           /\ \A r \in Rows : r \in ApprovalRows <=> Tier[r] # "auto"
           /\ None \notin Rows
BY ConstantsAssumption DEF TypeOK, ApprovalRows

\* A row that is not approved is executed by nobody, so a caller that arms it
\* is the only one.
LEMMA ExecutionStep ==
    TypeOK /\ ExecutionInv /\ [Next]_vars => ExecutionInv'
<1> SUFFICES ASSUME TypeOK, ExecutionInv, [Next]_vars PROVE ExecutionInv'
  OBVIOUS
<1>a. /\ pc \in [Callers -> Steps] /\ row \in [Callers -> Rows \cup {None}]
      /\ \A c \in Callers : ~At(c, "idle") => row[c] \in Rows
      /\ status \in [Rows -> Statuses] /\ effects \in [Rows -> Nat]
      /\ ApprovalRows \subseteq Rows
      /\ \A r \in Rows : r \in ApprovalRows <=> Tier[r] # "auto"
      /\ None \notin Rows
  BY CallFacts
<1> USE DEF At, Goto, Return, Start, SetStatus, queueVars, callVars, historyVars,
            Executing
<1>1. ASSUME NEW c \in Engines, NEW r \in Rows, ProposeCheck(c, r)
      PROVE ExecutionInv'
  BY <1>1, <1>a DEF ProposeCheck, ExecutionInv, Callers
<1>2. ASSUME NEW c \in Requests, NEW r \in Rows, Approve(c, r)
      PROVE ExecutionInv'
  BY <1>2, <1>a DEF Approve, Decide, ExecutionInv, Callers
<1>3. ASSUME NEW c \in Requests, NEW r \in Rows, Reject(c, r)
      PROVE ExecutionInv'
  BY <1>3, <1>a DEF Reject, Decide, ExecutionInv, Callers
<1>4. ASSUME NEW c \in Requests, NEW r \in Rows, Retry(c, r)
      PROVE ExecutionInv'
  BY <1>4, <1>a DEF Retry, ExecutionInv, Callers
<1>5. ASSUME NEW c \in Callers, ProposeInsert(c)
      PROVE ExecutionInv'
  <2>1. CASE status[row[c]] # "absent"
    BY <1>5, <1>a, <2>1 DEF ProposeInsert, ExecutionInv
  <2>2. CASE status[row[c]] = "absent" /\ Tier[row[c]] = "auto"
    BY <1>5, <1>a, <2>2 DEF ProposeInsert, ExecutionInv
  <2>3. CASE status[row[c]] = "absent" /\ Tier[row[c]] # "auto"
    BY <1>5, <1>a, <2>3 DEF ProposeInsert, ExecutionInv
  <2>4. QED
    BY <2>1, <2>2, <2>3
<1>6. ASSUME NEW c \in Callers, AutoCheck(c)
      PROVE ExecutionInv'
  BY <1>6, <1>a DEF AutoCheck, ExecutionInv
<1>7. ASSUME NEW c \in Callers, AutoStamp(c)
      PROVE ExecutionInv'
  <2>1. row[c] \notin ApprovalRows
    BY <1>7, <1>a DEF AutoStamp, ExecutionInv
  <2>2. QED
    BY <1>7, <1>a, <2>1 DEF AutoStamp, ExecutionInv
<1>8. ASSUME NEW c \in Callers, ExecuteLoad(c)
      PROVE ExecutionInv'
  BY <1>8, <1>a DEF ExecuteLoad, ExecutionInv
<1>9. ASSUME NEW c \in Callers, ExecuteAuthorise(c)
      PROVE ExecutionInv'
  BY <1>9, <1>a DEF ExecuteAuthorise, ExecutionInv
<1>10. ASSUME NEW c \in Callers, RunExecutor(c)
       PROVE ExecutionInv'
  <2>1. /\ row[c] \in Rows /\ Applied(row[c]) > 0
        /\ \A r \in Rows : effects[r] > 0 => effects'[r] > 0
        /\ pc'[c] = "executed" => effects'[row[c]] > 0
    BY <1>10, <1>a DEF RunExecutor, Applied
  <2>2. /\ pc' = [pc EXCEPT ![c] = pc'[c]] /\ pc'[c] \in {"executed", "failed"}
        /\ UNCHANGED <<row, status>>
    BY <1>10, <1>a DEF RunExecutor
  <2>3. QED
    BY <1>10, <1>a, <2>1, <2>2 DEF RunExecutor, ExecutionInv
<1>11. ASSUME NEW c \in Callers, RecordOutcome(c)
       PROVE ExecutionInv'
  BY <1>11, <1>a DEF RecordOutcome, ExecutionInv
<1>12. ASSUME NEW c \in Callers, Abort(c)
       PROVE ExecutionInv'
  BY <1>12, <1>a DEF Abort, ExecutionInv
<1>13. CASE UNCHANGED vars
  BY <1>13, <1>a DEF vars, ExecutionInv
<1>14. QED
  BY <1>1, <1>2, <1>3, <1>4, <1>5, <1>6, <1>7, <1>8, <1>9, <1>10, <1>11,
     <1>12, <1>13 DEF Next, Advance

LEMMA ExecutionInit == Init => ExecutionInv
BY DEF Init, ExecutionInv, At, Executing

\* Two callers never execute one approval_required row at the same time,
\* whoever approves or retries it.
THEOREM ExecutionIsExclusive == Spec => []OneExecutionAtATime
<1>1. ExecutionInv => OneExecutionAtATime
  BY DEF ExecutionInv, OneExecutionAtATime, ApprovalRows
<1>2. QED
  BY <1>1, ExecutionInit, ExecutionStep, TypeCorrect, PTL DEF Spec

----------------------------------------------------------------------------
(* The refinement                                                          *)

\* Every step of the store is a step in the life of one approval_required
\* proposal, or none.
LEMMA LifecycleStep ==
    TypeOK /\ ExecutionInv /\ [Next]_vars
        => [Lifecycle!LifecycleNext]_(Lifecycle!lifecycleVars)
<1> SUFFICES ASSUME TypeOK, ExecutionInv, [Next]_vars
             PROVE  \/ Lifecycle!LifecycleNext
                    \/ UNCHANGED Lifecycle!lifecycleVars
  OBVIOUS
<1> DEFINE state == [r \in ApprovalRows |-> status[r]]
           done == [r \in ApprovalRows |-> effects[r] > 0]
<1>a. /\ pc \in [Callers -> Steps] /\ row \in [Callers -> Rows \cup {None}]
      /\ \A c \in Callers : ~At(c, "idle") => row[c] \in Rows
      /\ status \in [Rows -> Statuses] /\ effects \in [Rows -> Nat]
      /\ ApprovalRows \subseteq Rows
  BY CallFacts
<1>b. ASSUME NEW r \in Rows, NEW from, NEW to, status[r] = from,
             SetStatus(r, to), UNCHANGED effects,
             r \in ApprovalRows /\ Lifecycle!Move(r, from, to)
                => Lifecycle!LifecycleNext
      PROVE  Lifecycle!LifecycleNext \/ UNCHANGED Lifecycle!lifecycleVars
  <2>1. CASE r \in ApprovalRows
    <3>1. Lifecycle!Move(r, from, to)
      BY <1>a, <1>b, <2>1 DEF SetStatus, Lifecycle!Move
    <3>2. QED
      BY <1>b, <2>1, <3>1
  <2>2. CASE r \notin ApprovalRows
    BY <1>a, <1>b, <2>2 DEF SetStatus, Lifecycle!lifecycleVars
  <2>3. QED
    BY <2>1, <2>2
<1>c. ASSUME UNCHANGED <<status, effects>>
      PROVE  UNCHANGED Lifecycle!lifecycleVars
  BY <1>c DEF Lifecycle!lifecycleVars
<1> USE DEF queueVars, historyVars
<1>1. ASSUME NEW c \in Engines, NEW r \in Rows, ProposeCheck(c, r)
      PROVE  UNCHANGED Lifecycle!lifecycleVars
  BY <1>1, <1>c DEF ProposeCheck
<1>2. ASSUME NEW c \in Requests, NEW r \in Rows, Approve(c, r)
      PROVE  Lifecycle!LifecycleNext \/ UNCHANGED Lifecycle!lifecycleVars
  BY <1>2, <1>b DEF Approve, Decide, Lifecycle!LifecycleNext
<1>3. ASSUME NEW c \in Requests, NEW r \in Rows, Reject(c, r)
      PROVE  Lifecycle!LifecycleNext \/ UNCHANGED Lifecycle!lifecycleVars
  BY <1>3, <1>b DEF Reject, Decide, Lifecycle!LifecycleNext
<1>4. ASSUME NEW c \in Requests, NEW r \in Rows, Retry(c, r)
      PROVE  Lifecycle!LifecycleNext \/ UNCHANGED Lifecycle!lifecycleVars
  BY <1>4, <1>b DEF Retry, Lifecycle!LifecycleNext
<1>5. ASSUME NEW c \in Callers, ProposeInsert(c)
      PROVE  Lifecycle!LifecycleNext \/ UNCHANGED Lifecycle!lifecycleVars
  <2>1. row[c] \in Rows
    BY <1>5, <1>a DEF ProposeInsert, At
  <2>2. CASE status[row[c]] # "absent"
    BY <1>5, <1>c, <2>2 DEF ProposeInsert
  <2>3. CASE status[row[c]] = "absent"
    BY <1>5, <1>b, <2>1, <2>3 DEF ProposeInsert, Lifecycle!LifecycleNext
  <2>4. QED
    BY <2>2, <2>3
<1>6. ASSUME NEW c \in Callers,
             \/ AutoCheck(c) \/ AutoStamp(c) \/ ExecuteLoad(c)
             \/ ExecuteAuthorise(c) \/ Abort(c)
      PROVE  UNCHANGED Lifecycle!lifecycleVars
  BY <1>6, <1>c DEF AutoCheck, AutoStamp, ExecuteLoad, ExecuteAuthorise, Abort
<1>7. ASSUME NEW c \in Callers, RunExecutor(c)
      PROVE  Lifecycle!LifecycleNext \/ UNCHANGED Lifecycle!lifecycleVars
  <2> DEFINE r == row[c]
  <2>1. /\ r \in Rows /\ UNCHANGED status
        /\ r \in ApprovalRows => status[r] = "approved"
    BY <1>7, <1>a DEF RunExecutor, At, ExecutionInv, Executing
  <2>2. CASE UNCHANGED effects
    BY <1>c, <2>1, <2>2
  <2>3. CASE effects' = [effects EXCEPT ![r] = Applied(r)]
    <3>1. Applied(r) > 0
      BY <1>a, <2>1 DEF Applied
    <3>2. CASE r \in ApprovalRows
      <4>1. Lifecycle!Perform(r)
        BY <1>a, <2>1, <2>3, <3>1, <3>2 DEF Lifecycle!Perform
      <4>2. QED
        BY <3>2, <4>1 DEF Lifecycle!LifecycleNext, Lifecycle!Perform
    <3>3. CASE r \notin ApprovalRows
      BY <1>a, <2>1, <2>3, <3>3 DEF Lifecycle!lifecycleVars
    <3>4. QED
      BY <3>2, <3>3
  <2>4. QED
    BY <1>7, <2>2, <2>3 DEF RunExecutor
<1>8. ASSUME NEW c \in Callers, RecordOutcome(c)
      PROVE  Lifecycle!LifecycleNext \/ UNCHANGED Lifecycle!lifecycleVars
  <2> DEFINE r == row[c]
  <2>1. /\ r \in Rows /\ UNCHANGED effects /\ SetStatus(r, pc[c])
        /\ r \in ApprovalRows => status[r] = "approved"
        /\ pc[c] \in {"executed", "failed"}
        /\ pc[c] = "executed" => effects[r] > 0
    BY <1>8, <1>a DEF RecordOutcome, At, ExecutionInv, Executing
  <2>2. CASE r \notin ApprovalRows
    BY <1>a, <2>1, <2>2 DEF SetStatus, Lifecycle!lifecycleVars
  <2>3. CASE r \in ApprovalRows /\ pc[c] = "failed"
    <3>1. SetStatus(r, "failed")
      BY <2>1, <2>3 DEF SetStatus
    <3>2. Lifecycle!Move(r, "approved", "failed")
      BY <1>a, <2>1, <2>3, <3>1 DEF SetStatus, Lifecycle!Move
    <3>3. QED
      BY <2>3, <3>2 DEF Lifecycle!LifecycleNext, Lifecycle!Move
  <2>4. CASE r \in ApprovalRows /\ pc[c] = "executed"
    <3>1. SetStatus(r, "executed")
      BY <2>1, <2>4 DEF SetStatus
    <3>2. Lifecycle!Move(r, "approved", "executed")
      BY <1>a, <2>1, <2>4, <3>1 DEF SetStatus, Lifecycle!Move
    <3>3. Lifecycle!Succeed(r)
      BY <2>1, <2>4, <3>2 DEF Lifecycle!Succeed
    <3>4. QED
      BY <2>4, <3>3 DEF Lifecycle!LifecycleNext, Lifecycle!Succeed, Lifecycle!Move
  <2>5. QED
    BY <2>1, <2>2, <2>3, <2>4
<1>9. CASE UNCHANGED vars
  BY <1>9, <1>c DEF vars
<1>10. QED
  BY <1>1, <1>2, <1>3, <1>4, <1>5, <1>6, <1>7, <1>8, <1>9 DEF Next, Advance

\* For approval_required rows the store implements the abstract life of a
\* proposal: decided once, performed only while approved, "executed" and
\* "rejected" final.
THEOREM LifecycleImplemented == Spec => ImplementsLifecycle
<1>1. Init => Lifecycle!LifecycleInit
  <2> SUFFICES ASSUME Init PROVE Lifecycle!LifecycleInit
    OBVIOUS
  <2>1. \A r \in ApprovalRows : status[r] = "absent" /\ (effects[r] > 0) = FALSE
    BY DEF Init, ApprovalRows
  <2>2. QED
    BY <2>1 DEF Lifecycle!LifecycleInit
<1>2. QED
  BY <1>1, ExecutionInit, ExecutionStep, LifecycleStep, TypeCorrect, PTL
  DEF Spec, ImplementsLifecycle, Lifecycle!LifecycleSpec

----------------------------------------------------------------------------
(* One open proposal per rule and entity                                   *)

Inserting(c, s) == At(c, "insert") /\ Scope[row[c]] = s

\* The advisory lock is exclusive, and its holder has seen no open proposal
\* and keeps every other inserter of the scope out.
ScopeInv ==
    \A s \in {Scope[r] : r \in Rows} \ {NoEntity} :
        /\ \A c, d \in Callers : Inserting(c, s) /\ Inserting(d, s) => c = d
        /\ \A c \in Callers, q \in Rows :
              Inserting(c, s) /\ Scope[q] = s => status[q] # "pending"
        /\ \A q, r \in Rows :
              /\ Scope[q] = s /\ Scope[r] = s
              /\ status[q] = "pending" /\ status[r] = "pending"
              => q = r

\* A step of a caller that opens no proposal and takes no lock.
LEMMA ScopeUntouched ==
    ASSUME ScopeInv,
           \A q \in Rows : status'[q] = "pending" => status[q] = "pending",
           \A c \in Callers : pc'[c] = "insert" => pc[c] = "insert" /\ row'[c] = row[c]
    PROVE  ScopeInv'
BY DEF ScopeInv, Inserting, At

LEMMA ScopeStep == TypeOK /\ ScopeInv /\ [Next]_vars => ScopeInv'
<1> SUFFICES ASSUME TypeOK, ScopeInv, [Next]_vars PROVE ScopeInv'
  OBVIOUS
<1>a. /\ pc \in [Callers -> Steps] /\ row \in [Callers -> Rows \cup {None}]
      /\ \A c \in Callers : ~At(c, "idle") => row[c] \in Rows
      /\ status \in [Rows -> Statuses]
  BY CallFacts
<1> USE DEF At, Goto, Return, Start, SetStatus, queueVars, callVars
<1>1. ASSUME NEW c \in Engines, NEW r \in Rows, ProposeCheck(c, r)
      PROVE ScopeInv'
  <2>1. /\ c \in Callers /\ UNCHANGED status
        /\ Scope[r] # NoEntity => ~ScopeLocked(r) /\ ~OpenInScope(r)
        /\ pc' = [pc EXCEPT ![c] = "insert"] /\ row' = [row EXCEPT ![c] = r]
    BY <1>1 DEF ProposeCheck, Callers
  <2>2. ASSUME NEW s \in {Scope[q] : q \in Rows} \ {NoEntity}, NEW d \in Callers,
               Inserting(d, s)'
        PROVE  d # c => Inserting(d, s) /\ s # Scope[r]
    BY <1>a, <2>1, <2>2 DEF Inserting, ScopeLocked
  <2>3. ASSUME NEW s \in {Scope[q] : q \in Rows} \ {NoEntity}, Inserting(c, s)'
        PROVE  s = Scope[r]
    BY <1>a, <2>1, <2>3 DEF Inserting
  <2>4. ASSUME NEW s \in {Scope[q] : q \in Rows} \ {NoEntity}
        PROVE  \A d, e \in Callers : Inserting(d, s)' /\ Inserting(e, s)' => d = e
    BY <2>2, <2>3 DEF ScopeInv
  <2>5. ASSUME NEW s \in {Scope[q] : q \in Rows} \ {NoEntity},
               NEW d \in Callers, NEW q \in Rows, Inserting(d, s)', Scope[q] = s
        PROVE  status'[q] # "pending"
    <3>1. CASE d = c
      BY <2>1, <2>3, <2>5, <3>1 DEF OpenInScope
    <3>2. CASE d # c
      BY <2>1, <2>2, <2>5, <3>2 DEF ScopeInv
    <3>3. QED
      BY <3>1, <3>2
  <2>6. QED
    BY <2>1, <2>4, <2>5 DEF ScopeInv
<1>2. ASSUME NEW c \in Requests, NEW r \in Rows,
             Approve(c, r) \/ Reject(c, r) \/ Retry(c, r)
      PROVE ScopeInv'
  <2>1. c \in Callers
    BY DEF Callers
  <2>2. \A q \in Rows : status'[q] = "pending" => status[q] = "pending"
    BY <1>2, <1>a DEF Approve, Reject, Retry, Decide
  <2>3. \A d \in Callers : pc'[d] = "insert" => pc[d] = "insert" /\ row'[d] = row[d]
    BY <1>2, <1>a, <2>1 DEF Approve, Reject, Retry, Decide
  <2>4. QED
    BY <2>2, <2>3, ScopeUntouched
<1>3. ASSUME NEW c \in Callers, ProposeInsert(c)
      PROVE ScopeInv'
  <2>1. \A d \in Callers :
          pc'[d] = "insert" => d # c /\ pc[d] = "insert" /\ row'[d] = row[d]
    BY <1>3, <1>a DEF ProposeInsert
  <2>2. CASE UNCHANGED status
    BY <2>1, <2>2, ScopeUntouched
  <2>3. CASE status' = [status EXCEPT ![row[c]] = "pending"]
    <3>1. row[c] \in Rows /\ Inserting(c, Scope[row[c]])
      BY <1>3, <1>a DEF ProposeInsert, Inserting
    <3>2. ASSUME NEW s \in {Scope[q] : q \in Rows} \ {NoEntity}, NEW d \in Callers,
                 Inserting(d, s)'
          PROVE  Inserting(d, s) /\ s # Scope[row[c]]
      <4>1. Inserting(d, s) /\ d # c
        BY <2>1, <3>2 DEF Inserting
      <4>2. QED
        BY <3>1, <4>1 DEF ScopeInv
    <3>3. ASSUME NEW s \in {Scope[q] : q \in Rows} \ {NoEntity},
                 NEW q \in Rows, NEW r \in Rows, Scope[q] = s, Scope[r] = s,
                 status'[q] = "pending", status'[r] = "pending"
          PROVE  q = r
      <4>1. CASE s = Scope[row[c]]
        BY <1>a, <2>3, <3>1, <3>3, <4>1 DEF ScopeInv
      <4>2. CASE s # Scope[row[c]]
        BY <1>a, <2>3, <3>1, <3>3, <4>2 DEF ScopeInv
      <4>3. QED
        BY <4>1, <4>2
    <3>4. ASSUME NEW s \in {Scope[q] : q \in Rows} \ {NoEntity},
                 NEW d \in Callers, NEW q \in Rows, Inserting(d, s)', Scope[q] = s
          PROVE  status'[q] # "pending"
      BY <1>a, <2>3, <3>1, <3>2, <3>4 DEF ScopeInv
    <3>5. ASSUME NEW s \in {Scope[q] : q \in Rows} \ {NoEntity}
          PROVE  \A d, e \in Callers : Inserting(d, s)' /\ Inserting(e, s)' => d = e
      BY <3>2 DEF ScopeInv
    <3>6. QED
      BY <3>3, <3>4, <3>5 DEF ScopeInv
  <2>4. QED
    BY <1>3, <2>2, <2>3 DEF ProposeInsert
<1>4. ASSUME NEW c \in Callers,
             \/ AutoCheck(c) \/ AutoStamp(c) \/ ExecuteLoad(c)
             \/ ExecuteAuthorise(c) \/ RunExecutor(c) \/ RecordOutcome(c) \/ Abort(c)
      PROVE ScopeInv'
  <2>1. \A q \in Rows : status'[q] = "pending" => status[q] = "pending"
    BY <1>4, <1>a
    DEF AutoCheck, AutoStamp, ExecuteLoad, ExecuteAuthorise, RunExecutor,
        RecordOutcome, Abort
  <2>2. \A d \in Callers : pc'[d] = "insert" => pc[d] = "insert" /\ row'[d] = row[d]
    BY <1>4, <1>a
    DEF AutoCheck, AutoStamp, ExecuteLoad, ExecuteAuthorise, RunExecutor,
        RecordOutcome, Abort
  <2>3. QED
    BY <2>1, <2>2, ScopeUntouched
<1>5. CASE UNCHANGED vars
  BY <1>5, ScopeUntouched DEF vars
<1>6. QED
  BY <1>1, <1>2, <1>3, <1>4, <1>5 DEF Next, Advance

\* The engine and the reconciler never open two proposals for one rule and
\* entity, however their transactions overlap.
THEOREM OneOpenProposalPerScope == Spec => []OneOpenPerScope
<1>1. Init => ScopeInv
  BY DEF Init, ScopeInv, Inserting, At
<1>2. ScopeInv => OneOpenPerScope
  BY DEF ScopeInv, OneOpenPerScope
<1>3. QED
  BY <1>1, <1>2, ScopeStep, TypeCorrect, PTL DEF Spec

----------------------------------------------------------------------------
(* The status of a row and the last entry that moved it                    *)

\* A caller past the insert works on a row that exists.
RowExists ==
    \A c \in Callers : pc[c] \notin {"idle", "insert"} => status[row[c]] # "absent"

LEMMA RowExistsStep == TypeOK /\ RowExists /\ [Next]_vars => RowExists'
<1> SUFFICES ASSUME TypeOK, RowExists, [Next]_vars PROVE RowExists'
  OBVIOUS
<1>a. /\ pc \in [Callers -> Steps] /\ row \in [Callers -> Rows \cup {None}]
      /\ \A c \in Callers : ~At(c, "idle") => row[c] \in Rows
      /\ status \in [Rows -> Statuses]
  BY CallFacts
<1> USE DEF At, Goto, Return, Start, SetStatus, queueVars, callVars, RowExists
<1>1. ASSUME NEW c \in Engines, NEW r \in Rows, ProposeCheck(c, r)
      PROVE RowExists'
  BY <1>1, <1>a DEF ProposeCheck, Callers
<1>2. ASSUME NEW c \in Requests, NEW r \in Rows,
             Approve(c, r) \/ Reject(c, r) \/ Retry(c, r)
      PROVE RowExists'
  BY <1>2, <1>a DEF Approve, Reject, Retry, Decide, Callers
<1>3. ASSUME NEW c \in Callers, ProposeInsert(c)
      PROVE RowExists'
  <2>1. CASE status[row[c]] # "absent"
    BY <1>3, <1>a, <2>1 DEF ProposeInsert
  <2>2. CASE status[row[c]] = "absent" /\ Tier[row[c]] = "auto"
    BY <1>3, <1>a, <2>2 DEF ProposeInsert
  <2>3. CASE status[row[c]] = "absent" /\ Tier[row[c]] # "auto"
    BY <1>3, <1>a, <2>3 DEF ProposeInsert
  <2>4. QED
    BY <2>1, <2>2, <2>3
<1>4. ASSUME NEW c \in Callers,
             \/ AutoCheck(c) \/ AutoStamp(c) \/ ExecuteLoad(c)
             \/ ExecuteAuthorise(c) \/ RunExecutor(c) \/ Abort(c)
      PROVE RowExists'
  <2>1. UNCHANGED status
    BY <1>4
    DEF AutoCheck, AutoStamp, ExecuteLoad, ExecuteAuthorise, RunExecutor, Abort
  <2>2. \A d \in Callers : pc'[d] \notin {"idle", "insert"} =>
           pc[d] \notin {"idle", "insert"} /\ row'[d] = row[d]
    BY <1>4, <1>a
    DEF AutoCheck, AutoStamp, ExecuteLoad, ExecuteAuthorise, RunExecutor, Abort
  <2>3. QED
    BY <2>1, <2>2
<1>5. ASSUME NEW c \in Callers, RecordOutcome(c)
      PROVE RowExists'
  BY <1>5, <1>a DEF RecordOutcome
<1>6. CASE UNCHANGED vars
  BY <1>6 DEF vars
<1>7. QED
  BY <1>1, <1>2, <1>3, <1>4, <1>5, <1>6 DEF Next, Advance

\* An entry that moves a row is written together with the status it names.
LEMMA MoveIsLogged ==
    ASSUME TypeOK, StatusMatchesAudit, NEW r \in Rows,
           NEW tr \in Transitions \ {"auto_approved"},
           SetStatus(r, StatusAfter(tr)), Log(r, tr)
    PROVE  StatusMatchesAudit'
<1> DEFINE s == audit[r]
<1>1. /\ s \in Seq(Transitions) /\ audit' = [audit EXCEPT ![r] = Append(s, tr)]
      /\ audit'[r] = Append(s, tr)
      /\ status' = [status EXCEPT ![r] = StatusAfter(tr)]
      /\ status'[r] = StatusAfter(tr)
  BY DEF TypeOK, Log, SetStatus
<1>2. /\ Len(s) + 1 \in DOMAIN audit'[r]
      /\ audit'[r][Len(s) + 1] = tr
      /\ \A j \in DOMAIN audit'[r] : ~(j > Len(s) + 1)
  BY <1>1
<1>3. StatusAfter(tr) # "absent"
  BY DEF StatusAfter, Transitions
<1>4. ASSUME NEW q \in Rows, q # r
      PROVE  audit'[q] = audit[q] /\ status'[q] = status[q]
  BY <1>1, <1>4
<1>5. QED
  BY <1>1, <1>2, <1>3, <1>4 DEF StatusMatchesAudit

\* The stamp of an automatic approval moves nothing.
LEMMA StampMovesNothing ==
    ASSUME TypeOK, StatusMatchesAudit, NEW r \in Rows, status[r] # "absent",
           UNCHANGED status, Log(r, "auto_approved")
    PROVE  StatusMatchesAudit'
<1> DEFINE s == audit[r]
<1>1. /\ s \in Seq(Transitions) /\ Len(s) \in Nat /\ DOMAIN s = 1 .. Len(s)
      /\ audit' = [audit EXCEPT ![r] = Append(s, "auto_approved")]
  BY DEF TypeOK, Log
<1>2. /\ audit'[r] = Append(s, "auto_approved")
      /\ DOMAIN audit'[r] = 1 .. (Len(s) + 1)
      /\ audit'[r][Len(s) + 1] = "auto_approved"
      /\ \A i \in DOMAIN s : audit'[r][i] = s[i]
  BY <1>1 DEF Transitions, TypeOK
<1>3. PICK i \in DOMAIN s :
        /\ s[i] # "auto_approved" /\ StatusAfter(s[i]) = status[r]
        /\ \A j \in DOMAIN s : j > i => s[j] = "auto_approved"
  BY DEF StatusMatchesAudit
<1>4. /\ i \in DOMAIN audit'[r] /\ audit'[r][i] # "auto_approved"
      /\ StatusAfter(audit'[r][i]) = status'[r]
      /\ \A j \in DOMAIN audit'[r] : j > i => audit'[r][j] = "auto_approved"
  BY <1>1, <1>2, <1>3
<1>5. \A q \in Rows : q # r => audit'[q] = audit[q]
  BY <1>1 DEF TypeOK
<1>6. QED
  BY <1>4, <1>5 DEF StatusMatchesAudit

LEMMA StatusStep ==
    TypeOK /\ RowExists /\ StatusMatchesAudit /\ [Next]_vars => StatusMatchesAudit'
<1> SUFFICES ASSUME TypeOK, RowExists, StatusMatchesAudit, [Next]_vars
             PROVE  StatusMatchesAudit'
  OBVIOUS
<1>a. \A c \in Callers : ~At(c, "idle") => row[c] \in Rows
  BY CallFacts
<1>b. UNCHANGED queueVars => StatusMatchesAudit'
  BY DEF queueVars, StatusMatchesAudit
<1>1. ASSUME NEW c \in Engines, NEW r \in Rows, ProposeCheck(c, r)
      PROVE StatusMatchesAudit'
  BY <1>1, <1>b DEF ProposeCheck
<1>2. ASSUME NEW c \in Requests, NEW r \in Rows, Approve(c, r)
      PROVE StatusMatchesAudit'
  BY <1>2, MoveIsLogged DEF Approve, Decide, StatusAfter, Transitions
<1>3. ASSUME NEW c \in Requests, NEW r \in Rows, Reject(c, r)
      PROVE StatusMatchesAudit'
  BY <1>3, MoveIsLogged DEF Reject, Decide, StatusAfter, Transitions
<1>4. ASSUME NEW c \in Requests, NEW r \in Rows, Retry(c, r)
      PROVE StatusMatchesAudit'
  BY <1>4, MoveIsLogged DEF Retry, StatusAfter, Transitions
<1>5. ASSUME NEW c \in Callers, ProposeInsert(c)
      PROVE StatusMatchesAudit'
  <2>1. row[c] \in Rows
    BY <1>5, <1>a DEF ProposeInsert, At
  <2>2. QED
    BY <1>5, <1>b, <2>1, MoveIsLogged DEF ProposeInsert, StatusAfter, Transitions
<1>6. ASSUME NEW c \in Callers, AutoStamp(c)
      PROVE StatusMatchesAudit'
  <2>1. row[c] \in Rows /\ status[row[c]] # "absent"
    BY <1>6, <1>a DEF AutoStamp, At, RowExists
  <2>2. QED
    BY <1>6, <2>1, StampMovesNothing DEF AutoStamp
<1>7. ASSUME NEW c \in Callers, RecordOutcome(c)
      PROVE StatusMatchesAudit'
  <2>1. row[c] \in Rows /\ pc[c] \in Transitions \ {"auto_approved"}
        /\ StatusAfter(pc[c]) = pc[c]
    BY <1>7, <1>a DEF RecordOutcome, At, StatusAfter, Transitions
  <2>2. SetStatus(row[c], StatusAfter(pc[c]))
    BY <1>7, <2>1 DEF RecordOutcome, SetStatus
  <2>3. QED
    BY <1>7, <2>1, <2>2, MoveIsLogged DEF RecordOutcome
<1>8. ASSUME NEW c \in Callers,
             \/ AutoCheck(c) \/ ExecuteLoad(c) \/ ExecuteAuthorise(c)
             \/ RunExecutor(c) \/ Abort(c)
      PROVE StatusMatchesAudit'
  BY <1>8, <1>b
  DEF AutoCheck, ExecuteLoad, ExecuteAuthorise, RunExecutor, Abort
<1>9. CASE UNCHANGED vars
  BY <1>9, <1>b DEF vars
<1>10. QED
  BY <1>1, <1>2, <1>3, <1>4, <1>5, <1>6, <1>7, <1>8, <1>9 DEF Next, Advance

\* The queue status and the audit trail never disagree, wherever a call stops.
THEOREM AuditTellsStatus == Spec => []StatusMatchesAudit
<1>1. Init => RowExists /\ StatusMatchesAudit
  BY DEF Init, RowExists, StatusMatchesAudit
<1>2. QED
  BY <1>1, RowExistsStep, StatusStep, TypeCorrect, PTL DEF Spec

----------------------------------------------------------------------------
(* Every start of an executor is paid for by an entry on the log           *)

Count(r, tr) == Cardinality(Written(r, tr))

\* The entries that allow one start of the executor of row r.
Grants(r) ==
    Count(r, "approved") + Count(r, "auto_approved") + Count(r, "retrying")

\* The callers that hold a grant of row r they have not used yet.
Armed(r) ==
    {c \in Callers : row[c] = r /\ pc[c] \in {"load", "authorise", "run"}}

BudgetInv ==
    \A r \in Rows :
        /\ IsFiniteSet(Armed(r))
        /\ attempts[r] + Cardinality(Armed(r)) <= Grants(r)

LEMMA EntriesFinite ==
    ASSUME NEW s \in Seq(Transitions), NEW tr
    PROVE  LET entries == {i \in DOMAIN s : s[i] = tr}
           IN  IsFiniteSet(entries) /\ Cardinality(entries) \in Nat
<1> DEFINE entries == {i \in DOMAIN s : s[i] = tr}
<1>1. Len(s) \in Nat /\ DOMAIN s = 1 .. Len(s)
  OBVIOUS
<1>2. IsFiniteSet(1 .. Len(s)) /\ entries \in SUBSET (1 .. Len(s))
  BY <1>1, FS_Interval
<1>3. IsFiniteSet(entries)
  BY <1>2, FS_Subset
<1>4. QED
  BY <1>3, FS_CardinalityType

LEMMA WrittenFinite ==
    ASSUME TypeOK, NEW r \in Rows, NEW tr
    PROVE  IsFiniteSet(Written(r, tr)) /\ Count(r, tr) \in Nat
<1>1. audit[r] \in Seq(Transitions)
  BY DEF TypeOK
<1>2. QED
  BY <1>1, EntriesFinite DEF Written, Count

\* The same in the next state.
LEMMA GrantsType ==
    ASSUME NEW r \in Rows
    PROVE  /\ TypeOK => Grants(r) \in Nat
           /\ TypeOK' => Grants(r)' \in Nat
<1>1. ASSUME TypeOK, NEW tr PROVE Count(r, tr) \in Nat
  BY <1>1, WrittenFinite
<1>2. ASSUME TypeOK', NEW tr PROVE Count(r, tr)' \in Nat
  <2>1. audit'[r] \in Seq(Transitions)
    BY <1>2 DEF TypeOK
  <2>2. QED
    BY <2>1, EntriesFinite DEF Written, Count
<1>3. QED
  BY <1>1, <1>2 DEF Grants

LEMMA LogCounts ==
    ASSUME TypeOK, NEW r \in Rows, NEW tr \in Transitions, Log(r, tr)
    PROVE  \A q \in Rows, t \in Transitions :
              Count(q, t)' = Count(q, t) + (IF q = r /\ t = tr THEN 1 ELSE 0)
<1>1. audit \in [Rows -> Seq(Transitions)]
  BY DEF TypeOK
<1> DEFINE s == audit[r]
<1>2. /\ s \in Seq(Transitions) /\ Len(s) \in Nat /\ DOMAIN s = 1 .. Len(s)
      /\ audit'[r] = Append(s, tr)
      /\ DOMAIN audit'[r] = 1 .. (Len(s) + 1)
      /\ audit'[r][Len(s) + 1] = tr
      /\ \A i \in DOMAIN s : audit'[r][i] = s[i]
  BY <1>1 DEF Log
<1>3. Written(r, tr)' = Written(r, tr) \cup {Len(s) + 1} /\ Len(s) + 1 \notin Written(r, tr)
  BY <1>2 DEF Written
<1>4. Count(r, tr)' = Count(r, tr) + 1
  BY <1>3, WrittenFinite, FS_AddElement DEF Count
<1>5. ASSUME NEW q \in Rows, NEW t \in Transitions, q # r \/ t # tr
      PROVE  Count(q, t)' = Count(q, t) /\ Count(q, t) \in Nat
  BY <1>1, <1>5, LogWrites, WrittenFinite DEF Count
<1>6. QED
  BY <1>4, <1>5

\* An entry never takes a grant away, and one that is a grant adds one.
LEMMA LogGrants ==
    ASSUME TypeOK, NEW r \in Rows, NEW tr \in Transitions, Log(r, tr)
    PROVE  /\ \A q \in Rows : Grants(q)' >= Grants(q)
           /\ tr \in {"approved", "auto_approved", "retrying"}
                => Grants(r)' = Grants(r) + 1
<1>1. \A q \in Rows, t \in Transitions :
         /\ Count(q, t) \in Nat
         /\ Count(q, t)' = Count(q, t) + (IF q = r /\ t = tr THEN 1 ELSE 0)
  BY LogCounts, WrittenFinite
<1>2. {"approved", "auto_approved", "retrying"} \subseteq Transitions
  BY DEF Transitions
<1>3. QED
  BY <1>1, <1>2 DEF Grants

\* A step that starts no executor and arms no caller.
LEMMA BudgetKept ==
    ASSUME TypeOK, TypeOK', BudgetInv,
           \A r \in Rows : Grants(r)' >= Grants(r) /\ Armed(r)' \subseteq Armed(r),
           UNCHANGED attempts
    PROVE  BudgetInv'
<1> SUFFICES ASSUME NEW r \in Rows
             PROVE  /\ IsFiniteSet(Armed(r)')
                    /\ attempts'[r] + Cardinality(Armed(r)') <= Grants(r)'
  BY DEF BudgetInv
<1>1. IsFiniteSet(Armed(r)) /\ attempts[r] + Cardinality(Armed(r)) <= Grants(r)
  BY DEF BudgetInv
<1>2. /\ IsFiniteSet(Armed(r)') /\ Cardinality(Armed(r)') <= Cardinality(Armed(r))
      /\ Cardinality(Armed(r)') \in Nat /\ Cardinality(Armed(r)) \in Nat
  BY <1>1, FS_Subset, FS_CardinalityType
<1>3. Grants(r) \in Nat /\ Grants(r)' \in Nat
  BY GrantsType
<1>4. attempts'[r] = attempts[r] /\ attempts[r] \in Nat
  BY DEF TypeOK
<1>5. QED
  BY <1>1, <1>2, <1>3, <1>4

\* Adding an element to a finite set adds at most one to its size.
LEMMA OneMore ==
    ASSUME NEW S, NEW x, IsFiniteSet(S)
    PROVE  /\ IsFiniteSet(S \cup {x})
           /\ Cardinality(S \cup {x}) <= Cardinality(S) + 1
           /\ Cardinality(S \cup {x}) \in Nat /\ Cardinality(S) \in Nat
<1>1. /\ IsFiniteSet(S \cup {x})
      /\ Cardinality(S \cup {x}) = IF x \in S THEN Cardinality(S) ELSE Cardinality(S) + 1
  BY FS_AddElement
<1>2. Cardinality(S \cup {x}) \in Nat /\ Cardinality(S) \in Nat
  BY <1>1, FS_CardinalityType
<1>3. CASE x \in S
  BY <1>1, <1>2, <1>3
<1>4. CASE x \notin S
  BY <1>1, <1>2, <1>4
<1>5. QED
  BY <1>1, <1>3, <1>4, <1>2

\* An approval, an automatic approval or a retry arms one caller.
LEMMA BudgetArmed ==
    ASSUME TypeOK, TypeOK', BudgetInv, NEW c \in Callers, NEW r \in Rows,
           NEW tr \in {"approved", "auto_approved", "retrying"}, Log(r, tr),
           \A q \in Rows : Armed(q)' \subseteq Armed(q) \cup (IF q = r THEN {c} ELSE {}),
           UNCHANGED attempts
    PROVE  BudgetInv'
<1> SUFFICES ASSUME NEW q \in Rows
             PROVE  /\ IsFiniteSet(Armed(q)')
                    /\ attempts'[q] + Cardinality(Armed(q)') <= Grants(q)'
  BY DEF BudgetInv
<1> DEFINE more == Armed(q) \cup (IF q = r THEN {c} ELSE {})
<1>1. IsFiniteSet(Armed(q)) /\ attempts[q] + Cardinality(Armed(q)) <= Grants(q)
  BY DEF BudgetInv
<1>2. /\ IsFiniteSet(more)
      /\ Cardinality(more) <= Cardinality(Armed(q)) + (IF q = r THEN 1 ELSE 0)
      /\ Cardinality(more) \in Nat /\ Cardinality(Armed(q)) \in Nat
  <2>1. CASE q = r
    <3>1. /\ IsFiniteSet(Armed(q) \cup {c})
          /\ Cardinality(Armed(q) \cup {c}) <= Cardinality(Armed(q)) + 1
          /\ Cardinality(Armed(q) \cup {c}) \in Nat /\ Cardinality(Armed(q)) \in Nat
      BY <1>1, OneMore
    <3>2. QED
      BY <2>1, <3>1
  <2>2. CASE q # r
    BY <1>1, <2>2, FS_CardinalityType
  <2>3. QED
    BY <2>1, <2>2
<1>3. /\ IsFiniteSet(Armed(q)') /\ Cardinality(Armed(q)') <= Cardinality(more)
      /\ Cardinality(Armed(q)') \in Nat
  BY <1>2, FS_Subset, FS_CardinalityType
<1>4. /\ Grants(q) \in Nat /\ Grants(q)' \in Nat
      /\ Grants(q)' >= Grants(q) + (IF q = r THEN 1 ELSE 0)
  BY GrantsType, LogGrants DEF Transitions
<1>5. attempts'[q] = attempts[q] /\ attempts[q] \in Nat
  BY DEF TypeOK
<1>6. QED
  BY <1>1, <1>2, <1>3, <1>4, <1>5

\* A start uses up the grant of the caller that starts.
LEMMA BudgetSpent ==
    ASSUME TypeOK, TypeOK', BudgetInv, NEW r \in Rows, NEW c \in Armed(r),
           \A q \in Rows : Armed(q)' \subseteq Armed(q) \ (IF q = r THEN {c} ELSE {}),
           UNCHANGED audit,
           attempts' = [attempts EXCEPT ![r] = @ + 1]
    PROVE  BudgetInv'
<1> SUFFICES ASSUME NEW q \in Rows
             PROVE  /\ IsFiniteSet(Armed(q)')
                    /\ attempts'[q] + Cardinality(Armed(q)') <= Grants(q)'
  BY DEF BudgetInv
<1> DEFINE less == Armed(q) \ (IF q = r THEN {c} ELSE {})
<1>1. IsFiniteSet(Armed(q)) /\ attempts[q] + Cardinality(Armed(q)) <= Grants(q)
  BY DEF BudgetInv
<1>2. /\ IsFiniteSet(less)
      /\ Cardinality(less) = Cardinality(Armed(q)) - (IF q = r THEN 1 ELSE 0)
      /\ Cardinality(less) \in Nat /\ Cardinality(Armed(q)) \in Nat
  <2>1. CASE q = r
    BY <1>1, <2>1, FS_RemoveElement, FS_CardinalityType
  <2>2. CASE q # r
    BY <1>1, <2>2, FS_CardinalityType
  <2>3. QED
    BY <2>1, <2>2
<1>3. /\ IsFiniteSet(Armed(q)') /\ Cardinality(Armed(q)') <= Cardinality(less)
      /\ Cardinality(Armed(q)') \in Nat
  BY <1>2, FS_Subset, FS_CardinalityType
<1>4. Grants(q) \in Nat /\ Grants(q)' = Grants(q)
  BY GrantsType DEF Grants, Count, Written
<1>5. /\ attempts[q] \in Nat
      /\ attempts'[q] = attempts[q] + (IF q = r THEN 1 ELSE 0)
  BY DEF TypeOK
<1>6. QED
  BY <1>1, <1>2, <1>3, <1>4, <1>5

LEMMA BudgetStep ==
    TypeOK /\ TypeOK' /\ BudgetInv /\ [Next]_vars => BudgetInv'
<1> SUFFICES ASSUME TypeOK, TypeOK', BudgetInv, [Next]_vars PROVE BudgetInv'
  OBVIOUS
<1>a. /\ pc \in [Callers -> Steps] /\ row \in [Callers -> Rows \cup {None}]
      /\ \A c \in Callers : ~At(c, "idle") => row[c] \in Rows
      /\ None \notin Rows
  BY CallFacts
<1>b. ASSUME UNCHANGED audit
      PROVE  \A r \in Rows : Grants(r)' >= Grants(r)
  BY <1>b, GrantsType DEF Grants, Count, Written
<1> USE DEF At, Goto, Return, Start, queueVars, callVars, historyVars
<1>1. ASSUME NEW c \in Engines, NEW r \in Rows, ProposeCheck(c, r)
      PROVE BudgetInv'
  <2>1. \A q \in Rows : Armed(q)' \subseteq Armed(q)
    BY <1>1, <1>a DEF ProposeCheck, Armed, Callers
  <2>2. QED
    BY <1>1, <1>b, <2>1, BudgetKept DEF ProposeCheck
<1>2. ASSUME NEW c \in Requests, NEW r \in Rows, Approve(c, r)
      PROVE BudgetInv'
  <2>1. \A q \in Rows : Armed(q)' \subseteq Armed(q) \cup (IF q = r THEN {c} ELSE {})
    BY <1>2, <1>a DEF Approve, Decide, Armed, Callers
  <2>2. QED
    BY <1>2, <2>1, BudgetArmed DEF Approve, Decide, Callers
<1>3. ASSUME NEW c \in Requests, NEW r \in Rows, Reject(c, r)
      PROVE BudgetInv'
  <2>1. \A q \in Rows : Armed(q)' \subseteq Armed(q)
    BY <1>3 DEF Reject, Armed
  <2>2. QED
    BY <1>3, <2>1, LogGrants, BudgetKept DEF Reject, Decide, Transitions
<1>4. ASSUME NEW c \in Requests, NEW r \in Rows, Retry(c, r)
      PROVE BudgetInv'
  <2>1. \A q \in Rows : Armed(q)' \subseteq Armed(q) \cup (IF q = r THEN {c} ELSE {})
    BY <1>4, <1>a DEF Retry, Armed, Callers
  <2>2. QED
    BY <1>4, <2>1, BudgetArmed DEF Retry, Callers
<1>5. ASSUME NEW c \in Callers, ProposeInsert(c)
      PROVE BudgetInv'
  <2>1. \A q \in Rows : Armed(q)' \subseteq Armed(q)
    BY <1>5, <1>a DEF ProposeInsert, Armed
  <2>2. row[c] \in Rows
    BY <1>5, <1>a DEF ProposeInsert
  <2>3. QED
    BY <1>5, <1>b, <2>1, <2>2, LogGrants, BudgetKept DEF ProposeInsert, Transitions
<1>6. ASSUME NEW c \in Callers, AutoStamp(c)
      PROVE BudgetInv'
  <2>1. row[c] \in Rows
    BY <1>6, <1>a DEF AutoStamp
  <2>2. \A q \in Rows :
          Armed(q)' \subseteq Armed(q) \cup (IF q = row[c] THEN {c} ELSE {})
    BY <1>6, <1>a DEF AutoStamp, Armed
  <2>3. QED
    BY <1>6, <2>1, <2>2, BudgetArmed DEF AutoStamp
<1>7. ASSUME NEW c \in Callers, RunExecutor(c)
      PROVE BudgetInv'
  <2>1. row[c] \in Rows /\ c \in Armed(row[c])
    BY <1>7, <1>a DEF RunExecutor, Armed
  <2>2. \A q \in Rows :
          Armed(q)' \subseteq Armed(q) \ (IF q = row[c] THEN {c} ELSE {})
    BY <1>7, <1>a DEF RunExecutor, Armed
  <2>3. QED
    BY <1>7, <2>1, <2>2, BudgetSpent DEF RunExecutor
<1>8. ASSUME NEW c \in Callers, RecordOutcome(c)
      PROVE BudgetInv'
  <2>1. row[c] \in Rows /\ pc[c] \in Transitions
    BY <1>8, <1>a DEF RecordOutcome, Transitions
  <2>2. \A q \in Rows : Armed(q)' \subseteq Armed(q)
    BY <1>8, <1>a DEF RecordOutcome, Armed
  <2>3. QED
    BY <1>8, <2>1, <2>2, LogGrants, BudgetKept DEF RecordOutcome
<1>9. ASSUME NEW c \in Callers,
             \/ AutoCheck(c) \/ ExecuteLoad(c) \/ ExecuteAuthorise(c) \/ Abort(c)
      PROVE BudgetInv'
  <2>1. \A q \in Rows : Armed(q)' \subseteq Armed(q)
    BY <1>9, <1>a DEF AutoCheck, ExecuteLoad, ExecuteAuthorise, Abort, Armed
  <2>2. UNCHANGED <<audit, attempts>>
    BY <1>9 DEF AutoCheck, ExecuteLoad, ExecuteAuthorise, Abort
  <2>3. QED
    BY <1>b, <2>1, <2>2, BudgetKept
<1>10. CASE UNCHANGED vars
  <2>1. \A q \in Rows : Armed(q)' \subseteq Armed(q)
    BY <1>10 DEF vars, Armed
  <2>2. QED
    BY <1>10, <1>b, <2>1, BudgetKept DEF vars
<1>11. QED
  BY <1>1, <1>2, <1>3, <1>4, <1>5, <1>6, <1>7, <1>8, <1>9, <1>10 DEF Next, Advance

\* No executor is started without an entry of its own on the audit log.
THEOREM EveryStartIsLogged == Spec => []AttemptsAccounted
<1>1. Init => BudgetInv
  <2> SUFFICES ASSUME Init, NEW r \in Rows
               PROVE  /\ IsFiniteSet(Armed(r))
                      /\ attempts[r] + Cardinality(Armed(r)) <= Grants(r)
    BY DEF BudgetInv
  <2>1. /\ Armed(r) = {}
        /\ Written(r, "approved") = {} /\ Written(r, "auto_approved") = {}
        /\ Written(r, "retrying") = {}
    BY ConstantsAssumption DEF Init, Armed, Written
  <2>2. Cardinality({}) = 0 /\ IsFiniteSet({})
    BY FS_EmptySet
  <2>3. /\ Count(r, "approved") = 0 /\ Count(r, "auto_approved") = 0
        /\ Count(r, "retrying") = 0
    BY <2>1, <2>2 DEF Count
  <2>4. Grants(r) = 0
    BY <2>3 DEF Grants
  <2>5. attempts[r] = 0
    BY DEF Init
  <2>6. QED
    BY <2>1, <2>2, <2>4, <2>5
<1>2. TypeOK /\ BudgetInv => AttemptsAccounted
  <2> SUFFICES ASSUME TypeOK, BudgetInv, NEW r \in Rows
               PROVE  attempts[r] <= Grants(r)
    BY DEF AttemptsAccounted, Grants, Count
  <2>1. /\ attempts[r] \in Nat /\ Grants(r) \in Nat
        /\ attempts[r] + Cardinality(Armed(r)) <= Grants(r)
        /\ Cardinality(Armed(r)) \in Nat
    BY GrantsType, FS_CardinalityType DEF TypeOK, BudgetInv
  <2>2. QED
    BY <2>1
<1>3. QED
  BY <1>1, <1>2, BudgetStep, TypeCorrect, PTL DEF Spec
=============================================================================
