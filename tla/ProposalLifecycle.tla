------------------------- MODULE ProposalLifecycle -------------------------
(***************************************************************************)
(* What the governance layer promises about one proposal, with no mention  *)
(* of transactions, audit rows or concurrent callers: a proposal is        *)
(* decided once, its action is performed only while it stands approved,    *)
(* and "executed" and "rejected" are final.  ActionQueue is the detailed   *)
(* specification; it implements this one for approval_required proposals.  *)
(***************************************************************************)
CONSTANT Proposals

VARIABLES state,   \* state[p]: where proposal p stands
          done     \* done[p]: the business effect of p has been applied

lifecycleVars == <<state, done>>

LifecycleStates ==
    {"absent", "pending", "approved", "rejected", "executed", "failed"}

LifecycleInit ==
    /\ state = [p \in Proposals |-> "absent"]
    /\ done = [p \in Proposals |-> FALSE]

Move(p, from, to) ==
    /\ state[p] = from
    /\ state' = [state EXCEPT ![p] = to]
    /\ UNCHANGED done

\* The only way the outside world changes on behalf of p.
Perform(p) ==
    /\ state[p] = "approved"
    /\ done' = [done EXCEPT ![p] = TRUE]
    /\ UNCHANGED state

Succeed(p) == done[p] /\ Move(p, "approved", "executed")

LifecycleNext ==
    \E p \in Proposals :
        \/ Move(p, "absent", "pending")
        \/ Move(p, "pending", "approved")
        \/ Move(p, "pending", "rejected")
        \/ Perform(p)
        \/ Succeed(p)
        \/ Move(p, "approved", "failed")
        \/ Move(p, "failed", "approved")

LifecycleSpec == LifecycleInit /\ [][LifecycleNext]_lifecycleVars
=============================================================================
