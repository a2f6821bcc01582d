------------------------- MODULE MCProposalDelivery -------------------------
(***************************************************************************)
(* Two scorings of one order by the score-writer and one customer scored   *)
(* by the churn scorer; a bus of one slot and reconciler passes of one     *)
(* row, so that drops and capped passes happen.                            *)
(***************************************************************************)
EXTENDS ProposalDelivery, TLC

CONSTANTS first, second, nudge, order, customer, streamer, churner

MCKey == [t \in Triggers |-> t]
MCScope == (first :> order) @@ (second :> order) @@ (nudge :> customer)
MCMaker == (first :> streamer) @@ (second :> streamer) @@ (nudge :> churner)

\* Nobody decides the customer's proposal: it shares its entity with no other
\* and its row is never archived, so its status after the proposal is read by
\* nothing.  This cuts Decide steps, which no fairness condition is about.
NobodyDecidesNudge ==
    queue[nudge] # "absent" => UNCHANGED queue[nudge]

\* The two scorings of the order differ only in name, and one producer makes
\* both: call first the one it inserts first.
FirstComesFirst ==
    stored[first] = "none" => UNCHANGED stored[second]
=============================================================================
