--------------------------- MODULE MCReconciledFeeds ---------------------------
EXTENDS ReconciledFeeds, TLC

MCPopulation == {1, 2}

\* The customer scored first is the lesser risk of the first version.
MCRisk == << [c \in MCPopulation |-> 6 + c], [c \in MCPopulation |-> 9 - c] >>

\* The model that drift_check measures: no customer's and no category's number,
\* as TLC compares the entities of all proposals.
Monitored == 0

\* A run that a batch of one row cuts before its critical row.
CutRun == << [model |-> Monitored, at |-> 1, status |-> "warning"],
             [model |-> Monitored, at |-> 1, status |-> "critical"] >>
LaterRun == << [model |-> Monitored, at |-> 2, status |-> "critical"] >>

\* The first version of the forecast model does not know the second category.
MCCategories == {1, 2}
MCRanked == << {1}, {1, 2} >>
MCSurge == << {1}, {1, 2} >>

Versions(churn, forecast) == [churn |-> churn, forecast |-> forecast]

NoWork == [customers |-> {}, categories |-> {}, versions |-> Versions(1, 1), writes |-> <<>>]
With(work, armings) == [armings |-> armings] @@ work

\* A promotion while the population is scored; one while the categories are
\* forecast, and two runs of the monitor, each with a rule that a restart may
\* enable or disable; and two feeds at once.
MCScenes ==
    { With([NoWork EXCEPT !.customers = {1, 2}, !.versions = Versions(2, 1)], {{"churn"}}),
      With([NoWork EXCEPT !.categories = {1, 2}, !.versions = Versions(1, 2)], {{}, {"forecast"}}),
      With([NoWork EXCEPT !.writes = <<CutRun, LaterRun>>], {{}, {"drift"}}),
      With([NoWork EXCEPT !.customers = {1}, !.writes = <<CutRun>>], {{"churn", "drift"}}),
      With([NoWork EXCEPT !.customers = {1}, !.categories = {1}], {{"churn", "forecast"}}) }

\* The hypothesis of CursorsCover.
ASSUME SwitchedTogether
=============================================================================
