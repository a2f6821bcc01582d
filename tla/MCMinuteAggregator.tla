--------------------------- MODULE MCMinuteAggregator ---------------------------
EXTENDS MinuteAggregator

Order(m, o) == [minute |-> m, kind |-> "order", id |-> o]
Skip(m) == [minute |-> m, kind |-> "skip", id |-> "none"]
Click(m, s) == [minute |-> m, kind |-> "click", id |-> s]

\* A record as late as the eviction lag allows; a jump back to a new timeline, with
\* the buckets of the old one in memory.
MCTopics == { << Order(6, "a"), Order(8, "b"), Click(6, "s"), Order(9, "c") >>,
              << Order(6, "a"), Skip(8), Order(1, "b") >> }

\* The producer's own disorder: an order's clicks reach back further than the
\* eviction lag behind the order before it.
LateTopics == {<< Order(5, "a"), Order(9, "b"), Click(5, "s"), Order(10, "c") >>}

\* The hypothesis of the theorems on rows holds in the run that checks them.
ASSUME Topics = MCTopics => LateIsFirst

MCMetrics == {"revenue"}
=============================================================================
