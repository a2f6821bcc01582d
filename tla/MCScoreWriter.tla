--------------------------- MODULE MCScoreWriter ---------------------------
(***************************************************************************)
(* An orders partition over a loop boundary, in order, and a clickstream   *)
(* partition whose second session ended five seconds before its first; a   *)
(* gate of three records that waits four seconds.                           *)
(***************************************************************************)
EXTENDS ScoreWriter

CONSTANTS orders, clicks, l0, l1

Record(kind, at, loop) == [kind |-> kind, at |-> at, loop |-> loop]

MCLog ==
    [p \in Partitions |->
        IF p = orders
        THEN <<Record("order", 1, l0), Record("order", 9, l1)>>
        ELSE <<Record("session", 7, l0), Record("other", 8, l0), Record("session", 2, l0)>>]

\* One partition, in order of event time.
OneLog == [p \in Partitions |-> <<Record("order", 1, l0), Record("order", 6, l0)>>]
=============================================================================
