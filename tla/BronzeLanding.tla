----------------------------- MODULE BronzeLanding -----------------------------
(***************************************************************************)
(* Two consumers read the same records, each in its own consumer group: the *)
(* bronze writer (api/internal/realtime/bronze_writer.go) lands every       *)
(* record in bronze.stream_events, and the aggregator sums the records of a *)
(* minute into gold.realtime_metrics.  The reconcile pass (reconcile.go)    *)
(* recomputes those rows from bronze.                                       *)
(*                                                                          *)
(* The writer has two goroutines that flush, the one that consumes when     *)
(* enough is pending and the one with the ticker; they share the queue of   *)
(* pending rows.  Of the aggregator there is only what meets the reconcile  *)
(* pass; MinuteAggregator has the rest.  The module has no specification of *)
(* its own: Server runs these steps within the life of the process.         *)
(***************************************************************************)
EXTENDS Integers, SequencesExt, Functions

CONSTANTS
    FetchSize,  \* bound on the records of one fetch
    FlushAt,    \* pending rows at which the consuming goroutine flushes (code: 256)
    Chunk,      \* rows of one INSERT (code: 1000)
    EvictLag    \* a minute leaves memory this far behind the watermark (code: 10)

ASSUME LandingAssumption ==
    /\ {FetchSize, FlushAt, Chunk} \subseteq Nat \ {0}
    /\ EvictLag \in Nat

VARIABLES
    topic,      \* the records, by their minute; a record is its position here
    polled,     \* bronze group: records fetched
    position,   \* of these, ingested
    batch,      \* where the last fetch began: all before it is committable
    unchecked,  \* a fetch was ingested, the length of the queue not looked at
    committed,  \* the position the process resumed from
    pending,    \* w.pending
    flights,    \* rows each goroutine took off the queue and has yet to write
    bronze,     \* bronze.stream_events
    folded,     \* aggregator's group: records folded
    resumed,    \* the position the aggregator resumed from
    hot,        \* a.buckets: minute -> records
    watermark,  \* newest minute folded
    restored,   \* the cursor read at boot, 0 for none
    rows,       \* gold.realtime_metrics: minute -> records counted
    recompute,  \* the bronze rows a reconcile pass has read
    faults      \* bound: database errors still to come

writer == <<polled, position, batch, unchecked, committed, pending, flights, bronze>>
aggregator == <<folded, resumed, hot, watermark, restored>>
landing == <<topic, writer, aggregator, rows, recompute, faults>>

Goroutines == {"consumer", "ticker"}
NoPass == {0}

AtMost(a, b) == IF a < b THEN a ELSE b

Fault == faults > 0 /\ faults' = faults - 1

-----------------------------------------------------------------------------
(* The bronze writer *)

\* PollFetches: what earlier fetches brought becomes committable.
Fetch ==
    /\ position = polled /\ ~unchecked /\ flights["consumer"] = <<>>
    /\ polled < Len(topic) \/ batch < position
    /\ polled' = AtMost(polled + FetchSize, Len(topic))
    /\ batch' = position
    /\ unchecked' = (polled' > polled)
    /\ UNCHANGED <<topic, position, committed, pending, flights, bronze, aggregator, rows, recompute, faults>>

\* ingest
Ingest ==
    /\ position < polled
    /\ pending' = Append(pending, position + 1)
    /\ position' = position + 1
    /\ UNCHANGED <<topic, polled, batch, unchecked, committed, flights, bronze, aggregator, rows, recompute, faults>>

TakeOff(g) ==
    /\ flights' = [flights EXCEPT ![g] = pending]
    /\ pending' = <<>>

\* flush takes the whole queue: the ticker's whenever there are rows ...
TickerFlush ==
    /\ pending # <<>> /\ flights["ticker"] = <<>>
    /\ TakeOff("ticker")
    /\ UNCHANGED <<topic, polled, position, batch, unchecked, committed, bronze, aggregator, rows, recompute, faults>>

\* ... the consumer's once after each fetch, when enough are pending.
ConsumerFlush ==
    /\ unchecked /\ position = polled
    /\ unchecked' = FALSE
    /\ IF Len(pending) >= FlushAt THEN TakeOff("consumer") ELSE UNCHANGED <<pending, flights>>
    /\ UNCHANGED <<topic, polled, position, batch, committed, bronze, aggregator, rows, recompute, faults>>

Statement(g) == SubSeq(flights[g], 1, AtMost(Chunk, Len(flights[g])))

\* One statement of at most Chunk rows; a row that is there already is left.
InsertRows(g) ==
    /\ flights[g] # <<>>
    /\ bronze' = bronze \union Range(Statement(g))
    /\ flights' = [flights EXCEPT ![g] = SubSeq(@, Len(Statement(g)) + 1, Len(@))]
    /\ UNCHANGED <<topic, polled, position, batch, unchecked, committed, pending, aggregator, rows, recompute, faults>>

\* Mutant: the statement that failed is given up, the rest put back.
RequeueRest(g) == SubSeq(flights[g], Len(Statement(g)) + 1, Len(flights[g])) \o pending

\* requeue: every row not written goes back to the front.
Requeue(g) == flights[g] \o pending

\* insertRows returns an error, with its rows written or not.
InsertError(g) ==
    /\ flights[g] # <<>>
    /\ bronze' \in {bronze, bronze \union Range(Statement(g))}
    /\ pending' = Requeue(g)
    /\ flights' = [flights EXCEPT ![g] = <<>>]
    /\ UNCHANGED <<topic, polled, position, batch, unchecked, committed, aggregator, rows, recompute>>

-----------------------------------------------------------------------------
(* The aggregator, as far as its rows go *)

Fold ==
    /\ folded < Len(topic)
    /\ LET r == folded + 1  m == topic[r] IN
       /\ hot' = [k \in DOMAIN hot \union {m} |->
                    (IF k \in DOMAIN hot THEN hot[k] ELSE {}) \union (IF k = m THEN {r} ELSE {})]
       /\ watermark' = IF m > watermark THEN m ELSE watermark
       /\ folded' = r
    /\ UNCHANGED <<topic, writer, resumed, restored, rows, recompute, faults>>

\* persistBuckets under its mutex, for the minutes that the flush began with:
\* those finished before the restart are dropped, the others written over their
\* rows; then the oldest minutes are forgotten, if any was written.
Persist(starts) ==
    LET keep == {m \in starts \intersect DOMAIN hot : m > restored} IN
    /\ rows' = [m \in DOMAIN rows \union keep |-> IF m \in keep THEN hot[m] ELSE rows[m]]
    /\ hot' = Restrict(hot, {m \in DOMAIN hot :
                 /\ m \in starts => m \in keep
                 /\ keep # {} => m >= watermark - EvictLag})
    /\ UNCHANGED <<topic, writer, folded, resumed, watermark, restored, recompute>>

-----------------------------------------------------------------------------
(* The reconcile pass *)


\* The statement reads bronze as it is when it starts ...
ReconcileRead ==
    /\ recompute = NoPass
    /\ recompute' = bronze
    /\ UNCHANGED <<topic, writer, aggregator, rows, faults>>

\* ... and overwrites the rows of the minutes it found, later.
ReconcileWrite ==
    /\ recompute # NoPass
    /\ LET touched == {topic[r] : r \in recompute} IN
       \/ /\ rows' = [m \in DOMAIN rows \union touched |->
                IF m \in touched THEN {r \in recompute : topic[r] = m} ELSE rows[m]]
          /\ UNCHANGED faults
       \/ Fault /\ UNCHANGED rows
    /\ recompute' = NoPass
    /\ UNCHANGED <<topic, writer, aggregator>>

-----------------------------------------------------------------------------
LandingInit(t, f) ==
    /\ topic = t /\ faults = f
    /\ polled = 0 /\ position = 0 /\ batch = 0 /\ committed = 0 /\ unchecked = FALSE
    /\ pending = <<>> /\ flights = [g \in Goroutines |-> <<>>] /\ bronze = {}
    /\ folded = 0 /\ resumed = 0 /\ hot = <<>> /\ watermark = 0 /\ restored = 0
    /\ rows = <<>> /\ recompute = NoPass

\* The process is gone: both groups resume where the client's own commits have
\* got to, the aggregator with the cursor that it saved last.
LandingLost ==
    /\ committed' \in committed .. batch
    /\ polled' = committed' /\ position' = committed' /\ batch' = committed' /\ unchecked' = FALSE
    /\ pending' = <<>> /\ flights' = [g \in Goroutines |-> <<>>]
    /\ resumed' \in resumed .. folded /\ folded' = resumed'
    /\ restored' \in {restored} \union {topic[r] : r \in {n \in resumed + 1 .. folded :
           topic[n] \in DOMAIN rows /\ restored < topic[n] /\ topic[n] < watermark}}
    /\ hot' = <<>> /\ watermark' = 0 /\ recompute' = NoPass
    /\ UNCHANGED <<topic, bronze, rows, faults>>

LandingTypeOK ==
    /\ 0 <= committed /\ committed <= batch /\ batch <= position
    /\ position <= polled /\ polled <= Len(topic)
    /\ resumed \in 0 .. folded /\ folded <= Len(topic)
    /\ bronze \subseteq DOMAIN topic
    /\ Range(pending) \union UNION {Range(flights[g]) : g \in Goroutines} \subseteq DOMAIN topic
    /\ DOMAIN hot \union DOMAIN rows \subseteq Range(topic)
    /\ \A m \in DOMAIN rows : \A r \in rows[m] : topic[r] = m
    /\ faults \in Nat

\* What the process has ingested since it started is written, queued or on its
\* way: two goroutines that take rows off one queue, and put them back when a
\* statement fails, lose none (bronze_writer.go: "previously a failed flush ...
\* and the batch was gone").  Records below the resumed position are another
\* matter: the commits of the client do not wait for the rows.
NoneIngestedLost == \A r \in committed + 1 .. position :
    \/ r \in bronze \union Range(pending)
    \/ \E g \in Goroutines : r \in Range(flights[g])
=============================================================================
