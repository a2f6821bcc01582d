--------------------------------- MODULE Server ---------------------------------
(***************************************************************************)
(* The streaming half of the server process (api/cmd/server/main.go): the   *)
(* bronze writer, the aggregator and the reconcile loop of BronzeLanding    *)
(* and the feed of LiveFeed, from boot to the end of a shutdown.  They meet *)
(* in the aggregator, whose flush writes its rows and then publishes the    *)
(* newest bucket, in the table that boot seeds the feed from, and in the    *)
(* signal that cancels the context of every goroutine.                      *)
(***************************************************************************)
EXTENDS BronzeLanding, LiveFeed

CONSTANTS
    Loads       \* bound: what happens, [topic, clients, stuck, parts, faults, ends]:
                \* the records, the clients that connect, those of them that may
                \* stop reading, which of Parts have work, the database errors,
                \* the ends of the process

Parts == {"bronze", "aggregator", "scorewriter"}

ASSUME ServerAssumption ==
    \A l \in Loads :
          /\ l.topic \in Seq(Nat \ {0})
          /\ l.clients \subseteq Clients /\ l.stuck \subseteq l.clients
          /\ l.parts \subseteq Parts
          /\ {l.faults, l.ends} \subseteq Nat

VARIABLES
    load,     \* which of Loads this is
    phase,    \* of the process: "down", "up", then "http" and "grpc" while the
              \* listeners are shut down
    flushed,  \* the minutes that the aggregator's flush in hand began with
    final,    \* goroutines that have made their last flush
    ends      \* bound: ends of the process still to come

vars == <<landing, feed, load, phase, flushed, final, ends>>

Stopping == phase \in {"http", "grpc"}

NewestOf(buckets) ==
    LET m == CHOOSE k \in DOMAIN buckets : \A n \in DOMAIN buckets : n <= k
    IN  [minute |-> m, records |-> buckets[m]]

Init ==
    /\ load \in Loads
    /\ LandingInit(load.topic, load.faults) /\ FeedInit
    /\ phase = "down" /\ flushed = {} /\ final = {} /\ ends = load.ends

\* seedBroadcaster, before any consumer starts.
Boot ==
    /\ phase = "down"
    /\ phase' = "up"
    /\ \/ /\ rows # <<>> /\ Publish(NewestOf(rows)) /\ UNCHANGED faults
       \/ /\ IF rows = <<>> THEN UNCHANGED faults ELSE Fault
          /\ UNCHANGED <<last, channel>>
    /\ UNCHANGED <<topic, writer, aggregator, rows, recompute, stage, seen, copied, surfaced,
                   load, flushed, final, ends>>

Lifecycle == <<load, phase, final, ends>>

-----------------------------------------------------------------------------
(* While the process is up *)

BronzeStep ==
    /\ phase = "up" /\ "bronze" \in load.parts
    /\ \/ Fetch \/ Ingest \/ TickerFlush \/ ConsumerFlush
       \/ \E g \in Goroutines : InsertRows(g) \/ (InsertError(g) /\ Fault)
    /\ UNCHANGED <<feed, flushed, Lifecycle>>

ReconcileStep ==
    /\ phase = "up" /\ "bronze" \in load.parts
    /\ ReconcileRead \/ ReconcileWrite
    /\ UNCHANGED <<feed, flushed, Lifecycle>>

FoldStep ==
    /\ phase = "up" /\ "aggregator" \in load.parts
    /\ Fold
    /\ UNCHANGED <<feed, flushed, Lifecycle>>

\* The aggregator's flush looks at its minutes, and once more after the signal.
FlushBegin ==
    /\ flushed = {} /\ hot # <<>>
    /\ \/ phase = "up" /\ UNCHANGED final
       \/ Stopping /\ "aggregator" \notin final /\ final' = final \union {"aggregator"}
    /\ flushed' = DOMAIN hot
    /\ UNCHANGED <<landing, feed, load, phase, ends>>

\* It writes them and publishes the newest of them as it is in memory.  That one
\* may be gone, when the stream has moved on: then an update with no bucket, for
\* an anomaly that the flush has found, or none.
FlushWrite ==
    /\ flushed # {}
    /\ Persist(flushed)
    /\ LET m == CHOOSE k \in flushed : \A n \in flushed : n <= k IN
       IF m \in DOMAIN hot' THEN Publish([minute |-> m, records |-> hot[m]])
       ELSE \/ m > restored /\ Publish(Nothing)
            \/ UNCHANGED <<last, channel>>
    /\ flushed' = {}
    /\ UNCHANGED <<faults, stage, seen, copied, surfaced, Lifecycle>>

\* Its statement fails: the signal cancels the context of every flush but the last.
FlushError ==
    /\ flushed # {}
    /\ Fault \/ (Stopping /\ "aggregator" \notin final /\ UNCHANGED faults)
    /\ flushed' = {}
    /\ UNCHANGED <<topic, writer, aggregator, rows, recompute, feed, Lifecycle>>

SurfaceStep ==
    /\ phase = "up" /\ "scorewriter" \in load.parts
    /\ SurfaceCopy \/ SurfacePublish
    /\ UNCHANGED <<landing, flushed, Lifecycle>>

-----------------------------------------------------------------------------
(* Clients *)

\* A connection is accepted until its listener is shut down.
ConnectStep(c) ==
    /\ phase = "up" \/ (phase = "http" /\ c \in GRPC)
    /\ c \in load.clients
    /\ Connect(c)
    /\ UNCHANGED <<landing, flushed, Lifecycle>>

ServeStep(c) ==
    /\ phase # "down"
    /\ Join(c) \/ Receive(c)
    /\ UNCHANGED <<landing, flushed, Lifecycle>>

LeaveStep(c) ==
    /\ phase # "down" /\ Leave(c)
    /\ UNCHANGED <<landing, flushed, Lifecycle>>

-----------------------------------------------------------------------------
(* Shutdown *)

\* SIGTERM cancels the context: a reconcile pass in flight ends in an error.
Signal ==
    /\ phase = "up" /\ ends > 0
    /\ phase' = "http"
    /\ recompute' = NoPass
    /\ UNCHANGED <<topic, writer, aggregator, rows, faults, feed, load, flushed, final, ends>>

\* What the writer does after the signal: the fetch at hand is ingested and the
\* queue looked at, the ticker's goroutine flushes once more, and statements
\* under the cancelled context fail.
WindDown ==
    /\ Stopping
    /\ \/ (Ingest \/ ConsumerFlush) /\ UNCHANGED final
       \/ "ticker" \notin final /\ TickerFlush /\ final' = final \union {"ticker"}
       \/ "ticker" \in final /\ InsertRows("ticker") /\ UNCHANGED final
       \/ "ticker" \in final /\ InsertError("ticker") /\ Fault /\ UNCHANGED final
       \/ \E g \in Goroutines \ final : InsertError(g) /\ UNCHANGED <<faults, final>>
    /\ UNCHANGED <<feed, load, phase, flushed, ends>>

\* httpSrv.Shutdown waits for its connections, but no longer than 15 seconds.
HttpShutdown ==
    /\ phase = "http"
    /\ phase' = "grpc"
    /\ UNCHANGED <<landing, feed, load, flushed, final, ends>>

Gone ==
    /\ phase' = "down" /\ flushed' = {} /\ final' = {} /\ ends' = ends - 1
    /\ LandingLost /\ FeedLost
    /\ UNCHANGED load

\* Mutant: the server stops without asking its gRPC clients.
ExitAtOnce == phase = "grpc" /\ Gone

\* GracefulStop waits for every stream, as long as it takes; run then returns,
\* whether or not the consumers are done.
Exit ==
    /\ phase = "grpc"
    /\ \A c \in GRPC : stage[c] = "away"
    /\ Gone

Crash ==
    /\ phase # "down" /\ ends > 0
    /\ Gone

Next ==
    \/ Boot \/ BronzeStep \/ ReconcileStep \/ FoldStep \/ SurfaceStep
    \/ FlushBegin \/ FlushWrite \/ FlushError
    \/ \E c \in Clients : ConnectStep(c) \/ ServeStep(c) \/ LeaveStep(c)
    \/ Signal \/ WindDown \/ HttpShutdown \/ Exit \/ Crash

-----------------------------------------------------------------------------
(* The goroutines and tickers run while the process does, each with the next *)
(* of its statements; nobody owes a connection, a signal or a crash, and a    *)
(* stuck client not even a read.                                             *)
Consumer == Fetch \/ Ingest \/ ConsumerFlush \/ InsertRows("consumer")
Ticker == TickerFlush \/ InsertRows("ticker")
Runs(A) == phase = "up" /\ "bronze" \in load.parts /\ A /\ UNCHANGED <<feed, flushed, Lifecycle>>

Fairness ==
    /\ WF_vars(Boot \/ HttpShutdown \/ Exit)
    /\ WF_vars(FoldStep) /\ WF_vars(FlushBegin \/ FlushWrite)
    /\ WF_vars(Runs(Consumer)) /\ WF_vars(Runs(Ticker))
    /\ WF_vars(ReconcileStep) /\ WF_vars(SurfaceStep)
    /\ \A c \in Clients : WF_vars(c \notin load.stuck /\ ServeStep(c))

Spec == Init /\ [][Next]_vars
FairSpec == Spec /\ Fairness

-----------------------------------------------------------------------------
\* The variables of both halves keep their types; what is down holds nothing.
TypeOK ==
    /\ load \in Loads /\ LandingTypeOK /\ FeedTypeOK
    /\ phase \in {"down", "up", "http", "grpc"}
    /\ phase = "down" => hot = <<>> /\ pending = <<>> /\ Subscribers = {} /\ flushed = {}
    /\ final \subseteq {"ticker", "aggregator"} /\ ends \in 0 .. load.ends


\* A client that reads comes to show the aggregator's newest bucket once the
\* records end, although updates were dropped, missed between its two calls, or
\* followed by an older bucket that the score-writer had copied (service.go:
\* "without disturbing the current live bucket"), and although another client
\* has stopped reading (broadcaster.go: "rather than allowed to block the
\* aggregator").
ClientsCatchUp == <>[](phase = "up" =>
    \A c \in Clients \ load.stuck :
        stage[c] = "on" /\ hot # <<>> => seen[c] = NewestOf(hot))

\* A server that was told to stop stops (grpcapi/server.go: "until the client
\* disconnects or the server shuts down").
StopsEventually == Stopping ~> phase = "down"
=============================================================================
