---------------------------- MODULE MinuteAggregator ----------------------------
(***************************************************************************)
(* The realtime aggregator (api/internal/realtime/aggregator.go): one       *)
(* goroutine folds the order and clickstream topics into minute buckets,    *)
(* another flushes every flushEvery: it analyses the closed buckets, then   *)
(* upserts all buckets into gold.realtime_metrics, then inserts the         *)
(* anomalies, then saves the detector with the analysis cursor.  The two    *)
(* meet only under the mutex a.mu, held for each of the steps below and     *)
(* released between them.  A restart re-reads the topic from the committed  *)
(* offset and resumes the detector from what was saved.                     *)
(***************************************************************************)
EXTENDS Integers, Sequences, FiniteSets, Functions

CONSTANTS
    Topics,      \* the record sequences to consider, in fetch order: records
                 \* [minute, kind, id], kind one of Kinds
    CloseLag,    \* a minute closes this far behind the watermark (code: 1)
    EvictLag,    \* and leaves memory this far behind it (code: 10)
    RegressLag,  \* a jump back beyond this starts a new timeline (code: 60)
    Now,         \* the minute of the wall clock
    Warmup,      \* observations before the detector may trigger (code: 20)
    Metrics,     \* what the detector watches (code: revenue and orders)
    FetchSize,   \* bound on the records of one fetch
    MaxCrashes,  \* bound on restarts
    MaxFaults    \* bound on database errors

\* "skip" stands for a lost or unpaid order, a click of no session, an event
\* of another type, or a payload that does not decode: it moves the clock and
\* touches no bucket.
Kinds == {"order", "click", "skip"}

ASSUME TopicAssumption ==
    \A t \in Topics :
        /\ Len(t) \in Nat /\ DOMAIN t = 1 .. Len(t)
        /\ \A i \in DOMAIN t : t[i].minute \in Nat \ {0} /\ t[i].kind \in Kinds
ASSUME LagAssumption ==
    /\ {CloseLag, EvictLag, RegressLag, Now, Warmup, MaxCrashes, MaxFaults} \subseteq Nat
    /\ FetchSize \in Nat \ {0}
    /\ CloseLag <= EvictLag /\ EvictLag <= RegressLag

\* A record of a minute that an earlier record has named is no later than the
\* eviction lag.  LateTopics of MCMinuteAggregator does not satisfy it.
LateIsFirst ==
    \A t \in Topics : \A i, j, k \in DOMAIN t :
        /\ i < k /\ j < k
        /\ t[i].minute = t[k].minute /\ t[i].kind # "skip" /\ t[k].kind # "skip"
        => t[j].minute <= t[k].minute + EvictLag

VARIABLES
    topic,          \* what the broker holds
    polled,         \* records fetched by the consumer
    position,       \* of these, ingested
    batch,          \* where the last fetch began: all before it is committable
    committed,      \* the offset the process resumed from
    held,           \* the next record has moved the clock, not yet a bucket
    buckets,        \* a.buckets: minute -> [orders, sessions, flag]
    lastAnalyzed,   \* newest analysed minute, 0 for none
    watermark,      \* newest minute seen, 0 for none
    restored,       \* the cursor read at boot, 0 for none
    idle,           \* nothing ingested for a flush interval
    folds,          \* what the detector has accumulated, in order
    stage,          \* where the flushing goroutine is
    starts,         \* the minutes in memory when the flush began
    found,          \* anomalies of this flush still to insert
    rows,           \* gold.realtime_metrics
    anomalies,      \* gold.anomalies (detector = 'statistical')
    saved,          \* gold.detector_state with gold.aggregator_state
    crashes, faults,
    jumps,          \* times event time jumped back (history)
    cold            \* a boot could not read the saved detector (history)

consumer == <<topic, polled, position, batch, committed, held>>
memory == <<buckets, lastAnalyzed, watermark, restored, idle, folds>>
flusher == <<stage, starts, found>>
tables == <<rows, anomalies, saved>>
history == <<crashes, faults, jumps, cold>>
vars == <<consumer, memory, flusher, tables, history>>

EmptyBucket == [orders |-> {}, sessions |-> {}, flag |-> FALSE]
NoDetector == [folds |-> <<>>, cursor |-> 0]

-----------------------------------------------------------------------------
\* Mutant: an idle stream closes nothing.
ClosedByStreamOnly(m) == m < watermark - CloseLag

Closed(m) ==
    \/ m < watermark - CloseLag
    \/ idle /\ m < Now - CloseLag

\* Mutant: a bucket leaves memory one minute too early.
EvictableEarly(m) == m <= watermark - EvictLag

Evictable(m) == m < watermark - EvictLag

\* How far event time may jump backwards before it counts as a restart.
Regresses(m) == lastAnalyzed # 0 /\ m < lastAnalyzed - RegressLag

\* The bucket with the record folded in: ids are kept in sets, so a record
\* delivered twice counts once.
Folded(b, r) ==
    CASE r.kind = "order" -> [b EXCEPT !.orders = @ \union {r.id}]
      [] r.kind = "click" -> [b EXCEPT !.sessions = @ \union {r.id}]

Write(f, m, v) == [k \in DOMAIN f \union {m} |-> IF k = m THEN v ELSE f[k]]

-----------------------------------------------------------------------------
Init ==
    /\ topic \in Topics
    /\ polled = 0 /\ position = 0 /\ batch = 0 /\ committed = 0 /\ held = FALSE
    /\ buckets = <<>> /\ lastAnalyzed = 0 /\ watermark = 0 /\ restored = 0
    /\ idle = FALSE /\ folds = <<>>
    /\ stage = "idle" /\ starts = {} /\ found = {}
    /\ rows = <<>> /\ anomalies = {} /\ saved = NoDetector
    /\ crashes = 0 /\ faults = 0 /\ jumps = 0 /\ cold = FALSE

\* Mutant: records are committable as soon as they are fetched.
PollCommitsFetched ==
    /\ stage # "boot" /\ position = polled
    /\ polled < Len(topic) \/ batch < position
    /\ polled' = IF polled + FetchSize > Len(topic) THEN Len(topic) ELSE polled + FetchSize
    /\ batch' = polled'
    /\ UNCHANGED <<topic, position, committed, held, memory, flusher, tables, history>>

\* PollFetches: the records of the earlier fetches become committable, whether
\* or not there are new ones.
Poll ==
    /\ stage # "boot" /\ position = polled
    /\ polled < Len(topic) \/ batch < position
    /\ polled' = IF polled + FetchSize > Len(topic) THEN Len(topic) ELSE polled + FetchSize
    /\ batch' = position
    /\ UNCHANGED <<topic, position, committed, held, memory, flusher, tables, history>>

\* ingest, first lock hold: the record's minute moves the stream's clock.  A jump
\* back forgets the cursor and leaves the buckets of before it in memory.
Advance ==
    /\ stage # "boot" /\ position < polled /\ ~held
    /\ LET m == topic[position + 1].minute IN
       /\ IF Regresses(m)
          THEN lastAnalyzed' = 0 /\ restored' = 0 /\ watermark' = m /\ jumps' = jumps + 1
          ELSE /\ watermark' = IF m > watermark THEN m ELSE watermark
               /\ UNCHANGED <<lastAnalyzed, restored, jumps>>
       /\ idle' = FALSE
    /\ held' = TRUE
    /\ UNCHANGED <<topic, polled, position, batch, committed, buckets, folds, flusher, tables,
                   crashes, faults, cold>>

\* ingest, second lock hold: observe or observeSession.
Observe ==
    /\ held
    /\ LET r == topic[position + 1]
           b == IF r.minute \in DOMAIN buckets THEN buckets[r.minute] ELSE EmptyBucket
       IN  buckets' = IF r.kind = "skip" THEN buckets
                      ELSE Write(buckets, r.minute, Folded(b, r))
    /\ position' = position + 1
    /\ held' = FALSE
    /\ UNCHANGED <<topic, polled, batch, committed, lastAnalyzed, watermark, restored, idle, folds,
                   flusher, tables, history>>

\* No record for flushEvery.
Quiet ==
    /\ ~idle /\ watermark # 0 /\ position = polled /\ stage # "boot"
    /\ idle' = TRUE
    /\ UNCHANGED <<consumer, buckets, lastAnalyzed, watermark, restored, folds, flusher,
                   tables, history>>

-----------------------------------------------------------------------------
\* Evaluate: which of the next n buckets deviate is left open, but none does
\* before the warm-up is over.
Hits(n) == {h \in [1 .. n -> SUBSET Metrics] :
                \A i \in 1 .. n : Len(folds) + i - 1 < Warmup => h[i] = {}}

\* detectBucketLocked: what the detector takes from the bucket of minute m,
\* whichever records filled it, and after how many jumps.
Fold(m, hits) == [minute |-> m, orders |-> buckets[m].orders, hits |-> hits, jumps |-> jumps]

\* The minutes of S, oldest first.
Ascending(S) ==
    {o \in [1 .. Cardinality(S) -> S] :
        /\ \A m \in S : \E i \in DOMAIN o : o[i] = m
        /\ \A i, j \in DOMAIN o : i < j => o[i] < o[j]}

\* flushAndDetect, first lock hold: every closed bucket behind the cursor is
\* folded into the detector, oldest first, and flagged when it deviates.
Detect ==
    /\ stage = "idle"
    /\ LET closed == {m \in DOMAIN buckets : Closed(m) /\ m > lastAnalyzed}
           n == Cardinality(closed)
       IN \E order \in Ascending(closed), hits \in Hits(n) :
          /\ folds' = folds \o [i \in 1 .. n |-> Fold(order[i], hits[i])]
          /\ buckets' = [m \in DOMAIN buckets |->
                IF \E i \in 1 .. n : order[i] = m /\ hits[i] # {}
                THEN [buckets[m] EXCEPT !.flag = TRUE] ELSE buckets[m]]
          /\ lastAnalyzed' = IF n = 0 THEN lastAnalyzed ELSE order[n]
          /\ found' = UNION {{[minute |-> order[i], metric |-> h] : h \in hits[i]} : i \in 1 .. n}
    /\ starts' = DOMAIN buckets
    /\ stage' = "detected"
    /\ UNCHANGED <<consumer, watermark, restored, idle, tables, history>>

\* persistBuckets: of the minutes the flush began with, those finished before
\* the restart are dropped, the others upserted in chunks; a chunk that fails
\* leaves the earlier ones written, and ends the flush with its anomalies.
\* Eviction is not confined to those minutes, and skipped when none is written.
Persist ==
    /\ stage = "detected"
    /\ LET keep == {m \in starts : m > restored}
           left == DOMAIN buckets \ (starts \ keep)
           upsert(S) == [m \in DOMAIN rows \union S |->
              IF m \in S
              THEN [orders |-> buckets[m].orders, sessions |-> buckets[m].sessions,
                    flag |-> buckets[m].flag, by |-> <<crashes, jumps>>]
              ELSE rows[m]]
       IN \/ /\ rows' = upsert(keep)
             /\ buckets' = Restrict(buckets, {m \in left : keep = {} \/ ~Evictable(m)})
             /\ stage' = "persisted"
             /\ UNCHANGED <<found, faults>>
          \/ /\ faults < MaxFaults /\ keep # {}
             /\ \E cut \in keep : rows' = upsert({m \in keep : m < cut})
             /\ buckets' = Restrict(buckets, left)
             /\ faults' = faults + 1
             /\ stage' = "idle" /\ found' = {}
    /\ starts' = {}
    /\ UNCHANGED <<consumer, lastAnalyzed, watermark, restored, idle, folds, anomalies, saved,
                   crashes, jumps, cold>>

\* persistAnomaly, one row at a time; a failed one is logged and passed over.
InsertAnomaly ==
    /\ stage = "persisted"
    /\ \E a \in found :
       /\ found' = found \ {a}
       /\ \/ anomalies' = anomalies \union {a} /\ UNCHANGED faults
          \/ faults < MaxFaults /\ faults' = faults + 1 /\ UNCHANGED anomalies
    /\ UNCHANGED <<consumer, memory, stage, starts, rows, saved, crashes, jumps, cold>>

\* Mutant: the baseline is saved before the anomalies are in.
SaveBaselineFirst ==
    /\ stage = "persisted"
    /\ saved' = [folds |-> folds, cursor |-> lastAnalyzed]
    /\ stage' = IF found = {} THEN "idle" ELSE "persisted"
    /\ UNCHANGED <<consumer, memory, starts, found, rows, anomalies, history>>

\* saveBaseline: accumulators and cursor in one transaction, the cursor only
\* when there is one.
SaveBaseline ==
    /\ stage = "persisted" /\ found = {}
    /\ \/ saved' = [folds |-> folds,
                    cursor |-> IF lastAnalyzed = 0 THEN saved.cursor ELSE lastAnalyzed]
          /\ UNCHANGED faults
       \/ faults < MaxFaults /\ faults' = faults + 1 /\ UNCHANGED saved
    /\ stage' = "idle"
    /\ UNCHANGED <<consumer, memory, starts, found, rows, anomalies, crashes, jumps, cold>>

\* The process ends, with or without a last flush: its memory is gone and the
\* consumer will resume from the offset that the client's background commits
\* have reached by then.
Crash ==
    /\ stage # "boot" /\ crashes < MaxCrashes
    /\ crashes' = crashes + 1
    /\ committed' \in committed .. batch
    /\ polled' = committed' /\ position' = committed' /\ batch' = committed' /\ held' = FALSE
    /\ buckets' = <<>> /\ lastAnalyzed' = 0 /\ watermark' = 0 /\ restored' = 0
    /\ idle' = FALSE /\ folds' = <<>>
    /\ stage' = "boot" /\ starts' = {} /\ found' = {}
    /\ UNCHANGED <<topic, tables, faults, jumps, cold>>

\* Mutant: the accumulators are restored, the cursor is not.
BootWithoutCursor ==
    /\ stage = "boot"
    /\ folds' = saved.folds
    /\ stage' = "idle"
    /\ UNCHANGED <<consumer, buckets, lastAnalyzed, watermark, restored, idle, starts, found, tables, history>>

\* Mutant: the minutes finished before the restart are not remembered.
BootForgetsFinished ==
    /\ stage = "boot"
    /\ folds' = saved.folds /\ lastAnalyzed' = saved.cursor
    /\ stage' = "idle"
    /\ UNCHANGED <<consumer, buckets, watermark, restored, idle, starts, found, tables, history>>

\* restoreBaseline; when it cannot read the tables the aggregator starts cold.
Boot ==
    /\ stage = "boot"
    /\ \/ /\ folds' = saved.folds
          /\ lastAnalyzed' = saved.cursor /\ restored' = saved.cursor
          /\ UNCHANGED <<faults, cold>>
       \/ /\ faults < MaxFaults
          /\ faults' = faults + 1 /\ cold' = TRUE
          /\ UNCHANGED <<folds, lastAnalyzed, restored>>
    /\ stage' = "idle"
    /\ UNCHANGED <<consumer, buckets, watermark, idle, starts, found, tables, crashes, jumps>>

Flush == Detect \/ Persist \/ InsertAnomaly \/ SaveBaseline
Next == Poll \/ Advance \/ Observe \/ Quiet \/ Flush \/ Crash \/ Boot

\* The consumer loop and the ticker run for as long as the process does, and a
\* stream that has stopped is idle once the interval is over.
Fairness ==
    /\ WF_vars(Poll) /\ WF_vars(Advance) /\ WF_vars(Observe) /\ WF_vars(Quiet)
    /\ WF_vars(Detect) /\ WF_vars(Persist) /\ WF_vars(InsertAnomaly) /\ WF_vars(SaveBaseline)
    /\ WF_vars(Boot)

Spec == Init /\ [][Next]_vars
FairSpec == Spec /\ Fairness

-----------------------------------------------------------------------------
Bucket == [orders : SUBSET {topic[i].id : i \in DOMAIN topic},
           sessions : SUBSET {topic[i].id : i \in DOMAIN topic}, flag : BOOLEAN]

\* The variables keep their types: offsets are ordered, and a minute is in the
\* table or in memory only if a record named it.
TypeOK ==
    /\ topic \in Topics
    /\ committed <= batch /\ batch <= position
    /\ position <= polled /\ polled <= Len(topic)
    /\ held \in BOOLEAN /\ idle \in BOOLEAN /\ cold \in BOOLEAN
    /\ DOMAIN buckets \union DOMAIN rows \subseteq {topic[i].minute : i \in DOMAIN topic}
    /\ \A m \in DOMAIN buckets : buckets[m] \in Bucket
    /\ {committed, batch, position, polled} \subseteq Nat
    /\ {lastAnalyzed, watermark, restored, jumps} \subseteq Nat
    /\ stage \in {"boot", "idle", "detected", "persisted"} /\ starts \subseteq DOMAIN buckets
    /\ crashes \in 0 .. MaxCrashes /\ faults \in 0 .. MaxFaults

OncePerJump(s) == \A i, j \in DOMAIN s :
    i < j /\ s[i].minute = s[j].minute => s[i].jumps < s[j].jumps

\* The detector takes a minute again, in memory or in the accumulators that were
\* saved, only when event time has jumped back in between, once for each jump:
\* never by a later flush alone, and never by a restart alone, however much of
\* the minute is read again (detector_state.go: "lets a restart either re-fold a
\* minute (double count)").  After a jump it may take a bucket that it has taken
\* before and that no record has touched since: advanceLocked keeps the buckets.
RefoldedOnlyAfterJump == OncePerJump(folds) /\ OncePerJump(saved.folds)

\* What the saved detector has folded for a minute since the last jump, the
\* served row shows: a restart that re-reads a part of the minute never leaves the row behind the
\* analysis, in orders or in its flag.
RowsHoldFolds ==
    ~cold => \A i \in DOMAIN saved.folds :
        LET f == saved.folds[i] IN
        f.jumps = jumps =>
            /\ f.minute \in DOMAIN rows
            /\ f.orders \subseteq rows[f.minute].orders
            /\ f.hits # {} => rows[f.minute].flag

\* A crash alone loses no anomaly: when the saved cursor covers a minute that
\* deviated, the anomaly is in the table.  Only a failed insert loses one.
CrashLosesNoAnomaly ==
    faults = 0 => \A i \in DOMAIN saved.folds : \A h \in saved.folds[i].hits :
        [minute |-> saved.folds[i].minute, metric |-> h] \in anomalies

\* The row of a minute never shrinks and never loses its flag while one process
\* writes it between two jumps (evictableLocked: a bucket a replay is still
\* filling "is never dropped and re-created, which made a later flush overwrite
\* the earlier partial sum with a smaller one").
RowsOnlyGrow == [][\A m \in DOMAIN rows :
    rows'[m].by = rows[m].by =>
        /\ rows[m].orders \subseteq rows'[m].orders
        /\ rows[m].sessions \subseteq rows'[m].sessions
        /\ rows[m].flag => rows'[m].flag]_vars

\* A stream that stops is analysed to its last minute and the analysis saved:
\* the idle rule closes the newest bucket that no later record closes.
LastMinuteAnalysed == <>[](/\ position = Len(topic)
                           /\ \A m \in DOMAIN buckets : m <= saved.cursor)
=============================================================================
