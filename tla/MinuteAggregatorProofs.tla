------------------------- MODULE MinuteAggregatorProofs -------------------------
(***************************************************************************)
(* What the aggregator's two goroutines and its restarts guarantee, for    *)
(* every topic, lag, warm-up and number of crashes and faults.             *)
(***************************************************************************)
EXTENDS MinuteAggregator, FiniteSetTheorems, TLAPS

----------------------------------------------------------------------------
(* The inductive invariants                                                *)

Ids == {topic[i].id : i \in DOMAIN topic}
Minutes == {topic[i].minute : i \in DOMAIN topic}

FoldRecord == [minute : Nat, orders : SUBSET Ids, hits : SUBSET Metrics, jumps : Nat]
RowRecord == [orders : SUBSET Ids, sessions : SUBSET Ids, flag : BOOLEAN, by : Nat \X Nat]

\* The parts of the type that TypeOK leaves to the other invariants, and what
\* a step needs: only a fetched record is held, a process that has not booted
\* remembers nothing.
TypeInv ==
    /\ TypeOK
    /\ held => position < polled
    /\ restored <= lastAnalyzed
    /\ folds \in Seq(FoldRecord)
    /\ saved \in [folds : Seq(FoldRecord), cursor : Nat]
    /\ \A m \in DOMAIN rows : rows[m] \in RowRecord
    /\ stage = "boot" => buckets = <<>> /\ folds = <<>> /\ lastAnalyzed = 0
                         /\ watermark = 0 /\ restored = 0 /\ ~held

\* The cursor is past every minute folded since the last jump; no fold is of a
\* later one.
Behind(s, cursor) ==
    \A i \in DOMAIN s : s[i].jumps <= jumps /\ (s[i].jumps = jumps => s[i].minute <= cursor)

FoldInv == Behind(folds, lastAnalyzed) /\ Behind(saved.folds, saved.cursor) /\ RefoldedOnlyAfterJump

\* Without a failed insert, what the detector has found is in the table or
\* still in the hands of the flush.
Reported(s, pending) ==
    \A i \in DOMAIN s : \A h \in s[i].hits :
        [minute |-> s[i].minute, metric |-> h] \in anomalies \union pending

AnomalyInv ==
    /\ stage \in {"boot", "idle"} => found = {}
    /\ faults = 0 => Reported(folds, found) /\ Reported(saved.folds, {})

\* A bucket stems from an ingested record, the watermark from a record that has
\* at least moved the clock.
SourceInv ==
    /\ \A m \in DOMAIN buckets : \E i \in 1 .. position :
          topic[i].minute = m /\ topic[i].kind # "skip"
    /\ watermark # 0 => \E j \in DOMAIN topic :
          /\ j <= position \/ (held /\ j = position + 1)
          /\ topic[j].minute = watermark

\* No record of the minute is still to come.
Over(m) == \A k \in DOMAIN topic :
    k > position /\ topic[k].minute = m => topic[k].kind = "skip"

Shows(b, f) == f.orders \subseteq b.orders /\ (f.hits # {} => b.flag)
InRow(f) == f.minute \in DOMAIN rows /\ Shows(rows[f.minute], f)

\* The bucket of a minute that this process may still write shows what was
\* folded from it, and one that was evicted stays away.
BucketKeeps(f) ==
    f.minute > restored =>
        /\ f.minute \in DOMAIN buckets => Shows(buckets[f.minute], f)
        /\ f.minute \notin DOMAIN buckets => Over(f.minute)

\* A fold is in its row, or its bucket will be written before the baseline is.
WillBeWritten(f) ==
    InRow(f) \/ /\ f.minute > restored /\ f.minute \in DOMAIN buckets
                /\ stage # "persisted"
                /\ stage = "detected" => f.minute \in starts

MemoryHolds ==
    \A i \in DOMAIN folds : folds[i].jumps = jumps => BucketKeeps(folds[i]) /\ WillBeWritten(folds[i])

SavedIsFolded ==
    stage # "boot" => \A i \in DOMAIN saved.folds : i \in DOMAIN folds /\ folds[i] = saved.folds[i]

RowInv == ~cold => MemoryHolds /\ SavedIsFolded /\ RowsHoldFolds

\* The rows this process wrote since the last jump.
Within(r, b) == r.orders \subseteq b.orders /\ r.sessions \subseteq b.sessions /\ (r.flag => b.flag)

GrowInv ==
    \A m \in DOMAIN rows :
        LET by == rows[m].by IN
        /\ by[1] <= crashes /\ by[2] <= jumps
        /\ stage = "boot" => by[1] < crashes
        /\ by = <<crashes, jumps>> =>
              /\ m > restored
              /\ m \in DOMAIN buckets => Within(rows[m], buckets[m])
              /\ m \notin DOMAIN buckets => Over(m)

----------------------------------------------------------------------------
(* Facts about sequences, finite sets and the flush                        *)

LEMMA AppendAt ==
    ASSUME NEW S, NEW s \in Seq(S), NEW n \in Nat, NEW f \in [1 .. n -> S]
    PROVE  /\ s \o f \in Seq(S) /\ Len(s) \in Nat
           /\ DOMAIN s = 1 .. Len(s) /\ DOMAIN (s \o f) = 1 .. Len(s) + n
           /\ \A i \in DOMAIN s : i \in DOMAIN (s \o f) /\ (s \o f)[i] = s[i]
           /\ \A i \in DOMAIN (s \o f) \ DOMAIN s :
                 i - Len(s) \in 1 .. n /\ (s \o f)[i] = f[i - Len(s)]
<1>1. f \in Seq(S) /\ Len(f) = n
  OBVIOUS
<1>2. QED
  BY <1>1

\* The minutes that the records of a topic name are finitely many.
LEMMA FinitelyManyMinutes ==
    ASSUME topic \in Topics
    PROVE  IsFiniteSet(Minutes)
<1> DEFINE f == [i \in 1 .. Len(topic) |-> topic[i].minute]
<1>1. Len(topic) \in Nat /\ DOMAIN topic = 1 .. Len(topic)
  BY TopicAssumption
<1>2. f \in Surjection(1 .. Len(topic), Minutes)
  BY <1>1 DEF Surjection, Minutes
<1>3. IsFiniteSet(1 .. Len(topic))
  BY <1>1, FS_Interval
<1>4. QED
  BY <1>2, <1>3, FS_Surjection, Zenon

\* What the first lock hold of a flush does with the n closed minutes in their
\* order and with the deviations found in them.
DetectWith(n, order, hits) ==
    /\ order \in [1 .. n -> DOMAIN buckets] /\ hits \in [1 .. n -> SUBSET Metrics]
    /\ \A i \in 1 .. n : order[i] > lastAnalyzed
    /\ \A i, j \in 1 .. n : i < j => order[i] < order[j]
    /\ folds' = folds \o [i \in 1 .. n |-> Fold(order[i], hits[i])]
    /\ buckets' = [m \in DOMAIN buckets |->
          IF \E i \in 1 .. n : order[i] = m /\ hits[i] # {}
          THEN [buckets[m] EXCEPT !.flag = TRUE] ELSE buckets[m]]
    /\ lastAnalyzed' = IF n = 0 THEN lastAnalyzed ELSE order[n]
    /\ found' = UNION {{[minute |-> order[i], metric |-> h] : h \in hits[i]} : i \in 1 .. n}
    /\ stage = "idle" /\ stage' = "detected" /\ starts' = DOMAIN buckets
    /\ UNCHANGED <<consumer, watermark, restored, idle, tables, history>>

LEMMA DetectShape ==
    ASSUME TypeOK, Detect
    PROVE  \E n \in Nat : \E order, hits : DetectWith(n, order, hits)
<1> DEFINE closed == {m \in DOMAIN buckets : Closed(m) /\ m > lastAnalyzed}
           n == Cardinality(closed)
<1>1. IsFiniteSet(closed)
  <2>1. IsFiniteSet(Minutes) /\ closed \subseteq Minutes
    BY FinitelyManyMinutes DEF TypeOK, Minutes
  <2>2. QED
    BY <2>1, FS_Subset
<1>2. n \in Nat
  BY <1>1, FS_CardinalityType
<1>3. PICK order \in Ascending(closed), hits \in Hits(n) :
        /\ folds' = folds \o [i \in 1 .. n |-> Fold(order[i], hits[i])]
        /\ buckets' = [m \in DOMAIN buckets |->
              IF \E i \in 1 .. n : order[i] = m /\ hits[i] # {}
              THEN [buckets[m] EXCEPT !.flag = TRUE] ELSE buckets[m]]
        /\ lastAnalyzed' = IF n = 0 THEN lastAnalyzed ELSE order[n]
        /\ found' = UNION {{[minute |-> order[i], metric |-> h] : h \in hits[i]} : i \in 1 .. n}
  BY DEF Detect
<1>4. /\ order \in [1 .. n -> closed]
      /\ \A i, j \in 1 .. n : i < j => order[i] < order[j]
  BY DEF Ascending
<1>5. hits \in [1 .. n -> SUBSET Metrics]
  BY DEF Hits
<1>6. /\ order \in [1 .. n -> DOMAIN buckets]
      /\ \A i \in 1 .. n : order[i] > lastAnalyzed
  BY <1>4
<1>7. /\ stage = "idle" /\ stage' = "detected" /\ starts' = DOMAIN buckets
      /\ UNCHANGED <<consumer, watermark, restored, idle, tables, history>>
  BY DEF Detect
<1>8. DetectWith(n, order, hits)
  BY <1>3, <1>4, <1>5, <1>6, <1>7 DEF DetectWith
<1>9. QED
  BY <1>2, <1>8

\* The accumulators afterwards: the old ones, then one for each minute.
LEMMA DetectFolds ==
    ASSUME TypeInv, NEW n \in Nat, NEW order, NEW hits, DetectWith(n, order, hits)
    PROVE  /\ folds' \in Seq(FoldRecord)
           /\ \A i \in DOMAIN folds : i \in DOMAIN folds' /\ folds'[i] = folds[i]
           /\ \A i \in DOMAIN folds' \ DOMAIN folds : \E k \in 1 .. n :
                 i = Len(folds) + k /\ folds'[i] = Fold(order[k], hits[k])
           /\ Len(folds) \in Nat /\ DOMAIN folds = 1 .. Len(folds)
<1> DEFINE f == [i \in 1 .. n |-> Fold(order[i], hits[i])]
<1>1. f \in [1 .. n -> FoldRecord]
  <2>1. ASSUME NEW i \in 1 .. n
        PROVE  Fold(order[i], hits[i]) \in FoldRecord
    <3>1. order[i] \in DOMAIN buckets /\ hits[i] \in SUBSET Metrics /\ jumps \in Nat
      BY <2>1 DEF DetectWith, TypeInv, TypeOK
    <3>2. order[i] \in Nat
      BY <3>1, TopicAssumption DEF TypeInv, TypeOK
    <3>3. buckets[order[i]].orders \in SUBSET Ids
      BY <3>1 DEF TypeInv, TypeOK, Bucket, Ids
    <3>4. QED
      BY <3>1, <3>2, <3>3 DEF Fold, FoldRecord
  <2>2. QED
    BY <2>1
<1>2. folds \in Seq(FoldRecord) /\ folds' = folds \o f
  BY DEF TypeInv, DetectWith
<1>3. /\ folds \o f \in Seq(FoldRecord) /\ Len(folds) \in Nat
      /\ DOMAIN folds = 1 .. Len(folds) /\ DOMAIN (folds \o f) = 1 .. Len(folds) + n
      /\ \A i \in DOMAIN folds : i \in DOMAIN (folds \o f) /\ (folds \o f)[i] = folds[i]
      /\ \A i \in DOMAIN (folds \o f) \ DOMAIN folds :
            i - Len(folds) \in 1 .. n /\ (folds \o f)[i] = f[i - Len(folds)]
  BY <1>1, <1>2, AppendAt
<1> HIDE DEF f
<1>4. ASSUME NEW i \in DOMAIN folds' \ DOMAIN folds
      PROVE  \E k \in 1 .. n : i = Len(folds) + k /\ folds'[i] = Fold(order[k], hits[k])
  <2>1. i \in Int /\ i - Len(folds) \in 1 .. n /\ folds'[i] = f[i - Len(folds)]
    BY <1>2, <1>3
  <2>2. i = Len(folds) + (i - Len(folds))
    BY <1>3, <2>1
  <2>3. f[i - Len(folds)] = Fold(order[i - Len(folds)], hits[i - Len(folds)])
    BY <2>1 DEF f
  <2>4. QED
    BY <2>1, <2>2, <2>3
<1>5. QED
  BY <1>2, <1>3, <1>4

----------------------------------------------------------------------------
(* Type correctness                                                        *)

\* The parts of the type that each group of actions leaves alone.
Offsets ==
    /\ topic \in Topics
    /\ {committed, batch, position, polled} \subseteq Nat
    /\ committed <= batch /\ batch <= position
    /\ position <= polled /\ polled <= Len(topic)
    /\ held => position < polled

Clocks ==
    /\ {lastAnalyzed, watermark, restored, jumps} \subseteq Nat
    /\ restored <= lastAnalyzed
    /\ crashes \in 0 .. MaxCrashes /\ faults \in 0 .. MaxFaults
    /\ stage \in {"boot", "idle", "detected", "persisted"}
    /\ stage = "boot" => buckets = <<>> /\ folds = <<>> /\ lastAnalyzed = 0
                         /\ watermark = 0 /\ restored = 0 /\ ~held

Flags == held \in BOOLEAN /\ idle \in BOOLEAN /\ cold \in BOOLEAN

Contents ==
    /\ DOMAIN buckets \union DOMAIN rows \subseteq Minutes
    /\ \A m \in DOMAIN buckets : buckets[m] \in Bucket
    /\ starts \subseteq DOMAIN buckets
    /\ folds \in Seq(FoldRecord)
    /\ saved \in [folds : Seq(FoldRecord), cursor : Nat]
    /\ \A m \in DOMAIN rows : rows[m] \in RowRecord

LEMMA TypeParts == TypeInv <=> Offsets /\ Clocks /\ Flags /\ Contents
<1>1. TypeInv => Offsets /\ Clocks /\ Flags /\ Contents
  BY DEF TypeInv, TypeOK, Offsets, Clocks, Flags, Contents, Minutes
<1>2. Offsets /\ Clocks /\ Flags /\ Contents => TypeInv
  BY DEF TypeInv, TypeOK, Offsets, Clocks, Flags, Contents, Minutes
<1>3. QED
  BY <1>1, <1>2

LEMMA TypeInit == Init => TypeInv
<1> SUFFICES ASSUME Init PROVE TypeInv
  OBVIOUS
<1>1. TypeOK
  <2>1. topic \in Topics /\ Len(topic) \in Nat /\ MaxCrashes \in Nat /\ MaxFaults \in Nat
    BY TopicAssumption, LagAssumption DEF Init
  <2>2. DOMAIN buckets = {} /\ DOMAIN rows = {} /\ starts = {}
    BY DEF Init
  <2>3. Offsets /\ Clocks /\ Flags
    <3>1. committed = 0 /\ batch = 0 /\ position = 0 /\ polled = 0 /\ ~held
      BY DEF Init
    <3>2. Offsets
      BY <2>1, <3>1 DEF Offsets
    <3>3. /\ lastAnalyzed = 0 /\ watermark = 0 /\ restored = 0 /\ jumps = 0
          /\ crashes = 0 /\ faults = 0 /\ stage = "idle"
      BY DEF Init
    <3>4. Clocks
      BY <2>1, <3>3 DEF Clocks
    <3>5. Flags
      BY DEF Init, Flags
    <3>6. QED
      BY <3>2, <3>4, <3>5
  <2>4. QED
    BY <2>1, <2>2, <2>3 DEF Init, TypeOK, Offsets, Clocks, Flags
<1>2. <<>> \in Seq(FoldRecord)
  OBVIOUS
<1>3. saved \in [folds : Seq(FoldRecord), cursor : Nat]
  BY <1>2 DEF Init, NoDetector
<1>4. QED
  BY <1>1, <1>2, <1>3 DEF Init, TypeInv

LEMMA OffsetsStep == TypeInv /\ [Next]_vars => Offsets'
<1> SUFFICES ASSUME TypeInv, [Next]_vars PROVE Offsets'
  OBVIOUS
<1>1. Offsets
  BY TypeParts
<1>2. Len(topic) \in Nat /\ FetchSize \in Nat \ {0}
  BY <1>1, TopicAssumption, LagAssumption DEF Offsets
<1>3. CASE Poll
  BY <1>1, <1>2, <1>3 DEF Offsets, Poll, Clocks, TypeInv
<1>4. CASE Advance
  BY <1>1, <1>2, <1>4 DEF Offsets, Advance
<1>5. CASE Observe
  <2>1. /\ held /\ position' = position + 1 /\ ~held'
        /\ UNCHANGED <<topic, polled, batch, committed>>
    BY <1>5 DEF Observe
  <2>2. QED
    BY <1>1, <1>2, <2>1 DEF Offsets
<1>6. CASE Crash
  <2>1. PICK c \in committed .. batch :
          committed' = c /\ polled' = c /\ position' = c /\ batch' = c
    BY <1>6, Zenon DEF Crash
  <2>2. ~held' /\ topic' = topic
    BY <1>6 DEF Crash
  <2>3. c \in Nat /\ c <= Len(topic)
    BY <1>1, <1>2 DEF Offsets
  <2>4. QED
    BY <1>1, <2>1, <2>2, <2>3 DEF Offsets
<1>7. CASE UNCHANGED consumer
  BY <1>1, <1>7 DEF Offsets, consumer
<1>8. Quiet \/ Flush \/ Boot \/ UNCHANGED vars => UNCHANGED consumer
  BY DEF Quiet, Flush, Detect, Persist, InsertAnomaly, SaveBaseline, Boot, vars
<1>9. QED
  BY <1>3, <1>4, <1>5, <1>6, <1>7, <1>8 DEF Next

\* The record the consumer is at names a minute.
LEMMA NextRecord ==
    ASSUME Offsets, position < polled
    PROVE  position + 1 \in DOMAIN topic /\ topic[position + 1].minute \in Nat \ {0}
           /\ topic[position + 1].kind \in Kinds
BY TopicAssumption DEF Offsets

LEMMA ClocksStep == TypeInv /\ [Next]_vars => Clocks'
<1> SUFFICES ASSUME TypeInv, [Next]_vars PROVE Clocks'
  OBVIOUS
<1>1. Offsets /\ Clocks /\ Contents /\ TypeOK
  BY TypeParts DEF TypeInv
<1>2. MaxCrashes \in Nat /\ MaxFaults \in Nat
  BY LagAssumption
<1>3. CASE Poll
  BY <1>1, <1>3 DEF Clocks, Poll, memory, flusher, history
<1>4. CASE Advance
  <2>1. stage # "boot" /\ UNCHANGED <<stage, crashes, faults>>
    BY <1>4 DEF Advance, flusher
  <2>2. position < polled
    BY <1>4 DEF Advance
  <2>3. topic[position + 1].minute \in Nat
    BY <1>1, <2>2, NextRecord
  <2>4. \/ lastAnalyzed' = 0 /\ restored' = 0 /\ watermark' = topic[position + 1].minute
           /\ jumps' = jumps + 1
        \/ /\ watermark' = topic[position + 1].minute \/ watermark' = watermark
           /\ UNCHANGED <<lastAnalyzed, restored, jumps>>
    BY <1>4 DEF Advance
  <2>5. {lastAnalyzed', watermark', restored', jumps'} \subseteq Nat /\ restored' <= lastAnalyzed'
    BY <1>1, <2>3, <2>4 DEF Clocks
  <2>6. QED
    BY <1>1, <2>1, <2>5 DEF Clocks
<1>5. CASE Observe
  BY <1>1, <1>5 DEF Clocks, Observe, flusher, history
<1>6. CASE Quiet
  BY <1>1, <1>6 DEF Clocks, Quiet, consumer, flusher, history
<1>7. CASE Detect
  <2>1. PICK n \in Nat : \E order, hits : DetectWith(n, order, hits)
    BY <1>1, <1>7, DetectShape
  <2>2. PICK order, hits : DetectWith(n, order, hits)
    BY <2>1
  <2>3. n # 0 => order[n] \in Nat /\ order[n] > lastAnalyzed
    <3>1. n # 0 => order[n] \in DOMAIN buckets /\ order[n] > lastAnalyzed
      BY <2>2 DEF DetectWith
    <3>2. QED
      BY <1>1, <3>1, TopicAssumption DEF Contents, Offsets, Minutes
  <2>4. QED
    BY <1>1, <2>2, <2>3 DEF DetectWith, Clocks, history
<1>8. CASE Persist
  BY <1>1, <1>2, <1>8 DEF Clocks, Persist, consumer
<1>9. CASE InsertAnomaly
  BY <1>1, <1>2, <1>9 DEF Clocks, InsertAnomaly, consumer, memory
<1>10. CASE SaveBaseline
  BY <1>1, <1>2, <1>10 DEF Clocks, SaveBaseline, consumer, memory
<1>11. CASE Crash
  <2>1. crashes' = crashes + 1 /\ crashes < MaxCrashes /\ stage' = "boot" /\ faults' = faults
        /\ buckets' = <<>> /\ folds' = <<>> /\ lastAnalyzed' = 0 /\ watermark' = 0
        /\ restored' = 0 /\ ~held' /\ jumps' = jumps
    BY <1>11 DEF Crash
  <2>2. QED
    BY <1>1, <1>2, <2>1 DEF Clocks
<1>12. CASE Boot
  <2>1. saved.cursor \in Nat
    BY <1>1 DEF Contents
  <2>2. stage' = "idle" /\ UNCHANGED <<watermark, crashes, jumps>>
    BY <1>12 DEF Boot
  <2>3. \/ /\ lastAnalyzed' = saved.cursor /\ restored' = saved.cursor
           /\ UNCHANGED faults
        \/ /\ faults < MaxFaults /\ faults' = faults + 1
           /\ UNCHANGED <<lastAnalyzed, restored>>
    BY <1>12 DEF Boot
  <2>4. QED
    BY <1>1, <1>2, <2>1, <2>2, <2>3 DEF Clocks
<1>13. CASE UNCHANGED vars
  BY <1>1, <1>13 DEF Clocks, vars, consumer, memory, flusher, history
<1>14. QED
  BY <1>3, <1>4, <1>5, <1>6, <1>7, <1>8, <1>9, <1>10, <1>11, <1>12, <1>13 DEF Next, Flush

LEMMA FlagsStep == TypeInv /\ [Next]_vars => Flags'
<1> SUFFICES ASSUME TypeInv, [Next]_vars PROVE Flags'
  OBVIOUS
<1>1. Flags
  BY TypeParts
<1>2. \/ held' = TRUE \/ held' = FALSE \/ held' = held
  BY DEF Next, vars, Poll, Advance, Observe, Quiet, Flush, Detect, Persist, InsertAnomaly,
         SaveBaseline, Crash, Boot, consumer
<1>3. \/ idle' = TRUE \/ idle' = FALSE \/ idle' = idle
  BY DEF Next, vars, Poll, Advance, Observe, Quiet, Flush, Detect, Persist, InsertAnomaly,
         SaveBaseline, Crash, Boot, memory
<1>4. \/ cold' = TRUE \/ cold' = cold
  BY DEF Next, vars, Poll, Advance, Observe, Quiet, Flush, Detect, Persist, InsertAnomaly,
         SaveBaseline, Crash, Boot, history
<1>5. QED
  BY <1>1, <1>2, <1>3, <1>4 DEF Flags

\* A bucket that takes in a record stays a bucket of the topic.
LEMMA ObservedBucket ==
    ASSUME Offsets, Contents, Observe, position < polled
    PROVE  /\ \A m \in DOMAIN buckets' : m \in Minutes /\ buckets'[m] \in Bucket
           /\ DOMAIN buckets \subseteq DOMAIN buckets'
           /\ \A m \in DOMAIN buckets :
                 /\ buckets'[m].flag = buckets[m].flag
                 /\ buckets[m].orders \subseteq buckets'[m].orders
                 /\ buckets[m].sessions \subseteq buckets'[m].sessions
           /\ \A m \in DOMAIN buckets' \ DOMAIN buckets :
                 topic[position + 1].minute = m /\ topic[position + 1].kind # "skip"
<1> DEFINE r == topic[position + 1]
           b == IF r.minute \in DOMAIN buckets THEN buckets[r.minute] ELSE EmptyBucket
<1>1. position + 1 \in DOMAIN topic /\ r.kind \in Kinds
  BY NextRecord
<1>2. buckets' = IF r.kind = "skip" THEN buckets ELSE Write(buckets, r.minute, Folded(b, r))
  BY DEF Observe
<1>3. r.minute \in Minutes /\ r.id \in Ids
  BY <1>1 DEF Minutes, Ids
<1>4. b \in Bucket
  BY DEF Contents, EmptyBucket, Bucket
<1>5. r.kind # "skip" => /\ Folded(b, r) \in Bucket /\ Folded(b, r).flag = b.flag
                         /\ b.orders \subseteq Folded(b, r).orders
                         /\ b.sessions \subseteq Folded(b, r).sessions
  <2>1. CASE r.kind = "order"
    <3>1. Folded(b, r) = [b EXCEPT !.orders = @ \union {r.id}]
      BY <2>1 DEF Folded
    <3>2. QED
      BY <1>3, <1>4, <3>1, <2>1 DEF Bucket, Ids
  <2>2. CASE r.kind = "click"
    <3>1. Folded(b, r) = [b EXCEPT !.sessions = @ \union {r.id}]
      BY <2>2 DEF Folded
    <3>2. QED
      BY <1>3, <1>4, <3>1, <2>2 DEF Bucket, Ids
  <2>3. QED
    BY <1>1, <2>1, <2>2 DEF Kinds
<1>6. CASE r.kind = "skip"
  BY <1>2, <1>6 DEF Contents
<1>7. CASE r.kind # "skip"
  <2> HIDE DEF r, b
  <2>1. /\ DOMAIN buckets' = DOMAIN buckets \union {r.minute}
        /\ buckets'[r.minute] = Folded(b, r)
        /\ \A m \in DOMAIN buckets : m # r.minute => buckets'[m] = buckets[m]
    BY <1>2, <1>7 DEF Write
  <2>2. r.minute \in DOMAIN buckets => b = buckets[r.minute]
    BY DEF b
  <2>3. \A m \in DOMAIN buckets' : m \in Minutes /\ buckets'[m] \in Bucket
    BY <1>3, <1>5, <1>7, <2>1 DEF Contents
  <2>4. \A m \in DOMAIN buckets :
           /\ buckets'[m].flag = buckets[m].flag
           /\ buckets[m].orders \subseteq buckets'[m].orders
           /\ buckets[m].sessions \subseteq buckets'[m].sessions
    BY <1>5, <1>7, <2>1, <2>2
  <2>5. QED
    BY <1>7, <2>1, <2>3, <2>4 DEF r
<1>8. QED
  BY <1>6, <1>7

\* The detector changes nothing but flags.
LEMMA DetectedBuckets ==
    ASSUME Contents, NEW n \in Nat, NEW order, NEW hits, DetectWith(n, order, hits)
    PROVE  /\ DOMAIN buckets' = DOMAIN buckets
           /\ \A m \in DOMAIN buckets :
                 /\ buckets'[m] \in Bucket
                 /\ buckets'[m].orders = buckets[m].orders
                 /\ buckets'[m].sessions = buckets[m].sessions
                 /\ buckets[m].flag => buckets'[m].flag
           /\ \A k \in 1 .. n : hits[k] # {} => buckets'[order[k]].flag
<1>1. buckets' = [m \in DOMAIN buckets |->
          IF \E i \in 1 .. n : order[i] = m /\ hits[i] # {}
          THEN [buckets[m] EXCEPT !.flag = TRUE] ELSE buckets[m]]
  BY DEF DetectWith
<1>2. \A k \in 1 .. n : order[k] \in DOMAIN buckets
  BY DEF DetectWith
<1>3. ASSUME NEW m \in DOMAIN buckets
      PROVE  LET b == [buckets[m] EXCEPT !.flag = TRUE] IN
             b \in Bucket /\ b.orders = buckets[m].orders /\ b.sessions = buckets[m].sessions /\ b.flag
  BY <1>3 DEF Contents, Bucket
<1>4. ASSUME NEW m \in DOMAIN buckets
      PROVE  /\ buckets'[m] = [buckets[m] EXCEPT !.flag = TRUE] \/ buckets'[m] = buckets[m]
             /\ (\E i \in 1 .. n : order[i] = m /\ hits[i] # {})
                => buckets'[m] = [buckets[m] EXCEPT !.flag = TRUE]
  BY <1>1, <1>4
<1>5. DOMAIN buckets' = DOMAIN buckets
  BY <1>1
<1>6. \A m \in DOMAIN buckets :
         /\ buckets'[m] \in Bucket
         /\ buckets'[m].orders = buckets[m].orders
         /\ buckets'[m].sessions = buckets[m].sessions
         /\ buckets[m].flag => buckets'[m].flag
  BY <1>3, <1>4 DEF Contents
<1>7. \A k \in 1 .. n : hits[k] # {} => buckets'[order[k]].flag
  BY <1>2, <1>3, <1>4
<1>8. QED
  BY <1>5, <1>6, <1>7

\* What persistBuckets does when it writes the minutes W and keeps the buckets
\* of K in memory.
WrittenRow(m) == [orders |-> buckets[m].orders, sessions |-> buckets[m].sessions,
                  flag |-> buckets[m].flag, by |-> <<crashes, jumps>>]

PersistWith(W, K) ==
    /\ stage = "detected" /\ starts' = {}
    /\ W \subseteq {m \in starts : m > restored}
    /\ rows' = [m \in DOMAIN rows \union W |-> IF m \in W THEN WrittenRow(m) ELSE rows[m]]
    /\ K \subseteq DOMAIN buckets /\ buckets' = [m \in K |-> buckets[m]]
    /\ \/ /\ stage' = "persisted" /\ W = {m \in starts : m > restored}
          /\ \A m \in DOMAIN buckets \ K : ~(m > restored) \/ Evictable(m)
          /\ UNCHANGED <<found, faults>>
       \/ /\ stage' = "idle" /\ found' = {} /\ faults < MaxFaults /\ faults' = faults + 1
          /\ \A m \in DOMAIN buckets \ K : ~(m > restored)
    /\ UNCHANGED <<consumer, lastAnalyzed, watermark, restored, idle, folds, anomalies, saved,
                   crashes, jumps, cold>>

LEMMA PersistShape ==
    ASSUME Persist
    PROVE  \E W, K : PersistWith(W, K)
<1> DEFINE keep == {m \in starts : m > restored}
           left == DOMAIN buckets \ (starts \ keep)
           upsert(S) == [m \in DOMAIN rows \union S |->
              IF m \in S
              THEN [orders |-> buckets[m].orders, sessions |-> buckets[m].sessions,
                    flag |-> buckets[m].flag, by |-> <<crashes, jumps>>]
              ELSE rows[m]]
<1>1. /\ stage = "detected" /\ starts' = {}
      /\ UNCHANGED <<consumer, lastAnalyzed, watermark, restored, idle, folds, anomalies, saved,
                     crashes, jumps, cold>>
  BY DEF Persist
<1>2. \/ /\ rows' = upsert(keep)
         /\ buckets' = Restrict(buckets, {m \in left : keep = {} \/ ~Evictable(m)})
         /\ stage' = "persisted"
         /\ UNCHANGED <<found, faults>>
      \/ /\ faults < MaxFaults /\ keep # {}
         /\ \E cut \in keep : rows' = upsert({m \in keep : m < cut})
         /\ buckets' = Restrict(buckets, left)
         /\ faults' = faults + 1
         /\ stage' = "idle" /\ found' = {}
  BY DEF Persist
<1>3. CASE /\ rows' = upsert(keep)
           /\ buckets' = Restrict(buckets, {m \in left : keep = {} \/ ~Evictable(m)})
           /\ stage' = "persisted"
           /\ UNCHANGED <<found, faults>>
  <2> DEFINE K == {m \in left : keep = {} \/ ~Evictable(m)}
  <2>1. K \subseteq DOMAIN buckets /\ \A m \in DOMAIN buckets \ K : ~(m > restored) \/ Evictable(m)
    OBVIOUS
  <2>2. buckets' = [m \in K |-> buckets[m]]
    BY <1>3 DEF Restrict
  <2>3. rows' = [m \in DOMAIN rows \union keep |-> IF m \in keep THEN WrittenRow(m) ELSE rows[m]]
    BY <1>3 DEF WrittenRow
  <2> HIDE DEF K
  <2>4. PersistWith(keep, K)
    BY <1>1, <1>3, <2>1, <2>2, <2>3 DEF PersistWith
  <2>5. QED
    BY <2>4
<1>4. CASE /\ faults < MaxFaults /\ keep # {}
           /\ \E cut \in keep : rows' = upsert({m \in keep : m < cut})
           /\ buckets' = Restrict(buckets, left)
           /\ faults' = faults + 1
           /\ stage' = "idle" /\ found' = {}
  <2>1. PICK cut \in keep : rows' = upsert({m \in keep : m < cut})
    BY <1>4
  <2> DEFINE W == {m \in keep : m < cut}
  <2>2. left \subseteq DOMAIN buckets /\ \A m \in DOMAIN buckets \ left : ~(m > restored)
    OBVIOUS
  <2>3. buckets' = [m \in left |-> buckets[m]]
    BY <1>4 DEF Restrict
  <2>4. rows' = [m \in DOMAIN rows \union W |-> IF m \in W THEN WrittenRow(m) ELSE rows[m]]
    BY <2>1 DEF WrittenRow
  <2>5. W \subseteq keep
    OBVIOUS
  <2> HIDE DEF W, left
  <2>6. PersistWith(W, left)
    BY <1>1, <1>4, <2>2, <2>3, <2>4, <2>5 DEF PersistWith
  <2>7. QED
    BY <2>6
<1>5. QED
  BY <1>2, <1>3, <1>4

LEMMA WrittenRowType ==
    ASSUME Clocks, Contents, NEW m \in DOMAIN buckets
    PROVE  WrittenRow(m) \in RowRecord
<1>1. buckets[m] \in Bucket /\ jumps \in Nat /\ crashes \in Nat
  BY DEF Contents, Clocks
<1>2. QED
  BY <1>1 DEF WrittenRow, RowRecord, Bucket, Ids

LEMMA TopicKept == [Next]_vars => topic' = topic
BY DEF Next, vars, consumer, Poll, Advance, Observe, Quiet, Flush, Detect, Persist,
       InsertAnomaly, SaveBaseline, Crash, Boot

LEMMA ContentsStep == TypeInv /\ [Next]_vars => Contents'
<1> SUFFICES ASSUME TypeInv, [Next]_vars PROVE Contents'
  OBVIOUS
<1>1. Offsets /\ Clocks /\ Contents /\ TypeOK
  BY TypeParts DEF TypeInv
<1>2. topic' = topic
  BY TopicKept
<1>3. Minutes' = Minutes /\ Bucket' = Bucket /\ FoldRecord' = FoldRecord /\ RowRecord' = RowRecord
  BY <1>2 DEF Minutes, Bucket, FoldRecord, RowRecord, Ids
<1>4. CASE UNCHANGED <<buckets, starts, folds, saved, rows>>
  BY <1>1, <1>3, <1>4 DEF Contents
<1>5. CASE Observe
  <2>1. position < polled
    BY <1>5 DEF Observe, TypeInv
  <2>2. /\ \A m \in DOMAIN buckets' : m \in Minutes /\ buckets'[m] \in Bucket
        /\ DOMAIN buckets \subseteq DOMAIN buckets'
    BY <1>1, <1>5, <2>1, ObservedBucket
  <2>3. UNCHANGED <<starts, folds, saved, rows>>
    BY <1>5 DEF Observe, flusher, tables
  <2>4. QED
    BY <1>1, <1>3, <2>2, <2>3 DEF Contents
<1>6. CASE Detect
  <2>1. PICK n \in Nat : \E order, hits : DetectWith(n, order, hits)
    BY <1>1, <1>6, DetectShape
  <2>2. PICK order, hits : DetectWith(n, order, hits)
    BY <2>1
  <2>3. folds' \in Seq(FoldRecord)
    BY <2>2, DetectFolds
  <2>4. DOMAIN buckets' = DOMAIN buckets /\ \A m \in DOMAIN buckets : buckets'[m] \in Bucket
    BY <1>1, <2>2, DetectedBuckets
  <2>5. starts' = DOMAIN buckets /\ UNCHANGED <<saved, rows>>
    BY <2>2 DEF DetectWith, tables
  <2>6. QED
    BY <1>1, <1>3, <2>3, <2>4, <2>5 DEF Contents
<1>7. CASE Persist
  <2>1. PICK W, K : PersistWith(W, K)
    BY <1>7, PersistShape
  <2>2. /\ W \subseteq DOMAIN buckets /\ K \subseteq DOMAIN buckets /\ starts' = {}
        /\ rows' = [m \in DOMAIN rows \union W |-> IF m \in W THEN WrittenRow(m) ELSE rows[m]]
        /\ buckets' = [m \in K |-> buckets[m]] /\ UNCHANGED <<folds, saved>>
    BY <1>1, <2>1 DEF PersistWith, Contents
  <2>3. \A m \in DOMAIN rows' : rows'[m] \in RowRecord
    BY <1>1, <2>2, WrittenRowType DEF Contents
  <2>4. QED
    BY <1>1, <1>3, <2>2, <2>3 DEF Contents
<1>8. CASE SaveBaseline
  <2>1. \/ saved' = [folds |-> folds, cursor |-> IF lastAnalyzed = 0 THEN saved.cursor ELSE lastAnalyzed]
        \/ saved' = saved
    BY <1>8 DEF SaveBaseline
  <2>2. lastAnalyzed \in Nat /\ folds \in Seq(FoldRecord) /\ saved.cursor \in Nat
    BY <1>1 DEF Clocks, Contents
  <2>3. saved' \in [folds : Seq(FoldRecord), cursor : Nat]
    BY <1>1, <2>1, <2>2 DEF Contents
  <2>4. UNCHANGED <<buckets, starts, folds, rows>>
    BY <1>8 DEF SaveBaseline, memory
  <2>5. QED
    BY <1>1, <1>3, <2>3, <2>4 DEF Contents
<1>9. CASE Crash
  <2>1. DOMAIN buckets' = {} /\ starts' = {} /\ folds' = <<>> /\ UNCHANGED <<saved, rows>>
    BY <1>9 DEF Crash, tables
  <2>2. folds' \in Seq(FoldRecord)
    BY <2>1
  <2>3. QED
    BY <1>1, <1>3, <2>1, <2>2 DEF Contents
<1>10. CASE Boot
  <2>1. (folds' = saved.folds \/ folds' = folds) /\ UNCHANGED <<buckets, starts, saved, rows>>
    BY <1>10 DEF Boot, tables
  <2>2. folds' \in Seq(FoldRecord)
    BY <1>1, <2>1 DEF Contents
  <2>3. QED
    BY <1>1, <1>3, <2>1, <2>2 DEF Contents
<1>11. Poll \/ Advance \/ Quiet \/ InsertAnomaly \/ UNCHANGED vars
         => UNCHANGED <<buckets, starts, folds, saved, rows>>
  BY DEF Poll, Advance, Quiet, InsertAnomaly, vars, memory, flusher, tables
<1>12. QED
  BY <1>4, <1>5, <1>6, <1>7, <1>8, <1>9, <1>10, <1>11 DEF Next, Flush

LEMMA TypeStep == TypeInv /\ [Next]_vars => TypeInv'
<1> SUFFICES ASSUME TypeInv, [Next]_vars PROVE TypeInv'
  OBVIOUS
<1>1. Offsets' /\ Clocks' /\ Flags' /\ Contents'
  BY OffsetsStep, ClocksStep, FlagsStep, ContentsStep
<1>2. (Offsets /\ Clocks /\ Flags /\ Contents)' => TypeInv'
  BY TypeParts, PTL
<1>3. QED
  BY <1>1, <1>2

\* Offsets are ordered, a minute has a bucket or a row only if a record named
\* it, and a flush works on buckets that are in memory.
THEOREM TypeCorrect == Spec => []TypeOK
<1>1. TypeInv => TypeOK
  BY DEF TypeInv
<1>2. QED
  BY <1>1, TypeInit, TypeStep, PTL DEF Spec

----------------------------------------------------------------------------
(* A minute is folded once                                                 *)

\* The accumulators, in memory or saved, are a sequence of folds.
LEMMA FoldTypes ==
    ASSUME TypeInv
    PROVE  /\ \A i \in DOMAIN folds : folds[i] \in FoldRecord
           /\ \A i \in DOMAIN saved.folds : saved.folds[i] \in FoldRecord
           /\ folds \in Seq(FoldRecord) /\ saved.folds \in Seq(FoldRecord)
           /\ saved.cursor \in Nat /\ lastAnalyzed \in Nat /\ jumps \in Nat
<1>1. folds \in Seq(FoldRecord) /\ saved \in [folds : Seq(FoldRecord), cursor : Nat]
  BY DEF TypeInv
<1>2. lastAnalyzed \in Nat /\ jumps \in Nat
  BY DEF TypeInv, TypeOK
<1>3. saved.folds \in Seq(FoldRecord) /\ saved.cursor \in Nat
  BY <1>1
<1>4. QED
  BY <1>1, <1>2, <1>3

LEMMA FoldStep == TypeInv /\ FoldInv /\ [Next]_vars => FoldInv'
<1> SUFFICES ASSUME TypeInv, FoldInv, [Next]_vars PROVE FoldInv'
  OBVIOUS
<1>1. /\ \A i \in DOMAIN folds : folds[i].minute \in Nat /\ folds[i].jumps \in Nat
      /\ \A i \in DOMAIN saved.folds : saved.folds[i].minute \in Nat /\ saved.folds[i].jumps \in Nat
      /\ saved.cursor \in Nat /\ lastAnalyzed \in Nat /\ jumps \in Nat
  BY FoldTypes DEF FoldRecord
<1>2. CASE UNCHANGED <<folds, saved, lastAnalyzed, jumps>>
  BY <1>2 DEF FoldInv, Behind, RefoldedOnlyAfterJump, OncePerJump
<1>3. CASE Advance
  <2>1. /\ UNCHANGED <<folds, saved>>
        /\ \/ lastAnalyzed' = 0 /\ jumps' = jumps + 1
           \/ UNCHANGED <<lastAnalyzed, jumps>>
    BY <1>3 DEF Advance, tables
  <2>2. CASE jumps' = jumps + 1
    <3>1. Behind(folds, lastAnalyzed)'
      BY <1>1, <2>1, <2>2 DEF FoldInv, Behind
    <3>2. Behind(saved.folds, saved.cursor)'
      BY <1>1, <2>1, <2>2 DEF FoldInv, Behind
    <3>3. QED
      BY <2>1, <3>1, <3>2 DEF FoldInv, RefoldedOnlyAfterJump, OncePerJump
  <2>3. QED
    BY <1>2, <2>1, <2>2
<1>4. CASE Detect
  <2>1. PICK n \in Nat : \E order, hits : DetectWith(n, order, hits)
    BY <1>4, DetectShape DEF TypeInv
  <2>2. PICK order, hits : DetectWith(n, order, hits)
    BY <2>1
  <2>3. /\ \A i \in DOMAIN folds : i \in DOMAIN folds' /\ folds'[i] = folds[i]
        /\ \A i \in DOMAIN folds' \ DOMAIN folds : \E k \in 1 .. n :
              i = Len(folds) + k /\ folds'[i] = Fold(order[k], hits[k])
    BY <2>2, DetectFolds
  <2>4. /\ \A k \in 1 .. n : order[k] > lastAnalyzed /\ order[k] \in Nat
        /\ \A i, j \in 1 .. n : i < j => order[i] < order[j]
        /\ lastAnalyzed' = IF n = 0 THEN lastAnalyzed ELSE order[n]
        /\ UNCHANGED <<saved, jumps>>
    <3>1. \A k \in 1 .. n : order[k] \in DOMAIN buckets
      BY <2>2 DEF DetectWith
    <3>2. DOMAIN buckets \subseteq Nat
      BY TopicAssumption DEF TypeInv, TypeOK
    <3>3. QED
      BY <2>2, <3>1, <3>2 DEF DetectWith, tables, history
  <2>5. lastAnalyzed' \in Nat /\ lastAnalyzed <= lastAnalyzed'
        /\ \A k \in 1 .. n : order[k] <= lastAnalyzed'
    <3>1. CASE n = 0
      BY <1>1, <2>4, <3>1
    <3>2. CASE n # 0
      <4>1. n \in 1 .. n
        BY <3>2
      <4>2. ASSUME NEW k \in 1 .. n
            PROVE  order[k] <= order[n]
        <5>1. k = n \/ k < n
          OBVIOUS
        <5>2. QED
          BY <2>4, <4>1, <5>1
      <4>3. QED
        BY <1>1, <2>4, <3>2, <4>1, <4>2
    <3>3. QED
      BY <3>1, <3>2
  <2>6. \A i \in DOMAIN folds' \ DOMAIN folds : \E k \in 1 .. n :
           /\ i = Len(folds) + k
           /\ folds'[i].minute = order[k] /\ folds'[i].jumps = jumps
    BY <2>3 DEF Fold
  <2>7. Behind(folds, lastAnalyzed)'
    <3>1. ASSUME NEW i \in DOMAIN folds'
          PROVE  folds'[i].jumps <= jumps /\ (folds'[i].jumps = jumps => folds'[i].minute <= lastAnalyzed')
      <4>1. CASE i \in DOMAIN folds
        BY <1>1, <2>3, <2>5, <4>1 DEF FoldInv, Behind
      <4>2. CASE i \notin DOMAIN folds
        BY <1>1, <2>5, <2>6, <3>1, <4>2
      <4>3. QED
        BY <4>1, <4>2
    <3>2. QED
      BY <2>4, <3>1 DEF Behind
  <2>8. Behind(saved.folds, saved.cursor)'
    BY <2>4 DEF FoldInv, Behind
  <2>9. OncePerJump(folds)'
    <3>1. ASSUME NEW i \in DOMAIN folds', NEW j \in DOMAIN folds',
                 i < j, folds'[i].minute = folds'[j].minute
          PROVE  folds'[i].jumps < folds'[j].jumps
      <4>1. CASE i \in DOMAIN folds /\ j \in DOMAIN folds
        BY <2>3, <3>1, <4>1 DEF FoldInv, RefoldedOnlyAfterJump, OncePerJump
      <4>2. CASE i \in DOMAIN folds /\ j \notin DOMAIN folds
        BY <1>1, <2>3, <2>4, <2>6, <3>1, <4>2 DEF FoldInv, Behind
      <4>3. CASE i \notin DOMAIN folds /\ j \in DOMAIN folds
        <5>1. folds \in Seq(FoldRecord)
          BY DEF TypeInv
        <5>2. j \in 1 .. Len(folds)
          BY <4>3, <5>1
        <5>3. PICK k \in 1 .. n : i = Len(folds) + k
          BY <2>6, <3>1, <4>3
        <5>4. QED
          BY <3>1, <5>1, <5>2, <5>3
      <4>4. CASE i \notin DOMAIN folds /\ j \notin DOMAIN folds
        <5>1. PICK k \in 1 .. n : i = Len(folds) + k /\ folds'[i].minute = order[k]
          BY <2>6, <3>1, <4>4
        <5>2. PICK l \in 1 .. n : j = Len(folds) + l /\ folds'[j].minute = order[l]
          BY <2>6, <3>1, <4>4
        <5>3. order[k] = order[l] /\ order[k] \in Nat
          BY <2>4, <3>1, <5>1, <5>2
        <5>4. ~(k < l)
          BY <2>4, <5>3
        <5>5. Len(folds) \in Nat
          BY DEF TypeInv
        <5>6. QED
          BY <3>1, <5>1, <5>2, <5>4, <5>5
      <4>5. QED
        BY <4>1, <4>2, <4>3, <4>4
    <3>2. QED
      BY <3>1 DEF OncePerJump
  <2>10. QED
    BY <2>4, <2>7, <2>8, <2>9 DEF FoldInv, RefoldedOnlyAfterJump, OncePerJump
<1>5. CASE SaveBaseline
  <2>1. /\ UNCHANGED <<folds, lastAnalyzed, jumps>>
        /\ \/ saved' = [folds |-> folds,
                        cursor |-> IF lastAnalyzed = 0 THEN saved.cursor ELSE lastAnalyzed]
           \/ saved' = saved
    BY <1>5 DEF SaveBaseline, memory
  <2>2. CASE saved' = saved
    BY <1>2, <2>1, <2>2
  <2>3. CASE saved' = [folds |-> folds,
                       cursor |-> IF lastAnalyzed = 0 THEN saved.cursor ELSE lastAnalyzed]
    <3>1. saved'.folds = folds /\ saved'.cursor \in Nat /\ lastAnalyzed <= saved'.cursor
      BY <1>1, <2>3
    <3>2. Behind(saved.folds, saved.cursor)'
      BY <1>1, <2>1, <3>1 DEF FoldInv, Behind
    <3>3. QED
      BY <2>1, <3>1, <3>2 DEF FoldInv, Behind, RefoldedOnlyAfterJump, OncePerJump
  <2>4. QED
    BY <2>1, <2>2, <2>3
<1>6. CASE Crash
  <2>1. DOMAIN folds' = {} /\ UNCHANGED <<saved, jumps>>
    BY <1>6 DEF Crash, tables
  <2>2. QED
    BY <2>1 DEF FoldInv, Behind, RefoldedOnlyAfterJump, OncePerJump
<1>7. CASE Boot
  <2>1. /\ UNCHANGED <<saved, jumps>>
        /\ \/ folds' = saved.folds /\ lastAnalyzed' = saved.cursor
           \/ UNCHANGED <<folds, lastAnalyzed>>
    BY <1>7 DEF Boot, tables
  <2>2. CASE folds' = saved.folds /\ lastAnalyzed' = saved.cursor
    BY <2>1, <2>2 DEF FoldInv, Behind, RefoldedOnlyAfterJump, OncePerJump
  <2>3. QED
    BY <1>2, <2>1, <2>2
<1>8. Poll \/ Observe \/ Quiet \/ Persist \/ InsertAnomaly \/ UNCHANGED vars
         => UNCHANGED <<folds, saved, lastAnalyzed, jumps>>
  BY DEF Poll, Observe, Quiet, Persist, InsertAnomaly, vars, memory, tables, history
<1>9. QED
  BY <1>2, <1>3, <1>4, <1>5, <1>6, <1>7, <1>8 DEF Next, Flush

\* The detector takes a minute again only after a jump back of event time, once
\* for each: neither a later flush nor a restart that reads its records again
\* makes it.
THEOREM RefoldedAfterJumps == Spec => []RefoldedOnlyAfterJump
<1>1. Init => FoldInv
  BY DEF Init, NoDetector, FoldInv, Behind, RefoldedOnlyAfterJump, OncePerJump
<1>2. FoldInv => RefoldedOnlyAfterJump
  BY DEF FoldInv
<1>3. QED
  BY <1>1, <1>2, FoldStep, TypeInit, TypeStep, PTL DEF Spec

----------------------------------------------------------------------------
(* A crash loses no anomaly                                                *)

LEMMA AnomalyStep == TypeInv /\ AnomalyInv /\ [Next]_vars => AnomalyInv'
<1> SUFFICES ASSUME TypeInv, AnomalyInv, [Next]_vars PROVE AnomalyInv'
  OBVIOUS
<1>1. faults \in Nat
  BY LagAssumption DEF TypeInv, TypeOK
<1>2. CASE UNCHANGED <<stage, found, faults, folds, saved, anomalies>>
  BY <1>2 DEF AnomalyInv, Reported
<1>3. CASE Detect
  <2>1. PICK n \in Nat : \E order, hits : DetectWith(n, order, hits)
    BY <1>3, DetectShape DEF TypeInv
  <2>2. PICK order, hits : DetectWith(n, order, hits)
    BY <2>1
  <2>3. /\ \A i \in DOMAIN folds : i \in DOMAIN folds' /\ folds'[i] = folds[i]
        /\ \A i \in DOMAIN folds' \ DOMAIN folds : \E k \in 1 .. n :
              i = Len(folds) + k /\ folds'[i] = Fold(order[k], hits[k])
    BY <2>2, DetectFolds
  <2>4. /\ stage = "idle" /\ stage' = "detected" /\ UNCHANGED <<faults, saved, anomalies>>
        /\ found' = UNION {{[minute |-> order[k], metric |-> h] : h \in hits[k]} : k \in 1 .. n}
    BY <2>2 DEF DetectWith, tables, history
  <2>5. ASSUME faults = 0
        PROVE  Reported(folds, found)'
    <3>1. ASSUME NEW i \in DOMAIN folds', NEW h \in folds'[i].hits
          PROVE  [minute |-> folds'[i].minute, metric |-> h] \in anomalies \union found'
      <4>1. CASE i \in DOMAIN folds
        BY <2>3, <2>4, <2>5, <3>1, <4>1 DEF AnomalyInv, Reported
      <4>2. CASE i \notin DOMAIN folds
        <5>1. PICK k \in 1 .. n : folds'[i] = Fold(order[k], hits[k])
          BY <2>3, <3>1, <4>2
        <5>2. folds'[i].minute = order[k] /\ folds'[i].hits = hits[k]
          BY <5>1 DEF Fold
        <5>3. QED
          BY <2>4, <3>1, <5>2
      <4>3. QED
        BY <4>1, <4>2
    <3>2. QED
      BY <2>4, <3>1 DEF Reported
  <2>6. QED
    BY <2>4, <2>5 DEF AnomalyInv, Reported
<1>4. CASE Persist
  <2>1. PICK W, K : PersistWith(W, K)
    BY <1>4, PersistShape
  <2>2. /\ UNCHANGED <<folds, saved, anomalies>>
        /\ \/ stage' = "persisted" /\ UNCHANGED <<found, faults>>
           \/ stage' = "idle" /\ found' = {} /\ faults' = faults + 1
    BY <2>1 DEF PersistWith
  <2>3. QED
    BY <1>1, <2>2 DEF AnomalyInv, Reported
<1>5. CASE InsertAnomaly
  <2>1. PICK a \in found :
          /\ found' = found \ {a}
          /\ \/ anomalies' = anomalies \union {a} /\ UNCHANGED faults
             \/ faults' = faults + 1 /\ UNCHANGED anomalies
    BY <1>5 DEF InsertAnomaly
  <2>2. stage = "persisted" /\ UNCHANGED <<stage, folds, saved>>
    BY <1>5 DEF InsertAnomaly, memory
  <2>3. faults' = 0 => faults = 0 /\ anomalies' = anomalies \union {a}
    BY <1>1, <2>1
  <2>4. faults' = 0 => Reported(folds, found)' /\ Reported(saved.folds, {})'
    BY <2>1, <2>2, <2>3 DEF AnomalyInv, Reported
  <2>5. QED
    BY <2>2, <2>4 DEF AnomalyInv
<1>6. CASE SaveBaseline
  <2>1. /\ found = {} /\ stage' = "idle" /\ UNCHANGED <<found, folds, anomalies>>
        /\ \/ saved'.folds = folds /\ UNCHANGED faults
           \/ faults' = faults + 1 /\ UNCHANGED saved
    BY <1>6 DEF SaveBaseline, memory
  <2>2. QED
    BY <1>1, <2>1 DEF AnomalyInv, Reported
<1>7. CASE Crash
  <2>1. DOMAIN folds' = {} /\ found' = {} /\ UNCHANGED <<saved, anomalies, faults>>
    BY <1>7 DEF Crash, tables
  <2>2. QED
    BY <2>1 DEF AnomalyInv, Reported
<1>8. CASE Boot
  <2>1. /\ stage = "boot" /\ UNCHANGED <<found, saved, anomalies>>
        /\ \/ folds' = saved.folds /\ UNCHANGED faults
           \/ faults' = faults + 1 /\ UNCHANGED folds
    BY <1>8 DEF Boot, tables
  <2>2. QED
    BY <1>1, <2>1 DEF AnomalyInv, Reported
<1>9. Poll \/ Advance \/ Observe \/ Quiet \/ UNCHANGED vars
         => UNCHANGED <<stage, found, faults, folds, saved, anomalies>>
  BY DEF Poll, Advance, Observe, Quiet, vars, memory, flusher, tables, history
<1>10. QED
  BY <1>2, <1>3, <1>4, <1>5, <1>6, <1>7, <1>8, <1>9 DEF Next, Flush

\* However often the process ends: a deviation that the saved detector has
\* taken in is in gold.anomalies, unless an insert failed.
THEOREM AnomaliesSurviveCrashes == Spec => []CrashLosesNoAnomaly
<1>1. Init => AnomalyInv
  BY DEF Init, NoDetector, AnomalyInv, Reported
<1>2. AnomalyInv => CrashLosesNoAnomaly
  BY DEF AnomalyInv, Reported, CrashLosesNoAnomaly
<1>3. QED
  BY <1>1, <1>2, AnomalyStep, TypeInit, TypeStep, PTL DEF Spec

----------------------------------------------------------------------------
(* A bucket that was evicted is not created again                          *)

LEMMA SourceStep == TypeInv /\ SourceInv /\ [Next]_vars => SourceInv'
<1> SUFFICES ASSUME TypeInv, SourceInv, [Next]_vars PROVE SourceInv'
  OBVIOUS
<1>1. position \in Nat /\ topic' = topic /\ Offsets /\ Contents
  BY TopicKept, TypeParts DEF TypeInv, TypeOK
<1>2. CASE DOMAIN buckets' \subseteq DOMAIN buckets /\ UNCHANGED <<watermark, position, held>>
  BY <1>1, <1>2 DEF SourceInv
<1>3. CASE Advance
  <2>1. /\ position < polled /\ held' /\ UNCHANGED <<buckets, position>>
        /\ watermark' = topic[position + 1].minute \/ watermark' = watermark
    BY <1>3 DEF Advance
  <2>2. position + 1 \in DOMAIN topic
    BY <1>1, <2>1, NextRecord
  <2>3. watermark' # 0 => \E j \in DOMAIN topic : j <= position + 1 /\ topic[j].minute = watermark'
    <3>1. CASE watermark' = topic[position + 1].minute
      BY <1>1, <2>2, <3>1
    <3>2. CASE watermark' = watermark
      <4>1. \A j \in DOMAIN topic : j <= position \/ (held /\ j = position + 1) => j <= position + 1
        BY <1>1, TopicAssumption DEF Offsets
      <4>2. QED
        BY <3>2, <4>1 DEF SourceInv
    <3>3. QED
      BY <2>1, <3>1, <3>2
  <2>4. \A j \in DOMAIN topic : j <= position + 1 => j <= position \/ j = position + 1
    BY <1>1, TopicAssumption DEF Offsets
  <2>5. QED
    BY <1>1, <2>1, <2>3, <2>4 DEF SourceInv
<1>4. CASE Observe
  <2>1. position < polled /\ position' = position + 1 /\ watermark' = watermark
    BY <1>4 DEF Observe, TypeInv
  <2>2. position + 1 \in DOMAIN topic
    BY <1>1, <2>1, NextRecord
  <2>3. ASSUME NEW m \in DOMAIN buckets'
        PROVE  \E i \in 1 .. position + 1 : topic[i].minute = m /\ topic[i].kind # "skip"
    <3>1. CASE m \in DOMAIN buckets
      BY <1>1, <3>1 DEF SourceInv
    <3>2. CASE m \notin DOMAIN buckets
      <4>1. topic[position + 1].minute = m /\ topic[position + 1].kind # "skip"
        BY <1>1, <1>4, <2>1, <2>3, <3>2, ObservedBucket
      <4>2. QED
        BY <1>1, <4>1
    <3>3. QED
      BY <3>1, <3>2
  <2>4. watermark # 0 => \E j \in DOMAIN topic : j <= position + 1 /\ topic[j].minute = watermark
    <3>1. \A j \in DOMAIN topic : j <= position \/ (held /\ j = position + 1) => j <= position + 1
      BY <1>1, TopicAssumption DEF Offsets
    <3>2. QED
      BY <3>1 DEF SourceInv
  <2>5. QED
    BY <1>1, <2>1, <2>3, <2>4 DEF SourceInv
<1>5. CASE Detect
  <2>1. DOMAIN buckets' = DOMAIN buckets /\ UNCHANGED <<watermark, position, held>>
    BY <1>5 DEF Detect, consumer
  <2>2. QED
    BY <1>2, <2>1
<1>6. CASE Persist
  <2>1. PICK W, K : PersistWith(W, K)
    BY <1>6, PersistShape
  <2>2. DOMAIN buckets' \subseteq DOMAIN buckets /\ UNCHANGED <<watermark, position, held>>
    BY <2>1 DEF PersistWith, consumer
  <2>3. QED
    BY <1>2, <2>2
<1>7. CASE Crash
  <2>1. DOMAIN buckets' = {} /\ watermark' = 0
    BY <1>7 DEF Crash
  <2>2. QED
    BY <2>1 DEF SourceInv
<1>8. Poll \/ Quiet \/ InsertAnomaly \/ SaveBaseline \/ Boot \/ UNCHANGED vars
         => buckets' = buckets /\ UNCHANGED <<watermark, position, held>>
  BY DEF Poll, Quiet, InsertAnomaly, SaveBaseline, Boot, vars, memory, consumer
<1>9. QED
  BY <1>2, <1>3, <1>4, <1>5, <1>6, <1>7, <1>8 DEF Next, Flush

\* What is over stays over, in one process.
LEMMA OverOn ==
    ASSUME Offsets, position' = position \/ position' = position + 1, topic' = topic, NEW m, Over(m)
    PROVE  Over(m)'
BY TopicAssumption DEF Over, Offsets

\* A bucket is evicted only when all records of its minute are in.
LEMMA EvictedIsOver ==
    ASSUME LateIsFirst, TypeInv, SourceInv, NEW m \in DOMAIN buckets, Evictable(m)
    PROVE  Over(m)
<1>1. /\ topic \in Topics /\ position \in Nat /\ watermark \in Nat /\ m \in Nat /\ EvictLag \in Nat
      /\ DOMAIN topic = 1 .. Len(topic) /\ Len(topic) \in Nat /\ position <= Len(topic)
      /\ \A k \in DOMAIN topic : topic[k].minute \in Nat
  <2>1. Offsets /\ Clocks /\ Contents
    BY TypeParts
  <2>2. /\ topic \in Topics /\ position \in Nat /\ DOMAIN topic = 1 .. Len(topic)
        /\ Len(topic) \in Nat /\ position <= Len(topic)
        /\ \A k \in DOMAIN topic : topic[k].minute \in Nat
    BY <2>1, TopicAssumption DEF Offsets
  <2>3. watermark \in Nat /\ EvictLag \in Nat
    BY <2>1, LagAssumption DEF Clocks
  <2>4. m \in Nat
    BY <2>1, <2>2 DEF Contents, Minutes
  <2>5. QED
    BY <2>2, <2>3, <2>4
<1>2. m + EvictLag < watermark
  BY <1>1 DEF Evictable
<1>3. PICK i \in 1 .. position : topic[i].minute = m /\ topic[i].kind # "skip"
  BY DEF SourceInv
<1>4. PICK j \in DOMAIN topic :
        /\ j <= position \/ (held /\ j = position + 1)
        /\ topic[j].minute = watermark
  BY <1>1, <1>2 DEF SourceInv
<1>5. ASSUME NEW k \in DOMAIN topic, k > position, topic[k].minute = m, topic[k].kind # "skip"
      PROVE  FALSE
  <2>1. i \in DOMAIN topic /\ i < k
    BY <1>1, <1>3, <1>5
  <2>2. j # k
    BY <1>1, <1>2, <1>4, <1>5
  <2>3. j < k
    BY <1>1, <1>4, <1>5, <2>2
  <2>4. topic[j].minute <= topic[k].minute + EvictLag
    BY <1>1, <1>3, <1>5, <2>1, <2>3 DEF LateIsFirst
  <2>5. QED
    BY <1>1, <1>2, <1>4, <1>5, <2>4
<1>6. QED
  BY <1>5 DEF Over

\* The record that is about to be observed is not of a minute that is over.
LEMMA NewIsNotOver ==
    ASSUME Offsets, Contents, Observe, position < polled, NEW m \in DOMAIN buckets' \ DOMAIN buckets
    PROVE  ~Over(m)
<1>1. topic[position + 1].minute = m /\ topic[position + 1].kind # "skip"
  BY ObservedBucket
<1>2. position + 1 \in DOMAIN topic /\ position + 1 > position
  BY NextRecord DEF Offsets
<1>3. QED
  BY <1>1, <1>2 DEF Over

----------------------------------------------------------------------------
(* The rows hold what the detector has folded                              *)

\* What a step may do to a fold's bucket and row without disturbing it.
LEMMA MemoryStep ==
    TypeInv /\ FoldInv /\ SourceInv /\ RowInv /\ LateIsFirst /\ ~cold' /\ [Next]_vars => MemoryHolds'
<1> SUFFICES ASSUME TypeInv, FoldInv, SourceInv, RowInv, LateIsFirst, ~cold', [Next]_vars
             PROVE  MemoryHolds'
  OBVIOUS
<1>1. topic' = topic /\ Offsets /\ Contents /\ Clocks
  BY TopicKept, TypeParts
<1>2. ~cold
  BY DEF Next, vars, Poll, Advance, Observe, Quiet, Flush, Detect, Persist, InsertAnomaly,
         SaveBaseline, Crash, Boot, history
<1>3. \A i \in DOMAIN folds : folds[i].jumps = jumps => BucketKeeps(folds[i]) /\ WillBeWritten(folds[i])
  BY <1>2 DEF RowInv, MemoryHolds
<1>4. /\ \A i \in DOMAIN folds : folds[i].minute \in Nat /\ folds[i].jumps \in Nat /\ folds[i].jumps <= jumps
      /\ jumps \in Nat /\ restored \in Nat
  BY FoldTypes DEF FoldRecord, FoldInv, Behind, TypeInv, TypeOK
\* Steps that do not touch the rows, the buckets or the flush.
<1>5. CASE UNCHANGED <<folds, jumps, restored, buckets, rows, stage, starts, position>>
  BY <1>1, <1>3, <1>5 DEF MemoryHolds, BucketKeeps, WillBeWritten, InRow, Shows, Over
<1>6. CASE Advance
  <2>1. UNCHANGED <<folds, buckets, rows, stage, starts, position>>
    BY <1>6 DEF Advance, flusher, tables
  <2>2. jumps' = jumps + 1 \/ UNCHANGED <<jumps, restored>>
    BY <1>6 DEF Advance
  <2>3. CASE jumps' = jumps + 1
    BY <1>4, <2>1, <2>3 DEF MemoryHolds
  <2>4. QED
    BY <1>5, <2>1, <2>2, <2>3
<1>7. CASE Observe
  <2>1. position < polled /\ position' = position + 1
        /\ UNCHANGED <<folds, jumps, restored, rows, stage, starts>>
    BY <1>7 DEF Observe, TypeInv, flusher, tables, history
  <2>2. ASSUME NEW i \in DOMAIN folds, folds[i].jumps = jumps
        PROVE  BucketKeeps(folds[i])' /\ WillBeWritten(folds[i])'
    <3>1. BucketKeeps(folds[i]) /\ WillBeWritten(folds[i])
      BY <1>3, <2>2
    <3>2. /\ DOMAIN buckets \subseteq DOMAIN buckets'
          /\ \A m \in DOMAIN buckets :
                buckets'[m].flag = buckets[m].flag /\ buckets[m].orders \subseteq buckets'[m].orders
      BY <1>1, <1>7, <2>1, ObservedBucket
    <3>3. WillBeWritten(folds[i])'
      BY <2>1, <3>1, <3>2 DEF WillBeWritten, InRow, Shows
    <3>4. ASSUME folds[i].minute > restored
          PROVE  /\ folds[i].minute \in DOMAIN buckets' => Shows(buckets'[folds[i].minute], folds[i])
                 /\ folds[i].minute \notin DOMAIN buckets' => Over(folds[i].minute)'
      <4>1. CASE folds[i].minute \in DOMAIN buckets
        BY <3>1, <3>2, <3>4, <4>1 DEF BucketKeeps, Shows
      <4>2. CASE folds[i].minute \notin DOMAIN buckets
        <5>1. Over(folds[i].minute)
          BY <3>1, <3>4, <4>2 DEF BucketKeeps
        <5>2. folds[i].minute \notin DOMAIN buckets'
          BY <1>1, <1>7, <2>1, <4>2, <5>1, NewIsNotOver
        <5>3. PICK m : m = folds[i].minute
          OBVIOUS
        <5>4. Over(m)'
          BY <1>1, <2>1, <5>1, <5>3, OverOn
        <5>5. QED
          BY <2>1, <5>2, <5>3, <5>4
      <4>3. QED
        BY <4>1, <4>2
    <3>5. QED
      BY <2>1, <3>3, <3>4 DEF BucketKeeps, Shows
  <2>3. QED
    BY <2>1, <2>2 DEF MemoryHolds
<1>8. CASE Detect
  <2>1. PICK n \in Nat : \E order, hits : DetectWith(n, order, hits)
    BY <1>8, DetectShape DEF TypeInv
  <2>2. PICK order, hits : DetectWith(n, order, hits)
    BY <2>1
  <2>3. /\ \A i \in DOMAIN folds : i \in DOMAIN folds' /\ folds'[i] = folds[i]
        /\ \A i \in DOMAIN folds' \ DOMAIN folds : \E k \in 1 .. n :
              i = Len(folds) + k /\ folds'[i] = Fold(order[k], hits[k])
    BY <2>2, DetectFolds
  <2>4. /\ DOMAIN buckets' = DOMAIN buckets
        /\ \A m \in DOMAIN buckets :
              buckets'[m].orders = buckets[m].orders /\ (buckets[m].flag => buckets'[m].flag)
        /\ \A k \in 1 .. n : hits[k] # {} => buckets'[order[k]].flag
    BY <1>1, <2>2, DetectedBuckets
  <2>5. /\ stage = "idle" /\ stage' = "detected" /\ starts' = DOMAIN buckets
        /\ UNCHANGED <<jumps, restored, rows, position>>
        /\ \A k \in 1 .. n : order[k] \in DOMAIN buckets /\ order[k] > lastAnalyzed
    BY <2>2 DEF DetectWith, consumer, tables, history
  <2>6. ASSUME NEW i \in DOMAIN folds', folds'[i].jumps = jumps, i \in DOMAIN folds
        PROVE  BucketKeeps(folds[i])' /\ WillBeWritten(folds[i])'
    <3>1. folds'[i] = folds[i]
      BY <2>3, <2>6
    <3>2. BucketKeeps(folds[i]) /\ WillBeWritten(folds[i])
      BY <1>3, <2>6, <3>1
    <3>3. BucketKeeps(folds[i])'
      BY <1>1, <2>4, <2>5, <3>1, <3>2 DEF BucketKeeps, Shows, Over
    <3>4. WillBeWritten(folds[i])'
      BY <2>4, <2>5, <3>1, <3>2 DEF WillBeWritten, InRow, Shows
    <3>5. QED
      BY <3>3, <3>4
  <2>7. ASSUME NEW i \in DOMAIN folds', i \notin DOMAIN folds
        PROVE  BucketKeeps(folds[i])' /\ WillBeWritten(folds[i])'
    <3>1. PICK k \in 1 .. n : folds'[i] = Fold(order[k], hits[k])
      BY <2>3, <2>7
    <3>2. folds'[i].minute = order[k] /\ folds'[i].orders = buckets[order[k]].orders /\ folds'[i].hits = hits[k]
      BY <3>1 DEF Fold
    <3>3. BucketKeeps(folds[i])'
      BY <2>4, <2>5, <3>2 DEF BucketKeeps, Shows
    <3>4. order[k] > restored
      <4>1. order[k] \in Nat /\ lastAnalyzed \in Nat /\ restored <= lastAnalyzed
        <5>1. order[k] \in Minutes
          BY <1>1, <2>5 DEF Contents
        <5>2. Minutes \subseteq Nat
          BY <1>1, TopicAssumption DEF Offsets, Minutes
        <5>3. lastAnalyzed \in Nat /\ restored <= lastAnalyzed
          BY <1>1 DEF Clocks
        <5>4. QED
          BY <5>1, <5>2, <5>3
      <4>2. QED
        BY <1>4, <2>5, <4>1
    <3>5. WillBeWritten(folds[i])'
      BY <2>4, <2>5, <3>2, <3>4 DEF WillBeWritten
    <3>6. QED
      BY <3>3, <3>5
  <2>8. QED
    BY <2>5, <2>6, <2>7 DEF MemoryHolds
<1>9. CASE Persist
  <2>1. PICK W, K : PersistWith(W, K)
    BY <1>9, PersistShape
  <2>2. /\ W \subseteq {m \in starts : m > restored}
        /\ rows' = [m \in DOMAIN rows \union W |-> IF m \in W THEN WrittenRow(m) ELSE rows[m]]
        /\ K \subseteq DOMAIN buckets /\ buckets' = [m \in K |-> buckets[m]]
        /\ stage = "detected" /\ UNCHANGED <<folds, jumps, restored, position>>
        /\ starts \subseteq DOMAIN buckets
    BY <1>1, <2>1 DEF PersistWith, consumer, Contents
  <2>3. \A m \in DOMAIN buckets \ K : m > restored => Over(m)
    <3>1. \A m \in DOMAIN buckets \ K : ~(m > restored) \/ Evictable(m)
      BY <2>1 DEF PersistWith
    <3>2. QED
      BY <3>1, EvictedIsOver
  <2>4. \/ stage' = "persisted" /\ W = {m \in starts : m > restored}
        \/ stage' = "idle" /\ \A m \in DOMAIN buckets \ K : ~(m > restored)
    BY <2>1 DEF PersistWith
  <2>5. ASSUME NEW i \in DOMAIN folds, folds[i].jumps = jumps
        PROVE  BucketKeeps(folds[i])' /\ WillBeWritten(folds[i])'
    <3>1. BucketKeeps(folds[i]) /\ WillBeWritten(folds[i])
      BY <1>3, <2>5
    <3>2. BucketKeeps(folds[i])'
      <4>1. folds[i].minute > restored /\ folds[i].minute \in K => Shows(buckets'[folds[i].minute], folds[i])
        BY <2>2, <3>1 DEF BucketKeeps
      <4>2. folds[i].minute > restored /\ folds[i].minute \notin K => Over(folds[i].minute)
        BY <2>3, <3>1 DEF BucketKeeps
      <4>3. DOMAIN buckets' = K
        BY <2>2
      <4>4. QED
        BY <1>1, <2>2, <4>1, <4>2, <4>3 DEF BucketKeeps, Over, Shows
    <3>3. InRow(folds[i]) => InRow(folds[i])'
      <4>1. CASE folds[i].minute \in W
        BY <2>2, <3>1, <4>1 DEF InRow, Shows, BucketKeeps, WrittenRow
      <4>2. CASE folds[i].minute \notin W
        BY <2>2, <4>2 DEF InRow, Shows
      <4>3. QED
        BY <4>1, <4>2
    <3>4. ASSUME ~InRow(folds[i])
          PROVE  WillBeWritten(folds[i])'
      <4>1. folds[i].minute > restored /\ folds[i].minute \in starts /\ folds[i].minute \in DOMAIN buckets
        BY <2>2, <3>1, <3>4 DEF WillBeWritten
      <4>2. CASE folds[i].minute \in W
        BY <2>2, <3>1, <4>1, <4>2 DEF InRow, Shows, BucketKeeps, WrittenRow, WillBeWritten
      <4>3. CASE folds[i].minute \notin W
        <5>1. stage' = "idle" /\ folds[i].minute \in K
          BY <2>4, <4>1, <4>3
        <5>2. QED
          BY <2>2, <4>1, <5>1 DEF WillBeWritten
      <4>4. QED
        BY <4>2, <4>3
    <3>5. QED
      BY <3>2, <3>3, <3>4 DEF WillBeWritten
  <2>6. QED
    BY <2>2, <2>5 DEF MemoryHolds
<1>10. CASE SaveBaseline
  <2>1. stage = "persisted" /\ stage' = "idle"
        /\ UNCHANGED <<folds, jumps, restored, buckets, rows, starts, position>>
    BY <1>10 DEF SaveBaseline, memory, consumer, SaveBaseline
  <2>2. jumps' = jumps
    BY <2>1
  <2>3. QED
    BY <1>1, <1>3, <2>1 DEF MemoryHolds, BucketKeeps, WillBeWritten, InRow, Shows, Over
<1>11. CASE Crash
  <2>1. DOMAIN folds' = {}
    BY <1>11 DEF Crash
  <2>2. QED
    BY <2>1 DEF MemoryHolds
<1>12. CASE Boot
  <2>1. /\ folds' = saved.folds /\ restored' = saved.cursor
        /\ UNCHANGED <<jumps, rows>>
    BY <1>12 DEF Boot, tables
  <2>2. ASSUME NEW i \in DOMAIN saved.folds, saved.folds[i].jumps = jumps
        PROVE  InRow(saved.folds[i]) /\ saved.folds[i].minute <= saved.cursor
    BY <1>2, <2>2 DEF RowInv, RowsHoldFolds, InRow, Shows, FoldInv, Behind
  <2>3. ASSUME NEW i \in DOMAIN folds', folds'[i].jumps = jumps
        PROVE  BucketKeeps(folds[i])' /\ WillBeWritten(folds[i])'
    <3>1. InRow(folds[i])'
      BY <2>1, <2>2, <2>3 DEF InRow, Shows
    <3>2. ~(folds'[i].minute > restored')
      <4>1. saved.folds[i].minute \in Nat /\ saved.cursor \in Nat
        BY <2>1, FoldTypes DEF FoldRecord
      <4>2. QED
        BY <2>1, <2>2, <2>3, <4>1
    <3>3. QED
      BY <3>1, <3>2 DEF BucketKeeps, WillBeWritten
  <2>4. QED
    BY <2>1, <2>3 DEF MemoryHolds
<1>13. Poll \/ Quiet \/ InsertAnomaly \/ UNCHANGED vars
         => UNCHANGED <<folds, jumps, restored, buckets, rows, stage, starts, position>>
  BY DEF Poll, Quiet, InsertAnomaly, vars, memory, consumer, flusher, tables, history
<1>14. QED
  BY <1>5, <1>6, <1>7, <1>8, <1>9, <1>10, <1>11, <1>12, <1>13 DEF Next, Flush

\* What was saved stays a part of what is in memory.
LEMMA SavedIsFoldedStep ==
    TypeInv /\ SavedIsFolded /\ ~cold' /\ [Next]_vars => SavedIsFolded'
<1> SUFFICES ASSUME TypeInv, SavedIsFolded, ~cold', [Next]_vars PROVE SavedIsFolded'
  OBVIOUS
<1>1. CASE UNCHANGED <<folds, saved>> /\ stage # "boot"
  BY <1>1 DEF SavedIsFolded
<1>2. CASE Detect
  <2>1. PICK n \in Nat : \E order, hits : DetectWith(n, order, hits)
    BY <1>2, DetectShape DEF TypeInv
  <2>2. PICK order, hits : DetectWith(n, order, hits)
    BY <2>1
  <2>3. \A i \in DOMAIN folds : i \in DOMAIN folds' /\ folds'[i] = folds[i]
    BY <2>2, DetectFolds
  <2>4. stage = "idle" /\ saved' = saved
    BY <2>2 DEF DetectWith, tables
  <2>5. QED
    BY <2>3, <2>4 DEF SavedIsFolded
<1>3. CASE SaveBaseline
  <2>1. stage = "persisted" /\ folds' = folds /\ (saved'.folds = folds \/ saved' = saved)
    BY <1>3 DEF SaveBaseline, memory
  <2>2. QED
    BY <2>1 DEF SavedIsFolded
<1>4. CASE Crash
  BY <1>4 DEF Crash, SavedIsFolded
<1>5. CASE Boot
  <2>1. folds' = saved.folds /\ saved' = saved
    BY <1>5 DEF Boot, tables
  <2>2. QED
    BY <2>1 DEF SavedIsFolded
<1>6. CASE stage = "boot" /\ UNCHANGED <<stage, folds, saved>>
  BY <1>6 DEF SavedIsFolded
<1>7. Poll \/ Advance \/ Observe \/ Quiet \/ Persist \/ InsertAnomaly \/ UNCHANGED vars
         => \/ UNCHANGED <<folds, saved>> /\ stage # "boot"
            \/ stage = "boot" /\ UNCHANGED <<stage, folds, saved>>
  BY DEF Poll, Advance, Observe, Quiet, Persist, InsertAnomaly, vars, memory, flusher, tables
<1>8. QED
  BY <1>1, <1>2, <1>3, <1>4, <1>5, <1>6, <1>7 DEF Next, Flush

LEMMA SavedRowsStep ==
    TypeInv /\ FoldInv /\ RowInv /\ ~cold' /\ [Next]_vars => RowsHoldFolds'
<1> SUFFICES ASSUME TypeInv, FoldInv, RowInv, ~cold', [Next]_vars PROVE RowsHoldFolds'
  OBVIOUS
<1>1. ~cold
  BY DEF Next, vars, Poll, Advance, Observe, Quiet, Flush, Detect, Persist, InsertAnomaly,
         SaveBaseline, Crash, Boot, history
<1>2. MemoryHolds /\ SavedIsFolded /\ RowsHoldFolds
  BY <1>1 DEF RowInv
<1>3. ~cold /\ \A i \in DOMAIN saved.folds : saved.folds[i].jumps = jumps => InRow(saved.folds[i])
  BY <1>1, <1>2 DEF RowsHoldFolds, InRow, Shows
<1>4. SUFFICES ASSUME NEW i \in DOMAIN saved'.folds, saved'.folds[i].jumps = jumps'
               PROVE  InRow(saved.folds[i])'
  BY DEF RowsHoldFolds, InRow, Shows
<1>5. CASE UNCHANGED <<saved, rows, jumps>>
  BY <1>3, <1>4, <1>5 DEF InRow, Shows
<1>6. CASE Advance
  <2>1. UNCHANGED <<saved, rows>> /\ (jumps' = jumps + 1 \/ jumps' = jumps)
    BY <1>6 DEF Advance, tables
  <2>2. CASE jumps' = jumps + 1
    <3>1. saved.folds[i].jumps \in Nat /\ saved.folds[i].jumps <= jumps /\ jumps \in Nat
      BY <1>4, <2>1, FoldTypes DEF FoldRecord, FoldInv, Behind
    <3>2. QED
      BY <1>4, <2>1, <2>2, <3>1
  <2>3. QED
    BY <1>5, <2>1, <2>2
<1>7. CASE Persist
  <2>1. PICK W, K : PersistWith(W, K)
    BY <1>7, PersistShape
  <2>2. /\ W \subseteq {m \in starts : m > restored}
        /\ rows' = [m \in DOMAIN rows \union W |-> IF m \in W THEN WrittenRow(m) ELSE rows[m]]
        /\ stage = "detected" /\ UNCHANGED <<saved, jumps>>
        /\ starts \subseteq DOMAIN buckets
    BY <2>1 DEF PersistWith, TypeInv, TypeOK
  <2>3. saved.folds[i].jumps = jumps /\ InRow(saved.folds[i])
    BY <1>3, <1>4, <2>2
  <2>4. BucketKeeps(saved.folds[i])
    <3>1. i \in DOMAIN folds /\ folds[i] = saved.folds[i]
      BY <1>2, <1>4, <2>2 DEF SavedIsFolded
    <3>2. QED
      BY <1>2, <2>3, <3>1 DEF MemoryHolds
  <2>5. CASE saved.folds[i].minute \in W
    BY <2>2, <2>4, <2>5 DEF InRow, Shows, BucketKeeps, WrittenRow
  <2>6. CASE saved.folds[i].minute \notin W
    BY <2>2, <2>3, <2>6 DEF InRow, Shows
  <2>7. QED
    BY <2>5, <2>6
<1>8. CASE SaveBaseline
  <2>1. stage = "persisted" /\ UNCHANGED <<rows, jumps>> /\ (saved'.folds = folds \/ saved' = saved)
    BY <1>8 DEF SaveBaseline
  <2>2. CASE saved'.folds = folds
    <3>1. i \in DOMAIN folds /\ folds[i].jumps = jumps
      BY <1>4, <2>1, <2>2
    <3>2. InRow(folds[i])
      BY <1>2, <2>1, <3>1 DEF MemoryHolds, WillBeWritten
    <3>3. QED
      BY <2>1, <2>2, <3>2 DEF InRow, Shows
  <2>3. QED
    BY <1>5, <2>1, <2>2
<1>9. Poll \/ Observe \/ Quiet \/ Detect \/ InsertAnomaly \/ Crash \/ Boot \/ UNCHANGED vars
         => UNCHANGED <<saved, rows, jumps>>
  BY DEF Poll, Observe, Quiet, Detect, InsertAnomaly, Crash, Boot, vars, tables, history
<1>10. QED
  BY <1>5, <1>6, <1>7, <1>8, <1>9 DEF Next, Flush

LEMMA RowStep ==
    LateIsFirst /\ TypeInv /\ FoldInv /\ SourceInv /\ RowInv /\ [Next]_vars => RowInv'
<1> SUFFICES ASSUME LateIsFirst, TypeInv, FoldInv, SourceInv, RowInv, [Next]_vars, ~cold'
             PROVE  MemoryHolds' /\ SavedIsFolded' /\ RowsHoldFolds'
  BY DEF RowInv
<1>1. ~cold
  BY DEF Next, vars, Poll, Advance, Observe, Quiet, Flush, Detect, Persist, InsertAnomaly,
         SaveBaseline, Crash, Boot, history
<1>2. SavedIsFolded
  BY <1>1 DEF RowInv
<1>3. QED
  BY <1>2, MemoryStep, SavedIsFoldedStep, SavedRowsStep

\* When no record is later than the eviction lag unless it is the first of its
\* minute: whatever the saved detector has folded from a minute, its row shows,
\* after restarts that read a part of the minute again and failed writes too.
THEOREM RowsCoverAnalysis ==
    ASSUME LateIsFirst
    PROVE  Spec => []RowsHoldFolds
<1>1. Init => SourceInv /\ RowInv /\ FoldInv
  BY DEF Init, NoDetector, SourceInv, RowInv, MemoryHolds, SavedIsFolded, RowsHoldFolds,
         FoldInv, Behind, RefoldedOnlyAfterJump, OncePerJump
<1>2. RowInv => RowsHoldFolds
  BY DEF RowInv, RowsHoldFolds
<1>3. TypeInv /\ FoldInv /\ SourceInv /\ RowInv /\ [Next]_vars => RowInv'
  BY RowStep
<1>4. QED
  BY <1>1, <1>2, <1>3, FoldStep, SourceStep, TypeInit, TypeStep, PTL DEF Spec

----------------------------------------------------------------------------
(* A row only grows while one process writes it between two jumps          *)

LEMMA RowTypes ==
    ASSUME TypeInv
    PROVE  /\ \A m \in DOMAIN rows : rows[m].by[1] \in Nat /\ rows[m].by[2] \in Nat
           /\ crashes \in Nat /\ jumps \in Nat /\ restored \in Nat
<1>1. \A m \in DOMAIN rows : rows[m] \in RowRecord
  BY DEF TypeInv
<1>2. crashes \in Nat /\ jumps \in Nat /\ restored \in Nat
  BY DEF TypeInv, TypeOK
<1>3. ASSUME NEW m \in DOMAIN rows
      PROVE  rows[m].by[1] \in Nat /\ rows[m].by[2] \in Nat
  <2>1. rows[m].by \in Nat \X Nat
    BY <1>1 DEF RowRecord
  <2>2. QED
    BY <2>1
<1>4. QED
  BY <1>2, <1>3

\* The bucket of a row that is still this process's own.
LEMMA GrowStep ==
    LateIsFirst /\ TypeInv /\ SourceInv /\ GrowInv /\ [Next]_vars => GrowInv'
<1> SUFFICES ASSUME LateIsFirst, TypeInv, SourceInv, GrowInv, [Next]_vars PROVE GrowInv'
  OBVIOUS
<1>1. topic' = topic /\ Offsets /\ Contents
  BY TopicKept, TypeParts
<1>2. /\ \A m \in DOMAIN rows : rows[m].by[1] \in Nat /\ rows[m].by[2] \in Nat
      /\ crashes \in Nat /\ jumps \in Nat /\ restored \in Nat
  BY RowTypes
\* No jump, the process goes on, and so do the rows.
<1>3. ASSUME rows' = rows, UNCHANGED <<crashes, jumps, restored>>, stage' = "boot" => stage = "boot",
             NEW m \in DOMAIN rows,
             m \in DOMAIN buckets => m \in DOMAIN buckets' /\ Within(buckets[m], buckets'[m]),
             m \notin DOMAIN buckets /\ Over(m) => m \notin DOMAIN buckets' /\ Over(m)'
      PROVE  LET by == rows'[m].by IN
             /\ by[1] <= crashes' /\ by[2] <= jumps'
             /\ stage' = "boot" => by[1] < crashes'
             /\ by = <<crashes', jumps'>> =>
                   /\ m > restored'
                   /\ m \in DOMAIN buckets' => Within(rows'[m], buckets'[m])
                   /\ m \notin DOMAIN buckets' => Over(m)'
  <2>1. CASE m \in DOMAIN buckets
    BY <1>3, <2>1 DEF GrowInv, Within
  <2>2. CASE m \notin DOMAIN buckets
    BY <1>3, <2>2 DEF GrowInv
  <2>3. QED
    BY <2>1, <2>2
<1>4. CASE /\ UNCHANGED <<rows, crashes, jumps, restored, buckets, position>>
           /\ stage' = "boot" => stage = "boot"
  BY <1>1, <1>4 DEF GrowInv, Over, Within
<1>5. CASE Advance
  <2>1. UNCHANGED <<rows, crashes, buckets, position, stage>>
    BY <1>5 DEF Advance, tables, flusher
  <2>2. jumps' = jumps + 1 \/ UNCHANGED <<jumps, restored>>
    BY <1>5 DEF Advance
  <2>3. CASE jumps' = jumps + 1
    <3>1. ASSUME NEW m \in DOMAIN rows
          PROVE  /\ rows[m].by[1] <= crashes /\ rows[m].by[2] <= jumps + 1
                 /\ stage = "boot" => rows[m].by[1] < crashes
                 /\ rows[m].by # <<crashes, jumps + 1>>
      <4>1. rows[m].by[2] <= jumps /\ rows[m].by[1] <= crashes /\ (stage = "boot" => rows[m].by[1] < crashes)
        BY <3>1 DEF GrowInv
      <4>2. rows[m].by[2] # jumps + 1 /\ rows[m].by[2] <= jumps + 1
        BY <1>2, <3>1, <4>1
      <4>3. <<crashes, jumps + 1>>[2] = jumps + 1
        OBVIOUS
      <4>4. QED
        BY <4>1, <4>2, <4>3
    <3>2. QED
      BY <2>1, <2>3, <3>1 DEF GrowInv
  <2>4. QED
    BY <1>4, <2>1, <2>2, <2>3
<1>6. CASE Observe
  <2>1. position < polled /\ position' = position + 1
        /\ UNCHANGED <<rows, crashes, jumps, restored, stage>>
    BY <1>6 DEF Observe, TypeInv, flusher, tables, history
  <2>2. /\ DOMAIN buckets \subseteq DOMAIN buckets'
        /\ \A m \in DOMAIN buckets : Within(buckets[m], buckets'[m])
    BY <1>1, <1>6, <2>1, ObservedBucket DEF Within
  <2>3. ASSUME NEW m \in DOMAIN rows, m \notin DOMAIN buckets, Over(m)
        PROVE  m \notin DOMAIN buckets' /\ Over(m)'
    <3>1. m \notin DOMAIN buckets'
      BY <1>1, <1>6, <2>1, <2>3, NewIsNotOver
    <3>2. PICK minute : minute = m
      OBVIOUS
    <3>3. Over(minute)'
      BY <1>1, <2>1, <2>3, <3>2, OverOn
    <3>4. QED
      BY <3>1, <3>2, <3>3
  <2>4. QED
    BY <1>3, <2>1, <2>2, <2>3 DEF GrowInv
<1>7. CASE Detect
  <2>1. PICK n \in Nat : \E order, hits : DetectWith(n, order, hits)
    BY <1>7, DetectShape DEF TypeInv
  <2>2. PICK order, hits : DetectWith(n, order, hits)
    BY <2>1
  <2>3. /\ DOMAIN buckets' = DOMAIN buckets
        /\ \A m \in DOMAIN buckets : Within(buckets[m], buckets'[m])
    BY <1>1, <2>2, DetectedBuckets DEF Within
  <2>4. stage' = "detected" /\ UNCHANGED <<rows, crashes, jumps, restored, position>>
    BY <2>2 DEF DetectWith, consumer, tables, history
  <2>5. \A m \in DOMAIN rows : Over(m) => Over(m)'
    BY <1>1, <2>4 DEF Over
  <2>6. QED
    BY <1>3, <2>3, <2>4, <2>5 DEF GrowInv
<1>8. CASE Persist
  <2>1. PICK W, K : PersistWith(W, K)
    BY <1>8, PersistShape
  <2>2. /\ W \subseteq {m \in starts : m > restored} /\ W \subseteq DOMAIN buckets
        /\ rows' = [m \in DOMAIN rows \union W |-> IF m \in W THEN WrittenRow(m) ELSE rows[m]]
        /\ K \subseteq DOMAIN buckets /\ buckets' = [m \in K |-> buckets[m]]
        /\ stage' # "boot" /\ UNCHANGED <<crashes, jumps, restored, position>>
    BY <1>1, <2>1 DEF PersistWith, consumer, Contents
  <2>3. \A m \in DOMAIN buckets \ K : m > restored => Over(m)
    <3>1. \A m \in DOMAIN buckets \ K : ~(m > restored) \/ Evictable(m)
      BY <2>1 DEF PersistWith
    <3>2. QED
      BY <3>1, EvictedIsOver
  <2>4. ASSUME NEW m \in DOMAIN rows'
        PROVE  /\ rows'[m].by[1] <= crashes /\ rows'[m].by[2] <= jumps
               /\ rows'[m].by = <<crashes, jumps>> =>
                     /\ m > restored
                     /\ m \in K => Within(rows'[m], buckets[m])
                     /\ m \notin K => Over(m)
    <3>1. CASE m \in W
      <4>1. rows'[m] = WrittenRow(m)
        BY <2>2, <3>1
      <4>2. rows'[m].by = <<crashes, jumps>> /\ Within(rows'[m], buckets[m])
        BY <4>1 DEF WrittenRow, Within
      <4>3. rows'[m].by[1] = crashes /\ rows'[m].by[2] = jumps
        BY <4>2
      <4>4. QED
        BY <1>2, <2>2, <2>3, <3>1, <4>2, <4>3
    <3>2. CASE m \notin W
      <4>1. m \in DOMAIN rows /\ rows'[m] = rows[m]
        BY <2>2, <2>4, <3>2
      <4>2. QED
        BY <2>2, <2>3, <4>1 DEF GrowInv
    <3>3. QED
      BY <3>1, <3>2
  <2>5. \A m : Over(m) => Over(m)'
    BY <1>1, <2>2 DEF Over
  <2>6. DOMAIN buckets' = K /\ \A m \in K : buckets'[m] = buckets[m]
    BY <2>2
  <2>7. QED
    BY <2>2, <2>4, <2>5, <2>6 DEF GrowInv
<1>9. CASE Crash
  <2>1. crashes' = crashes + 1 /\ UNCHANGED <<rows, jumps>>
    BY <1>9 DEF Crash, tables
  <2>2. ASSUME NEW m \in DOMAIN rows
        PROVE  /\ rows[m].by[1] < crashes + 1 /\ rows[m].by[1] <= crashes + 1
               /\ rows[m].by[2] <= jumps /\ rows[m].by # <<crashes + 1, jumps>>
    <3>1. rows[m].by[1] <= crashes /\ rows[m].by[2] <= jumps
      BY <2>2 DEF GrowInv
    <3>2. <<crashes + 1, jumps>>[1] = crashes + 1
      OBVIOUS
    <3>3. rows[m].by[1] # crashes + 1 /\ rows[m].by[1] < crashes + 1
      BY <1>2, <2>2, <3>1
    <3>4. QED
      BY <1>2, <2>2, <3>1, <3>2, <3>3
  <2>3. QED
    BY <2>1, <2>2 DEF GrowInv
<1>10. CASE Boot
  <2>1. stage = "boot" /\ stage' = "idle" /\ UNCHANGED <<rows, crashes, jumps>>
    BY <1>10 DEF Boot, tables
  <2>2. ASSUME NEW m \in DOMAIN rows
        PROVE  /\ rows[m].by[1] <= crashes /\ rows[m].by[2] <= jumps
               /\ rows[m].by # <<crashes, jumps>>
    <3>1. rows[m].by[1] < crashes /\ rows[m].by[1] <= crashes /\ rows[m].by[2] <= jumps
      BY <2>1, <2>2 DEF GrowInv
    <3>2. <<crashes, jumps>>[1] = crashes
      OBVIOUS
    <3>3. rows[m].by[1] # crashes
      BY <1>2, <2>2, <3>1
    <3>4. QED
      BY <3>1, <3>2, <3>3
  <2>3. QED
    BY <2>1, <2>2 DEF GrowInv
<1>11. Poll \/ Quiet \/ InsertAnomaly \/ SaveBaseline \/ UNCHANGED vars
         => /\ UNCHANGED <<rows, crashes, jumps, restored, buckets, position>>
            /\ stage' = "boot" => stage = "boot"
  BY DEF Poll, Quiet, InsertAnomaly, SaveBaseline, vars, consumer, memory, flusher, tables, history
<1>12. QED
  BY <1>4, <1>5, <1>6, <1>7, <1>8, <1>9, <1>10, <1>11 DEF Next, Flush

\* Only persistBuckets writes rows, from buckets that hold what it wrote before.
LEMMA WritesGrow ==
    ASSUME TypeInv, GrowInv, [Next]_vars, NEW m \in DOMAIN rows, rows'[m].by = rows[m].by
    PROVE  /\ rows[m].orders \subseteq rows'[m].orders
           /\ rows[m].sessions \subseteq rows'[m].sessions
           /\ rows[m].flag => rows'[m].flag
<1>1. CASE rows' = rows
  BY <1>1
<1>2. CASE Persist
  <2>1. PICK W, K : PersistWith(W, K)
    BY <1>2, PersistShape
  <2>2. /\ W \subseteq DOMAIN buckets
        /\ rows' = [q \in DOMAIN rows \union W |-> IF q \in W THEN WrittenRow(q) ELSE rows[q]]
    BY <2>1 DEF PersistWith, TypeInv, TypeOK
  <2>3. CASE m \in W
    <3>1. rows'[m] = WrittenRow(m) /\ m \in DOMAIN buckets
      BY <2>2, <2>3
    <3>2. rows'[m].by = <<crashes, jumps>> /\ Within(buckets[m], rows'[m])
      BY <3>1 DEF WrittenRow, Within
    <3>3. Within(rows[m], buckets[m])
      BY <3>1, <3>2 DEF GrowInv
    <3>4. QED
      BY <3>2, <3>3 DEF Within
  <2>4. CASE m \notin W
    BY <2>2, <2>4
  <2>5. QED
    BY <2>3, <2>4
<1>3. rows' = rows \/ Persist
  BY DEF Next, Flush, vars, Poll, Advance, Observe, Quiet, Detect, InsertAnomaly, SaveBaseline,
         Crash, Boot, tables
<1>4. QED
  BY <1>1, <1>2, <1>3

\* When no record is later than the eviction lag unless it is the first of its
\* minute: a row never shrinks and never loses its flag while one process
\* writes it between two jumps.
THEOREM RowsGrow ==
    ASSUME LateIsFirst
    PROVE  Spec => RowsOnlyGrow
<1>1. Init => SourceInv /\ GrowInv
  BY DEF Init, SourceInv, GrowInv
<1>2. TypeInv /\ SourceInv /\ GrowInv /\ [Next]_vars => GrowInv'
  BY GrowStep
<1>3. TypeInv /\ GrowInv /\ [Next]_vars
        => [\A m \in DOMAIN rows : rows'[m].by = rows[m].by =>
               /\ rows[m].orders \subseteq rows'[m].orders
               /\ rows[m].sessions \subseteq rows'[m].sessions
               /\ rows[m].flag => rows'[m].flag]_vars
  BY WritesGrow
<1>4. QED
  BY <1>1, <1>2, <1>3, SourceStep, TypeInit, TypeStep, PTL DEF Spec, RowsOnlyGrow
=============================================================================
