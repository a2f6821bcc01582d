------------------------------ MODULE ServerProofs ------------------------------
(***************************************************************************)
(* Theorems about Server, for any records, loads, clients and bounds.       *)
(***************************************************************************)
EXTENDS Server, SequenceTheorems, TLAPS

\* The rows on their way to bronze.
Carried == Range(pending) \union UNION {Range(flights[g]) : g \in Goroutines}

Numbers ==
    /\ committed \in Nat /\ batch \in Nat /\ position \in Nat
    /\ committed <= batch /\ batch <= position
    /\ pending \in Seq(Nat) /\ flights \in [Goroutines -> Seq(Nat)]

\* The consumer looks at the queue only with empty hands; without this its
\* flush could overwrite rows that it had taken off before.
EmptyHands == unchecked => flights["consumer"] = <<>>

Kept == \A r \in committed + 1 .. position : r \in bronze \union Carried

IInv == Numbers /\ EmptyHands /\ Kept

----------------------------------------------------------------------------
(* Sequences                                                               *)

LEMMA RangeOfAppend ==
    ASSUME NEW S, NEW s \in Seq(S), NEW x \in S
    PROVE  Append(s, x) \in Seq(S) /\ Range(Append(s, x)) = Range(s) \union {x}
<1>1. /\ Append(s, x) \in Seq(S) /\ Len(Append(s, x)) = Len(s) + 1 /\ Len(s) \in Nat
      /\ DOMAIN s = 1 .. Len(s) /\ DOMAIN Append(s, x) = 1 .. Len(s) + 1
      /\ \A i \in 1 .. Len(s) : Append(s, x)[i] = s[i]
      /\ Append(s, x)[Len(s) + 1] = x
  OBVIOUS
<1>2. Range(Append(s, x)) \subseteq Range(s) \union {x}
  BY <1>1 DEF Range
<1>3. Range(s) \union {x} \subseteq Range(Append(s, x))
  BY <1>1 DEF Range
<1>4. QED
  BY <1>1, <1>2, <1>3

LEMMA RangeOfConcat ==
    ASSUME NEW S, NEW s \in Seq(S), NEW t \in Seq(S)
    PROVE  s \o t \in Seq(S) /\ Range(s \o t) = Range(s) \union Range(t)
<1>1. /\ s \o t \in Seq(S) /\ Len(s) \in Nat /\ Len(t) \in Nat
      /\ DOMAIN s = 1 .. Len(s) /\ DOMAIN t = 1 .. Len(t)
      /\ DOMAIN (s \o t) = 1 .. Len(s) + Len(t)
      /\ \A i \in 1 .. Len(s) : (s \o t)[i] = s[i]
      /\ \A i \in 1 .. Len(s) + Len(t) : i > Len(s) => (s \o t)[i] = t[i - Len(s)]
  OBVIOUS
<1>2. Range(s \o t) \subseteq Range(s) \union Range(t)
  <2>1. ASSUME NEW i \in 1 .. Len(s) + Len(t)
        PROVE  (s \o t)[i] \in Range(s) \union Range(t)
    <3>1. CASE i <= Len(s)
      BY <1>1, <3>1 DEF Range
    <3>2. CASE i > Len(s)
      <4>1. i - Len(s) \in 1 .. Len(t) /\ (s \o t)[i] = t[i - Len(s)]
        BY <1>1, <3>2
      <4>2. QED
        BY <1>1, <4>1 DEF Range
    <3>3. QED
      BY <1>1, <3>1, <3>2
  <2>2. QED
    BY <1>1, <2>1 DEF Range
<1>3. Range(s) \subseteq Range(s \o t)
  BY <1>1 DEF Range
<1>4. Range(t) \subseteq Range(s \o t)
  <2>1. ASSUME NEW j \in 1 .. Len(t)
        PROVE  t[j] \in Range(s \o t)
    <3>1. /\ j + Len(s) \in 1 .. Len(s) + Len(t) /\ j + Len(s) > Len(s)
          /\ (j + Len(s)) - Len(s) = j
      BY <1>1
    <3>2. (s \o t)[j + Len(s)] = t[j]
      BY <1>1, <3>1
    <3>3. QED
      BY <1>1, <3>1, <3>2 DEF Range
  <2>2. QED
    BY <1>1, <2>1 DEF Range
<1>5. QED
  BY <1>1, <1>2, <1>3, <1>4

LEMMA LengthsOfCut ==
    ASSUME NEW n \in Nat, NEW l \in Nat, n <= l
    PROVE  /\ (IF 1 <= n THEN n - 1 + 1 ELSE 0) = n
           /\ (IF n + 1 <= l THEN l - (n + 1) + 1 ELSE 0) = l - n
  OBVIOUS

\* A sequence that is cut in two keeps its elements between the two.
LEMMA RangeOfCut ==
    ASSUME NEW S, NEW s \in Seq(S), NEW n \in Nat, n <= Len(s)
    PROVE  /\ SubSeq(s, n + 1, Len(s)) \in Seq(S)
           /\ Range(s) = Range(SubSeq(s, 1, n)) \union Range(SubSeq(s, n + 1, Len(s)))
           /\ Len(SubSeq(s, 1, n)) = n
<1> DEFINE a == SubSeq(s, 1, n)  b == SubSeq(s, n + 1, Len(s))
<1>0. Len(s) \in Nat /\ DOMAIN s = 1 .. Len(s) /\ \A i \in 1 .. Len(s) : s[i] \in S
  OBVIOUS
<1>1. /\ Len(s) \in Nat /\ DOMAIN s = 1 .. Len(s)
      /\ a \in Seq(S) /\ b \in Seq(S) /\ Len(a) = n /\ Len(b) = Len(s) - n
  <2>1. /\ a \in Seq(S) /\ Len(a) = IF 1 <= n THEN n - 1 + 1 ELSE 0
    BY <1>0, SubSeqProperties
  <2>2. /\ b \in Seq(S) /\ Len(b) = IF n + 1 <= Len(s) THEN Len(s) - (n + 1) + 1 ELSE 0
    BY <1>0, SubSeqProperties
  <2>3. Len(s) \in Nat
    BY <1>0
  <2>4. QED
    BY <1>0, <2>1, <2>2, <2>3, LengthsOfCut
<1>2. /\ DOMAIN a = 1 .. n /\ \A i \in 1 .. n : a[i] = s[i]
      /\ DOMAIN b = 1 .. Len(s) - n /\ \A i \in 1 .. Len(s) - n : b[i] = s[n + i]
  <2>1. DOMAIN a = 1 .. n /\ DOMAIN b = 1 .. Len(s) - n
    <3> HIDE DEF a, b
    <3>1. DOMAIN a = 1 .. Len(a) /\ DOMAIN b = 1 .. Len(b)
      BY <1>1
    <3>2. QED
      BY <1>1, <3>1
  <2>2. \A i \in 1 .. n - 1 + 1 : a[i] = s[1 + i - 1]
    BY <1>0, SubSeqProperties
  <2>3. \A i \in 1 .. Len(s) - (n + 1) + 1 : b[i] = s[(n + 1) + i - 1]
    BY <1>0, SubSeqProperties
  <2>4. ASSUME NEW i \in 1 .. n
        PROVE  a[i] = s[i]
    <3>1. i \in 1 .. n - 1 + 1 /\ 1 + i - 1 = i
      OBVIOUS
    <3>2. QED
      BY <2>2, <3>1
  <2>5. ASSUME NEW i \in 1 .. Len(s) - n
        PROVE  b[i] = s[n + i]
    <3>1. i \in 1 .. Len(s) - (n + 1) + 1 /\ (n + 1) + i - 1 = n + i
      BY <1>0
    <3>2. QED
      BY <2>3, <3>1
  <2>6. QED
    BY <2>1, <2>4, <2>5
<1> HIDE DEF a, b
<1>3. ASSUME NEW i \in 1 .. Len(s)
      PROVE  s[i] \in Range(a) \union Range(b)
  <2>1. CASE i <= n
    <3>1. i \in 1 .. n
      BY <1>1, <2>1
    <3>2. QED
      BY <1>2, <3>1 DEF Range
  <2>2. CASE i > n
    <3>1. i - n \in 1 .. Len(s) - n /\ n + (i - n) = i
      BY <1>1, <2>2
    <3>2. b[i - n] = s[i]
      BY <1>2, <3>1
    <3>3. QED
      BY <1>2, <3>1, <3>2 DEF Range
  <2>3. QED
    BY <1>1, <2>1, <2>2
<1>4. Range(a) \subseteq Range(s)
  BY <1>1, <1>2 DEF Range
<1>5. Range(b) \subseteq Range(s)
  <2>1. \A i \in 1 .. Len(s) - n : n + i \in 1 .. Len(s)
    BY <1>1
  <2>2. \A i \in 1 .. Len(s) - n : b[i] \in Range(s)
    BY <1>1, <1>2, <2>1 DEF Range
  <2>3. QED
    BY <1>2, <2>2 DEF Range
<1>6. Range(s) = Range(a) \union Range(b)
  BY <1>1, <1>3, <1>4, <1>5 DEF Range
<1>7. QED
  BY <1>1, <1>6 DEF a, b

----------------------------------------------------------------------------
LEMMA CarriedFacts ==
    /\ Range(pending) \subseteq Carried
    /\ \A g \in Goroutines : Range(flights[g]) \subseteq Carried
  BY DEF Carried

\* Nothing is lost if what was carried is written or carried on.
LEMMA KeptOn ==
    ASSUME Kept, Carried \subseteq bronze' \union Carried', bronze \subseteq bronze',
           UNCHANGED <<committed, position>>
    PROVE  Kept'
  BY DEF Kept

LEMMA KeptUnchanged ==
    ASSUME IInv, UNCHANGED writer
    PROVE  IInv'
<1> USE DEF writer
<1>1. Numbers'
  BY DEF IInv, Numbers
<1>2. EmptyHands'
  BY DEF IInv, EmptyHands
<1>3. Kept'
  BY DEF IInv, Kept, Carried
<1>4. QED
  BY <1>1, <1>2, <1>3 DEF IInv

LEMMA FetchKeeps ==
    ASSUME IInv, Fetch
    PROVE  IInv'
<1>1. /\ UNCHANGED <<position, committed, pending, flights, bronze>>
      /\ batch' = position /\ flights["consumer"] = <<>>
  BY DEF Fetch
<1>2. Numbers'
  BY <1>1 DEF IInv, Numbers
<1>3. EmptyHands'
  BY <1>1 DEF EmptyHands
<1>4. Kept'
  BY <1>1 DEF IInv, Kept, Carried
<1>5. QED
  BY <1>2, <1>3, <1>4 DEF IInv

LEMMA IngestKeeps ==
    ASSUME IInv, Ingest
    PROVE  IInv'
<1>1. /\ UNCHANGED <<polled, batch, unchecked, committed, flights, bronze>>
      /\ pending' = Append(pending, position + 1) /\ position' = position + 1
  BY DEF Ingest
<1>2. position + 1 \in Nat /\ pending \in Seq(Nat)
  BY DEF IInv, Numbers
<1>3. pending' \in Seq(Nat) /\ Range(pending') = Range(pending) \union {position + 1}
  BY <1>1, <1>2, RangeOfAppend
<1>4. Numbers'
  BY <1>1, <1>3 DEF IInv, Numbers
<1>5. EmptyHands'
  BY <1>1 DEF IInv, EmptyHands
<1>6. Carried \union {position + 1} \subseteq Carried'
  BY <1>1, <1>3 DEF Carried
<1>7. ASSUME NEW r \in committed' + 1 .. position'
      PROVE  r \in bronze' \union Carried'
  <2>1. r = position + 1 \/ r \in committed + 1 .. position
    BY <1>1 DEF IInv, Numbers
  <2>2. QED
    BY <1>1, <1>6, <2>1 DEF IInv, Kept
<1>8. QED
  BY <1>4, <1>5, <1>7 DEF IInv, Kept

LEMMA TakeOffKeeps ==
    ASSUME IInv, NEW g \in Goroutines, TakeOff(g), flights[g] = <<>>,
           UNCHANGED <<polled, position, batch, committed, bronze>>
    PROVE  Numbers' /\ Kept' /\ (g # "consumer" => flights'["consumer"] = flights["consumer"])
<1>1. pending' = <<>> /\ flights' = [flights EXCEPT ![g] = pending]
  BY DEF TakeOff
<1>2. pending \in Seq(Nat) /\ flights \in [Goroutines -> Seq(Nat)]
  BY DEF IInv, Numbers
<1>3. /\ pending' \in Seq(Nat) /\ flights' \in [Goroutines -> Seq(Nat)]
      /\ flights'[g] = pending /\ \A h \in Goroutines \ {g} : flights'[h] = flights[h]
  BY <1>1, <1>2
<1>4. Numbers'
  BY <1>3 DEF IInv, Numbers
<1>5. Range(flights[g]) = {}
  BY DEF Range
<1>6. Carried \subseteq Carried'
  BY <1>3, <1>5 DEF Carried
<1>7. Kept'
  BY <1>6, KeptOn DEF IInv
<1>8. QED
  BY <1>3, <1>4, <1>7 DEF Goroutines

LEMMA TickerFlushKeeps ==
    ASSUME IInv, TickerFlush
    PROVE  IInv'
<1>1. "ticker" \in Goroutines /\ "ticker" # "consumer"
  BY DEF Goroutines
<1>2. /\ TakeOff("ticker") /\ flights["ticker"] = <<>>
      /\ UNCHANGED <<polled, position, batch, committed, bronze, unchecked>>
  BY DEF TickerFlush
<1>3. Numbers' /\ Kept' /\ flights'["consumer"] = flights["consumer"]
  BY <1>1, <1>2, TakeOffKeeps
<1>4. QED
  BY <1>2, <1>3 DEF IInv, EmptyHands

LEMMA ConsumerFlushKeeps ==
    ASSUME IInv, ConsumerFlush
    PROVE  IInv'
<1>1. /\ unchecked /\ unchecked' = FALSE
      /\ UNCHANGED <<polled, position, batch, committed, bronze>>
      /\ TakeOff("consumer") \/ UNCHANGED <<pending, flights>>
  BY DEF ConsumerFlush
<1>2. EmptyHands'
  BY <1>1 DEF EmptyHands
<1>3. CASE TakeOff("consumer")
  <2>1. flights["consumer"] = <<>> /\ "consumer" \in Goroutines
    BY <1>1 DEF IInv, EmptyHands, Goroutines
  <2>2. Numbers' /\ Kept'
    BY <1>1, <1>3, <2>1, TakeOffKeeps
  <2>3. QED
    BY <1>2, <2>2 DEF IInv
<1>4. CASE UNCHANGED <<pending, flights>>
  BY <1>1, <1>2, <1>4 DEF IInv, Numbers, Kept, Carried
<1>5. QED
  BY <1>1, <1>3, <1>4

\* A statement takes a first part of the goroutine's rows.
LEMMA StatementFacts ==
    ASSUME Numbers, NEW g \in Goroutines
    PROVE  LET rest == SubSeq(flights[g], Len(Statement(g)) + 1, Len(flights[g])) IN
           /\ rest \in Seq(Nat)
           /\ Range(flights[g]) = Range(Statement(g)) \union Range(rest)
<1> DEFINE n == AtMost(Chunk, Len(flights[g]))
<1>1. flights[g] \in Seq(Nat) /\ Len(flights[g]) \in Nat
  BY DEF Numbers
<1>2. n \in Nat /\ n <= Len(flights[g])
  BY <1>1, LandingAssumption DEF AtMost
<1>3. Len(Statement(g)) = n
  BY <1>1, <1>2, RangeOfCut DEF Statement
<1>4. QED
  BY <1>1, <1>2, <1>3, RangeOfCut DEF Statement

LEMMA InsertRowsKeeps ==
    ASSUME IInv, NEW g \in Goroutines, InsertRows(g)
    PROVE  IInv'
<1> DEFINE rest == SubSeq(flights[g], Len(Statement(g)) + 1, Len(flights[g]))
<1>1. /\ flights[g] # <<>> /\ bronze' = bronze \union Range(Statement(g))
      /\ flights' = [flights EXCEPT ![g] = rest]
      /\ UNCHANGED <<polled, position, batch, unchecked, committed, pending>>
  BY DEF InsertRows
<1>2. rest \in Seq(Nat) /\ Range(flights[g]) = Range(Statement(g)) \union Range(rest)
  BY StatementFacts DEF IInv
<1>3. flights \in [Goroutines -> Seq(Nat)]
  BY DEF IInv, Numbers
<1> HIDE DEF rest
<1>4. /\ flights' \in [Goroutines -> Seq(Nat)] /\ flights'[g] = rest
      /\ \A h \in Goroutines \ {g} : flights'[h] = flights[h]
  BY <1>1, <1>2, <1>3
<1>5. Numbers'
  BY <1>1, <1>4 DEF IInv, Numbers
<1>6. EmptyHands'
  <2>1. unchecked => g # "consumer"
    BY <1>1 DEF IInv, EmptyHands
  <2>2. QED
    BY <1>1, <1>4, <2>1 DEF IInv, EmptyHands, Goroutines
<1>7. Carried \subseteq bronze' \union Carried'
  BY <1>1, <1>2, <1>4 DEF Carried
<1>8. Kept'
  BY <1>1, <1>7, KeptOn DEF IInv
<1>9. QED
  BY <1>5, <1>6, <1>8 DEF IInv

LEMMA InsertErrorKeeps ==
    ASSUME IInv, NEW g \in Goroutines, InsertError(g)
    PROVE  IInv'
<1>1. /\ bronze \subseteq bronze' /\ pending' = flights[g] \o pending
      /\ flights' = [flights EXCEPT ![g] = <<>>]
      /\ UNCHANGED <<polled, position, batch, unchecked, committed>>
  BY DEF InsertError, Requeue
<1>2. /\ pending \in Seq(Nat) /\ flights \in [Goroutines -> Seq(Nat)] /\ flights[g] \in Seq(Nat)
  BY DEF IInv, Numbers
<1>3. pending' \in Seq(Nat) /\ Range(pending') = Range(flights[g]) \union Range(pending)
  BY <1>1, <1>2, RangeOfConcat
<1>4. /\ flights' \in [Goroutines -> Seq(Nat)] /\ flights'[g] = <<>>
      /\ \A h \in Goroutines \ {g} : flights'[h] = flights[h]
  <2>1. <<>> \in Seq(Nat)
    OBVIOUS
  <2>2. QED
    BY <1>1, <1>2, <2>1, Zenon
<1>5. Numbers'
  BY <1>1, <1>3, <1>4 DEF IInv, Numbers
<1>6. EmptyHands'
  BY <1>1, <1>4 DEF IInv, EmptyHands, Goroutines
<1>7. Carried \subseteq Carried'
  BY <1>3, <1>4 DEF Carried
<1>8. Kept'
  BY <1>1, <1>7, KeptOn DEF IInv
<1>9. QED
  BY <1>5, <1>6, <1>8 DEF IInv

LEMMA LostKeeps ==
    ASSUME IInv, LandingLost
    PROVE  IInv'
<1>1. /\ committed' \in committed .. batch
      /\ polled' = committed' /\ position' = committed' /\ batch' = committed' /\ unchecked' = FALSE
      /\ pending' = <<>> /\ flights' = [g \in Goroutines |-> <<>>]
  BY DEF LandingLost
<1>2. committed' \in Nat
  BY <1>1 DEF IInv, Numbers
<1>3. Numbers'
  BY <1>1, <1>2 DEF Numbers
<1>4. committed' + 1 .. position' = {}
  <2>1. \A n \in Nat : n + 1 .. n = {}
    OBVIOUS
  <2>2. QED
    BY <1>1, <1>2, <2>1
<1>5. QED
  BY <1>1, <1>3, <1>4 DEF IInv, EmptyHands, Kept

----------------------------------------------------------------------------
LEMMA InitKeeps == Init => IInv
<1> SUFFICES ASSUME Init PROVE IInv
  OBVIOUS
<1>1. /\ position = 0 /\ batch = 0 /\ committed = 0 /\ unchecked = FALSE
      /\ pending = <<>> /\ flights = [g \in Goroutines |-> <<>>]
  BY DEF Init, LandingInit
<1>2. Numbers
  BY <1>1 DEF Numbers
<1>3. committed + 1 .. position = {}
  BY <1>1
<1>4. QED
  BY <1>1, <1>2, <1>3 DEF IInv, EmptyHands, Kept

LEMMA NextKeeps ==
    ASSUME IInv, [Next]_vars
    PROVE  IInv'
<1>1. CASE BronzeStep
  BY <1>1, FetchKeeps, IngestKeeps, TickerFlushKeeps, ConsumerFlushKeeps, InsertRowsKeeps,
     InsertErrorKeeps DEF BronzeStep
<1>2. CASE WindDown
  <2>1. "ticker" \in Goroutines
    BY DEF Goroutines
  <2>2. QED
    BY <1>2, <2>1, IngestKeeps, TickerFlushKeeps, ConsumerFlushKeeps, InsertRowsKeeps,
       InsertErrorKeeps DEF WindDown
<1>3. CASE Exit \/ Crash
  BY <1>3, LostKeeps DEF Exit, Crash, Gone
<1>4. CASE Boot \/ Signal \/ HttpShutdown
  <2>1. UNCHANGED writer
    BY <1>4 DEF Boot, Signal, HttpShutdown, landing
  <2>2. QED
    BY <2>1, KeptUnchanged
<1>5. CASE ReconcileStep \/ FoldStep
  <2>1. UNCHANGED writer
    BY <1>5 DEF ReconcileStep, FoldStep, ReconcileRead, ReconcileWrite, Fold
  <2>2. QED
    BY <2>1, KeptUnchanged
<1>6. CASE FlushBegin \/ FlushWrite \/ FlushError
  <2>1. UNCHANGED writer
    BY <1>6 DEF FlushBegin, FlushWrite, FlushError, Persist, landing
  <2>2. QED
    BY <2>1, KeptUnchanged
<1>7. CASE SurfaceStep \/ \E c \in Clients : ConnectStep(c) \/ ServeStep(c) \/ LeaveStep(c)
  <2>1. UNCHANGED writer
    BY <1>7 DEF SurfaceStep, ConnectStep, ServeStep, LeaveStep, landing
  <2>2. QED
    BY <2>1, KeptUnchanged
<1>8. CASE UNCHANGED vars
  <2>1. UNCHANGED writer
    BY <1>8 DEF vars, landing
  <2>2. QED
    BY <2>1, KeptUnchanged
<1>9. QED
  BY <1>1, <1>2, <1>3, <1>4, <1>5, <1>6, <1>7, <1>8 DEF Next

\* bronze_writer.go: whatever the two flushing goroutines, the database and the
\* shutdown do, a record that the process has ingested is written, queued or on
\* its way. The argument needs that the consuming goroutine has nothing in its
\* hands when it looks at the queue (EmptyHands).
THEOREM IngestedIsKept == Spec => []NoneIngestedLost
<1>1. IInv => NoneIngestedLost
  BY DEF IInv, Kept, Carried, NoneIngestedLost
<1>2. QED
  BY InitKeeps, NextKeeps, <1>1, PTL DEF Spec

----------------------------------------------------------------------------
(* Types.  Everything that a record can be in is a set of positions of the  *)
(* topic, and everything by minute is about minutes of the topic.           *)

Positions ==
    /\ polled \in Nat /\ position <= polled /\ polled <= Len(topic)
    /\ folded \in Nat /\ resumed \in Nat /\ resumed <= folded /\ folded <= Len(topic)

Landed == bronze \union Carried \subseteq DOMAIN topic

\* A table by minute holds records of the minute that it names.
ByMinute(table) ==
    /\ DOMAIN table \subseteq Range(topic)
    /\ \A m \in DOMAIN table : \A r \in table[m] : topic[r] = m

Counted ==
    /\ ByMinute(hot) /\ ByMinute(rows)
    /\ recompute = NoPass \/ recompute \subseteq DOMAIN topic

\* What is published fits: the channel is not full, or the update is missed.
Channels ==
    /\ stage \in [Clients -> {"away", "joining", "on"}]
    /\ channel = [c \in Clients |-> channel[c]]
    /\ \A c \in Clients : \E S : channel[c] \in Seq(S)
    /\ \A c \in Clients : Len(channel[c]) <= SubBuffer
    /\ \A c \in Clients \ Subscribers : channel[c] = <<>>

\* A copied bucket is one of the anomalies still to be counted.
Copies ==
    /\ Len(copied) <= 1 /\ surfaced \in 0 .. MaxSurfaced
    /\ copied # <<>> => surfaced < MaxSurfaced

Life ==
    /\ load \in Loads /\ topic = load.topic
    /\ phase \in {"down", "up", "http", "grpc"}
    /\ phase = "down" => hot = <<>> /\ pending = <<>> /\ Subscribers = {} /\ flushed = {}
    /\ final \subseteq {"ticker", "aggregator"}
    /\ ends \in 0 .. load.ends /\ (Stopping => ends > 0)
    /\ faults \in Nat

TypeInv == Positions /\ Landed /\ Counted /\ Channels /\ Copies /\ Life

LEMMA TopicFacts ==
    ASSUME Life
    PROVE  /\ topic \in Seq(Nat) /\ Len(topic) \in Nat /\ DOMAIN topic = 1 .. Len(topic)
           /\ \A r \in DOMAIN topic : topic[r] \in Range(topic) /\ topic[r] \in Nat
<1>1. topic \in Seq(Nat \ {0})
  BY ServerAssumption DEF Life
<1>2. /\ topic \in Seq(Nat) /\ Len(topic) \in Nat /\ DOMAIN topic = 1 .. Len(topic)
      /\ \A r \in DOMAIN topic : topic[r] \in Nat
  BY <1>1
<1>3. QED
  BY <1>2 DEF Range

\* Of Landed and Counted, what a step needs that leaves the rest alone.
LEMMA LandedOn ==
    ASSUME Landed, Carried' \subseteq Carried \union bronze, bronze' \subseteq bronze \union Carried,
           UNCHANGED topic
    PROVE  Landed'
  BY DEF Landed

LEMMA LandedUnchanged ==
    ASSUME Landed, UNCHANGED <<topic, pending, flights, bronze>>
    PROVE  Landed'
  BY DEF Landed, Carried

LEMMA CountedUnchanged ==
    ASSUME Counted, UNCHANGED <<topic, hot, rows>>, recompute' \in {recompute, NoPass}
    PROVE  Counted'
  BY DEF Counted, ByMinute

LEMMA PositionsUnchanged ==
    ASSUME Positions, UNCHANGED <<topic, polled, position, folded, resumed>>
    PROVE  Positions'
  BY DEF Positions

----------------------------------------------------------------------------
(* The writer's steps *)

LEMMA FetchTypes ==
    ASSUME IInv, TypeInv, Fetch
    PROVE  Positions' /\ Landed' /\ Counted'
<1>1. /\ polled' = AtMost(polled + FetchSize, Len(topic))
      /\ UNCHANGED <<topic, position, pending, flights, bronze, hot, folded, resumed, rows, recompute>>
  BY DEF Fetch, aggregator
<1>2. Len(topic) \in Nat /\ FetchSize \in Nat
  BY TopicFacts, LandingAssumption DEF TypeInv
<1>3. polled' \in Nat /\ polled <= polled' /\ polled' <= Len(topic)
  BY <1>1, <1>2 DEF TypeInv, Positions, AtMost
<1>4. position \in Nat
  BY DEF IInv, Numbers
<1>5. Positions'
  BY <1>1, <1>2, <1>3, <1>4 DEF TypeInv, Positions
<1>6. QED
  BY <1>1, <1>5, LandedUnchanged, CountedUnchanged DEF TypeInv

LEMMA IngestTypes ==
    ASSUME IInv, TypeInv, Ingest
    PROVE  Positions' /\ Landed' /\ Counted'
<1>1. /\ position < polled /\ pending' = Append(pending, position + 1) /\ position' = position + 1
      /\ UNCHANGED <<topic, polled, flights, bronze, hot, folded, resumed, rows, recompute>>
  BY DEF Ingest, aggregator
<1>2. position \in Nat /\ position + 1 \in Nat /\ pending \in Seq(Nat)
  BY DEF IInv, Numbers
<1>3. Range(pending') = Range(pending) \union {position + 1}
  BY <1>1, <1>2, RangeOfAppend
<1>4. Positions'
  BY <1>1, <1>2 DEF TypeInv, Positions
<1>5. position + 1 \in DOMAIN topic
  BY <1>1, <1>2, TopicFacts DEF TypeInv, Positions
<1>6. Carried' = Carried \union {position + 1}
  BY <1>1, <1>3 DEF Carried
<1>7. Landed'
  BY <1>1, <1>5, <1>6 DEF TypeInv, Landed
<1>8. QED
  BY <1>1, <1>4, <1>7, CountedUnchanged DEF TypeInv

LEMMA TakeOffCarries ==
    ASSUME Numbers, NEW g \in Goroutines, TakeOff(g)
    PROVE  Carried' \subseteq Carried
<1>1. pending' = <<>> /\ flights' = [flights EXCEPT ![g] = pending]
  BY DEF TakeOff
<1>2. flights'[g] = pending /\ \A h \in Goroutines \ {g} : flights'[h] = flights[h]
  BY <1>1 DEF Numbers
<1>3. Range(pending') = {}
  BY <1>1 DEF Range
<1>4. QED
  BY <1>2, <1>3 DEF Carried

LEMMA FlushTypes ==
    ASSUME IInv, TypeInv, TickerFlush \/ ConsumerFlush
    PROVE  Positions' /\ Landed' /\ Counted'
<1>1. /\ UNCHANGED <<topic, polled, position, bronze, hot, folded, resumed, rows, recompute>>
      /\ (\E g \in Goroutines : TakeOff(g)) \/ UNCHANGED <<pending, flights>>
  BY DEF TickerFlush, ConsumerFlush, aggregator, Goroutines
<1>2. CASE \E g \in Goroutines : TakeOff(g)
  <2>1. Carried' \subseteq Carried
    BY <1>2, TakeOffCarries DEF IInv
  <2>2. QED
    BY <1>1, <2>1, PositionsUnchanged, LandedOn, CountedUnchanged DEF TypeInv
<1>3. CASE UNCHANGED <<pending, flights>>
  BY <1>1, <1>3, PositionsUnchanged, LandedUnchanged, CountedUnchanged DEF TypeInv
<1>4. QED
  BY <1>1, <1>2, <1>3

LEMMA InsertRowsTypes ==
    ASSUME IInv, TypeInv, NEW g \in Goroutines, InsertRows(g)
    PROVE  Positions' /\ Landed' /\ Counted'
<1> DEFINE rest == SubSeq(flights[g], Len(Statement(g)) + 1, Len(flights[g]))
<1>1. /\ bronze' = bronze \union Range(Statement(g)) /\ flights' = [flights EXCEPT ![g] = rest]
      /\ UNCHANGED <<topic, polled, position, pending, hot, folded, resumed, rows, recompute>>
  BY DEF InsertRows, aggregator
<1>2. Range(flights[g]) = Range(Statement(g)) \union Range(rest)
  BY StatementFacts DEF IInv
<1> HIDE DEF rest
<1>3. flights'[g] = rest /\ \A h \in Goroutines \ {g} : flights'[h] = flights[h]
  BY <1>1 DEF IInv, Numbers
<1>4. Carried' \subseteq Carried /\ bronze' \subseteq bronze \union Carried
  BY <1>1, <1>2, <1>3 DEF Carried
<1>5. QED
  BY <1>1, <1>4, PositionsUnchanged, LandedOn, CountedUnchanged DEF TypeInv

LEMMA InsertErrorTypes ==
    ASSUME IInv, TypeInv, NEW g \in Goroutines, InsertError(g)
    PROVE  Positions' /\ Landed' /\ Counted'
<1>1. /\ bronze' \subseteq bronze \union Range(Statement(g)) /\ pending' = flights[g] \o pending
      /\ flights' = [flights EXCEPT ![g] = <<>>]
      /\ UNCHANGED <<topic, polled, position, hot, folded, resumed, rows, recompute>>
  BY DEF InsertError, Requeue, aggregator
<1>2. /\ pending \in Seq(Nat) /\ flights \in [Goroutines -> Seq(Nat)] /\ flights[g] \in Seq(Nat)
  BY DEF IInv, Numbers
<1>3. Range(pending') = Range(flights[g]) \union Range(pending)
  BY <1>1, <1>2, RangeOfConcat
<1>4. flights'[g] = <<>> /\ \A h \in Goroutines \ {g} : flights'[h] = flights[h]
  BY <1>1, <1>2
<1>5. Range(flights'[g]) = {}
  BY <1>4 DEF Range
<1>6. Range(Statement(g)) \subseteq Range(flights[g])
  BY StatementFacts DEF IInv
<1>7. Carried' \subseteq Carried /\ bronze' \subseteq bronze \union Carried
  BY <1>1, <1>3, <1>4, <1>5, <1>6 DEF Carried
<1>8. QED
  BY <1>1, <1>7, PositionsUnchanged, LandedOn, CountedUnchanged DEF TypeInv

----------------------------------------------------------------------------
(* The tables by minute *)

LEMMA FoldTypes ==
    ASSUME TypeInv, Fold
    PROVE  Positions' /\ Landed' /\ Counted'
<1> DEFINE r == folded + 1
           m == topic[r]
<1>1. /\ folded < Len(topic) /\ folded' = r
      /\ hot' = [k \in DOMAIN hot \union {m} |->
                    (IF k \in DOMAIN hot THEN hot[k] ELSE {}) \union (IF k = m THEN {r} ELSE {})]
      /\ UNCHANGED <<topic, writer, resumed, rows, recompute>>
  BY DEF Fold
<1>2. UNCHANGED <<polled, position, pending, flights, bronze>>
  BY <1>1 DEF writer
<1>3. Positions'
  BY <1>1, <1>2, TopicFacts DEF TypeInv, Positions
<1>4. r \in DOMAIN topic /\ m \in Range(topic)
  BY <1>1, TopicFacts DEF TypeInv, Positions
<1>5. DOMAIN hot' = DOMAIN hot \union {m}
  BY <1>1
<1>6. ASSUME NEW k \in DOMAIN hot', NEW n \in hot'[k]
      PROVE  topic[n] = k
  <2>1. (k \in DOMAIN hot /\ n \in hot[k]) \/ (k = m /\ n = r)
    BY <1>1, <1>5, <1>6
  <2>2. QED
    BY <2>1 DEF TypeInv, Counted, ByMinute
<1>7. ByMinute(hot)'
  BY <1>1, <1>4, <1>5, <1>6 DEF TypeInv, Counted, ByMinute
<1>8. Counted'
  BY <1>1, <1>7 DEF TypeInv, Counted, ByMinute
<1>9. QED
  BY <1>1, <1>2, <1>3, <1>8, LandedUnchanged DEF TypeInv

LEMMA PersistTypes ==
    ASSUME TypeInv, NEW starts, Persist(starts)
    PROVE  Positions' /\ Landed' /\ Counted'
<1>1. PICK keep, left :
          /\ keep \subseteq DOMAIN hot /\ left \subseteq DOMAIN hot
          /\ rows' = [m \in DOMAIN rows \union keep |-> IF m \in keep THEN hot[m] ELSE rows[m]]
          /\ hot' = Restrict(hot, left)
  BY DEF Persist
<1>2. UNCHANGED <<topic, polled, position, pending, flights, bronze, folded, resumed, recompute>>
  BY DEF Persist, writer
<1>3. ByMinute(hot)'
  <2>1. /\ DOMAIN hot' \subseteq DOMAIN hot
        /\ \A m \in DOMAIN hot' : hot'[m] = hot[m]
    BY <1>1 DEF Restrict
  <2>2. QED
    BY <1>2, <2>1 DEF TypeInv, Counted, ByMinute
<1>4. ByMinute(rows)'
  <2>1. DOMAIN rows' = DOMAIN rows \union keep
    BY <1>1
  <2>2. \A m \in DOMAIN rows' : (m \in DOMAIN hot /\ rows'[m] = hot[m])
                                \/ (m \in DOMAIN rows /\ rows'[m] = rows[m])
    BY <1>1, <2>1
  <2>3. QED
    BY <1>1, <1>2, <2>1, <2>2 DEF TypeInv, Counted, ByMinute
<1>5. QED
  BY <1>2, <1>3, <1>4, PositionsUnchanged, LandedUnchanged DEF TypeInv, Counted

LEMMA ReconcileTypes ==
    ASSUME TypeInv, ReconcileRead \/ ReconcileWrite
    PROVE  Positions' /\ Landed' /\ Counted'
<1>1. UNCHANGED <<topic, polled, position, pending, flights, bronze, hot, folded, resumed>>
  BY DEF ReconcileRead, ReconcileWrite, writer, aggregator
<1>2. CASE ReconcileRead
  <2>1. recompute' \subseteq DOMAIN topic /\ rows' = rows
    BY <1>2 DEF ReconcileRead, TypeInv, Landed
  <2>2. Counted'
    BY <1>1, <2>1 DEF TypeInv, Counted, ByMinute
  <2>3. QED
    BY <1>1, <2>2, PositionsUnchanged, LandedUnchanged DEF TypeInv
<1>3. CASE ReconcileWrite
  <2>1. recompute \subseteq DOMAIN topic /\ recompute' = NoPass
    BY <1>3 DEF ReconcileWrite, TypeInv, Counted
  <2>2. ByMinute(rows)'
    <3>1. CASE UNCHANGED rows
      BY <1>1, <3>1 DEF TypeInv, Counted, ByMinute
    <3>2. CASE ~UNCHANGED rows
      <4>1. PICK touched : touched = {topic[r] : r \in recompute}
        OBVIOUS
      <4>2. touched \subseteq Range(topic)
        BY <2>1, <4>1, TopicFacts DEF TypeInv
      <4>3. rows' = [m \in DOMAIN rows \union touched |->
                IF m \in touched THEN {r \in recompute : topic[r] = m} ELSE rows[m]]
        BY <1>3, <3>2, <4>1 DEF ReconcileWrite
      <4>4. DOMAIN rows' = DOMAIN rows \union touched
        BY <4>3
      <4>5. ASSUME NEW m \in DOMAIN rows', NEW r \in rows'[m]
            PROVE  topic[r] = m
        BY <4>3, <4>4, <4>5 DEF TypeInv, Counted, ByMinute
      <4>6. QED
        BY <1>1, <4>2, <4>4, <4>5 DEF TypeInv, Counted, ByMinute
    <3>3. QED
      BY <3>1, <3>2
  <2>3. ByMinute(hot)'
    BY <1>1 DEF TypeInv, Counted, ByMinute
  <2>4. QED
    BY <1>1, <2>1, <2>2, <2>3, PositionsUnchanged, LandedUnchanged DEF TypeInv, Counted
<1>4. QED
  BY <1>2, <1>3

LEMMA LostTypes ==
    ASSUME IInv, TypeInv, LandingLost
    PROVE  Positions' /\ Landed' /\ Counted'
<1>1. /\ committed' \in committed .. batch /\ polled' = committed' /\ position' = committed'
      /\ pending' = <<>> /\ flights' = [g \in Goroutines |-> <<>>]
      /\ resumed' \in resumed .. folded /\ folded' = resumed'
      /\ hot' = <<>> /\ recompute' = NoPass
      /\ UNCHANGED <<topic, bronze, rows>>
  BY DEF LandingLost
<1>2. Positions'
  BY <1>1, TopicFacts DEF IInv, Numbers, TypeInv, Positions
<1>3. Carried' = {}
  BY <1>1 DEF Carried, Range
<1>4. ByMinute(hot)'
  BY <1>1 DEF ByMinute
<1>5. ByMinute(rows)'
  BY <1>1 DEF TypeInv, Counted, ByMinute
<1>6. QED
  BY <1>1, <1>2, <1>3, <1>4, <1>5, LandedOn DEF TypeInv, Counted

----------------------------------------------------------------------------
(* The feed *)

LEMMA Elements ==
    ASSUME NEW S, NEW s \in Seq(S), NEW x
    PROVE  /\ s \in Seq(S \union {x}) /\ Len(s) \in Nat
           /\ Append(s, x) \in Seq(S \union {x}) /\ Len(Append(s, x)) = Len(s) + 1
<1>1. /\ Len(s) \in Nat /\ DOMAIN s = 1 .. Len(s) /\ \A i \in 1 .. Len(s) : s[i] \in S
      /\ s = [i \in 1 .. Len(s) |-> s[i]]
  OBVIOUS
<1>2. s \in Seq(S \union {x})
  BY <1>1
<1>3. QED
  BY <1>1, <1>2

LEMMA PublishTypes ==
    ASSUME Channels, NEW bucket, Publish(bucket), UNCHANGED stage
    PROVE  Channels'
<1>1. channel' = [c \in Clients |->
          IF c \in Subscribers /\ Len(channel[c]) < SubBuffer
          THEN Append(channel[c], bucket) ELSE channel[c]]
  BY DEF Publish
<1>2. Subscribers' = Subscribers
  BY DEF Subscribers
<1>3. ASSUME NEW c \in Clients
      PROVE  (\E S : channel'[c] \in Seq(S)) /\ Len(channel'[c]) <= SubBuffer
  <2>1. PICK S : channel[c] \in Seq(S)
    BY DEF Channels
  <2>2. /\ Len(channel[c]) \in Nat /\ Len(channel[c]) <= SubBuffer
        /\ Append(channel[c], bucket) \in Seq(S \union {bucket})
        /\ Len(Append(channel[c], bucket)) = Len(channel[c]) + 1
    BY <2>1, Elements DEF Channels
  <2>3. SubBuffer \in Nat
    BY FeedAssumption
  <2>4. CASE c \in Subscribers /\ Len(channel[c]) < SubBuffer
    <3>1. channel'[c] = Append(channel[c], bucket)
      BY <1>1, <2>4
    <3>2. QED
      BY <2>2, <2>3, <2>4, <3>1
  <2>5. CASE ~(c \in Subscribers /\ Len(channel[c]) < SubBuffer)
    <3>1. channel'[c] = channel[c]
      BY <1>1, <2>5
    <3>2. QED
      BY <2>1, <2>2, <3>1
  <2>6. QED
    BY <2>4, <2>5
<1>4. \A c \in Clients \ Subscribers : channel'[c] = <<>>
  BY <1>1 DEF Channels
<1>5. channel' = [c \in Clients |-> channel'[c]]
  BY <1>1
<1>6. QED
  BY <1>2, <1>3, <1>4, <1>5 DEF Channels

LEMMA ChannelsUnchanged ==
    ASSUME Channels, UNCHANGED <<stage, channel>>
    PROVE  Channels'
  BY DEF Channels, Subscribers

LEMMA JoinTypes ==
    ASSUME Channels, NEW c \in Clients, Connect(c) \/ Join(c)
    PROVE  Channels'
<1>1. PICK s \in {"joining", "on"} : stage' = [stage EXCEPT ![c] = s]
  BY DEF Connect, Join
<1>2. UNCHANGED channel /\ stage[c] # "on" /\ (stage[c] = "joining" => s = "on")
  BY <1>1 DEF Connect, Join, Channels
<1>3. stage' \in [Clients -> {"away", "joining", "on"}]
  BY <1>1 DEF Channels
<1>4. Subscribers \subseteq Subscribers'
  <2>1. stage'[c] = s /\ \A d \in Clients \ {c} : stage'[d] = stage[d]
    BY <1>1 DEF Channels
  <2>2. QED
    BY <1>2, <2>1 DEF Subscribers
<1>5. QED
  BY <1>2, <1>3, <1>4 DEF Channels

LEMMA ReceiveTypes ==
    ASSUME Channels, NEW c \in Clients, Receive(c)
    PROVE  Channels'
<1>1. /\ channel[c] # <<>> /\ channel' = [channel EXCEPT ![c] = Tail(@)] /\ UNCHANGED stage
      /\ stage[c] = "on"
  BY DEF Receive
<1>2. PICK S : channel[c] \in Seq(S)
  BY DEF Channels
<1>3. /\ Tail(channel[c]) \in Seq(S) /\ Len(channel[c]) \in Nat
      /\ Len(Tail(channel[c])) = Len(channel[c]) - 1
  BY <1>1, <1>2
<1>4. SubBuffer \in Nat /\ Len(channel[c]) <= SubBuffer
  BY FeedAssumption DEF Channels
<1>5. channel'[c] = Tail(channel[c]) /\ \A d \in Clients \ {c} : channel'[d] = channel[d]
  BY <1>1 DEF Channels
<1>6. channel' = [d \in Clients |-> channel'[d]]
  BY <1>1 DEF Channels
<1>7. c \in Subscribers' /\ Subscribers' = Subscribers
  BY <1>1 DEF Subscribers
<1>8. \A d \in Clients : \E T : channel'[d] \in Seq(T)
  <2>1. channel'[c] \in Seq(S)
    BY <1>3, <1>5
  <2>2. QED
    BY <1>5, <2>1 DEF Channels
<1>9. \A d \in Clients : Len(channel'[d]) <= SubBuffer
  <2>1. Len(channel'[c]) = Len(channel[c]) - 1
    BY <1>3, <1>5
  <2>2. Len(channel'[c]) <= SubBuffer
    BY <1>3, <1>4, <2>1
  <2>3. \A d \in Clients \ {c} : Len(channel'[d]) <= SubBuffer
    BY <1>5 DEF Channels
  <2>4. QED
    BY <2>2, <2>3
<1>10. QED
  BY <1>1, <1>5, <1>6, <1>7, <1>8, <1>9 DEF Channels

LEMMA LeaveTypes ==
    ASSUME Channels, NEW c \in Clients, Leave(c)
    PROVE  Channels'
<1>1. stage' = [stage EXCEPT ![c] = "away"] /\ channel' = [channel EXCEPT ![c] = <<>>]
  BY DEF Leave
<1>2. /\ channel'[c] = <<>> /\ \A d \in Clients \ {c} : channel'[d] = channel[d] /\ stage'[d] = stage[d]
      /\ channel' = [d \in Clients |-> channel'[d]]
      /\ stage' \in [Clients -> {"away", "joining", "on"}]
  BY <1>1 DEF Channels
<1>3. <<>> \in Seq({}) /\ Len(<<>>) = 0 /\ 0 <= SubBuffer
  BY FeedAssumption
<1>4. Subscribers \ {c} \subseteq Subscribers'
  BY <1>2 DEF Subscribers
<1>5. \A d \in Clients : \E T : channel'[d] \in Seq(T)
  BY <1>2, <1>3 DEF Channels
<1>6. \A d \in Clients : Len(channel'[d]) <= SubBuffer
  BY <1>2, <1>3 DEF Channels
<1>7. \A d \in Clients \ Subscribers' : channel'[d] = <<>>
  BY <1>2, <1>4 DEF Channels
<1>8. QED
  BY <1>2, <1>5, <1>6, <1>7 DEF Channels

LEMMA FeedLostTypes ==
    ASSUME Copies, FeedLost
    PROVE  Channels' /\ Copies' /\ Subscribers' = {}
<1>1. /\ stage' = [c \in Clients |-> "away"] /\ channel' = [c \in Clients |-> <<>>]
      /\ copied' = <<>> /\ surfaced' = surfaced
  BY DEF FeedLost
<1>2. <<>> \in Seq({}) /\ Len(<<>>) = 0 /\ 0 <= SubBuffer
  BY FeedAssumption
<1>3. Channels'
  <2>1. \A c \in Clients : channel'[c] = <<>> /\ stage'[c] = "away"
    BY <1>1
  <2>2. \A c \in Clients : \E S : channel'[c] \in Seq(S)
    BY <1>2, <2>1
  <2>3. QED
    BY <1>1, <1>2, <2>1, <2>2 DEF Channels
<1>4. Copies'
  BY <1>1, <1>2 DEF Copies
<1>5. Subscribers' = {}
  BY <1>1, FeedAssumption DEF Subscribers, Clients
<1>6. QED
  BY <1>3, <1>4, <1>5

LEMMA SurfaceTypes ==
    ASSUME Channels, Copies, SurfaceCopy \/ SurfacePublish
    PROVE  Channels' /\ Copies'
<1>0. MaxSurfaced \in Nat /\ surfaced \in Nat
  BY FeedAssumption DEF Copies
<1>1. CASE SurfaceCopy
  <2>1. /\ copied' = <<last>> /\ surfaced < MaxSurfaced /\ UNCHANGED <<surfaced, stage, channel>>
    BY <1>1 DEF SurfaceCopy
  <2>2. Len(copied') = 1
    BY <2>1
  <2>3. QED
    BY <2>1, <2>2, ChannelsUnchanged DEF Copies
<1>2. CASE SurfacePublish
  <2>1. /\ copied # <<>> /\ Publish(copied[1]) /\ UNCHANGED stage
        /\ copied' = <<>> /\ surfaced' = surfaced + 1
    BY <1>2 DEF SurfacePublish
  <2>2. Channels'
    BY <2>1, PublishTypes
  <2>3. Copies'
    BY <1>0, <2>1 DEF Copies
  <2>4. QED
    BY <2>2, <2>3
<1>3. QED
  BY <1>1, <1>2

----------------------------------------------------------------------------
(* The process *)

LEMMA InitTypes == Init => TypeInv
<1> SUFFICES ASSUME Init PROVE TypeInv
  OBVIOUS
<1>1. /\ load \in Loads /\ topic = load.topic /\ faults = load.faults /\ ends = load.ends
      /\ phase = "down" /\ flushed = {} /\ final = {}
      /\ polled = 0 /\ position = 0 /\ folded = 0 /\ resumed = 0
      /\ pending = <<>> /\ flights = [g \in Goroutines |-> <<>>] /\ bronze = {}
      /\ hot = <<>> /\ rows = <<>> /\ recompute = NoPass
      /\ stage = [c \in Clients |-> "away"] /\ channel = [c \in Clients |-> <<>>]
      /\ copied = <<>> /\ surfaced = 0
  BY DEF Init, LandingInit, FeedInit
<1>2. Subscribers = {}
  BY <1>1, FeedAssumption DEF Subscribers, Clients
<1>3. Life
  <2>1. faults \in Nat /\ ends \in Nat
    BY <1>1, ServerAssumption
  <2>2. QED
    BY <1>1, <1>2, <2>1 DEF Life, Stopping
<1>4. Positions
  BY <1>1, <1>3, TopicFacts DEF Positions
<1>5. Carried = {}
  BY <1>1 DEF Carried, Range
<1>6. Landed
  BY <1>1, <1>5 DEF Landed
<1>7. Counted
  BY <1>1 DEF Counted, ByMinute
<1>8. Channels
  <2>1. <<>> \in Seq({}) /\ Len(<<>>) = 0 /\ 0 <= SubBuffer
    BY FeedAssumption
  <2>2. \A c \in Clients : channel[c] = <<>> /\ stage[c] = "away"
    BY <1>1
  <2>3. \A c \in Clients : \E S : channel[c] \in Seq(S)
    BY <2>1, <2>2
  <2>4. QED
    BY <1>1, <2>1, <2>2, <2>3 DEF Channels
<1>9. Copies
  BY <1>1, FeedAssumption DEF Copies
<1>10. QED
  BY <1>3, <1>4, <1>6, <1>7, <1>8, <1>9 DEF TypeInv

LEMMA LandingUnchanged ==
    ASSUME TypeInv, UNCHANGED <<topic, writer, aggregator, rows>>, recompute' \in {recompute, NoPass}
    PROVE  Positions' /\ Landed' /\ Counted'
<1>1. UNCHANGED <<topic, polled, position, pending, flights, bronze, hot, folded, resumed, rows>>
  BY DEF writer, aggregator
<1>2. QED
  BY <1>1, PositionsUnchanged, LandedUnchanged, CountedUnchanged DEF TypeInv

LEMMA FeedUnchanged ==
    ASSUME TypeInv, UNCHANGED feed
    PROVE  Channels' /\ Copies'
<1>1. UNCHANGED <<stage, channel, copied, surfaced>>
  BY DEF feed
<1>2. QED
  BY <1>1, ChannelsUnchanged DEF TypeInv, Copies

\* A step of the running process changes of Life at most what it has made last
\* and the errors still to come.
LEMMA LifeOn ==
    ASSUME Life, UNCHANGED <<topic, load, phase, ends>>, phase # "down",
           final' \subseteq final \union {"ticker", "aggregator"},
           faults' = faults \/ Fault
    PROVE  Life'
<1>1. faults' \in Nat
  BY DEF Life, Fault
<1>2. QED
  BY <1>1 DEF Life, Stopping

LEMMA BronzeStepTypes ==
    ASSUME IInv, TypeInv, BronzeStep
    PROVE  TypeInv'
<1>1. Positions' /\ Landed' /\ Counted'
  BY FetchTypes, IngestTypes, FlushTypes, InsertRowsTypes, InsertErrorTypes DEF BronzeStep
<1>2. UNCHANGED <<topic, feed, load, phase, final, ends>> /\ phase # "down"
  BY DEF BronzeStep, Lifecycle, Fetch, Ingest, TickerFlush, ConsumerFlush, InsertRows, InsertError
<1>3. faults' = faults \/ Fault
  BY DEF BronzeStep, Fetch, Ingest, TickerFlush, ConsumerFlush, InsertRows
<1>4. QED
  BY <1>1, <1>2, <1>3, FeedUnchanged, LifeOn DEF TypeInv

LEMMA WindDownTypes ==
    ASSUME IInv, TypeInv, WindDown
    PROVE  TypeInv'
<1>0. "ticker" \in Goroutines
  BY DEF Goroutines
<1>1. Positions' /\ Landed' /\ Counted'
  BY <1>0, IngestTypes, FlushTypes, InsertRowsTypes, InsertErrorTypes DEF WindDown
<1>2. UNCHANGED <<topic, feed, load, phase, ends>> /\ phase # "down"
  BY DEF WindDown, Stopping, Ingest, TickerFlush, ConsumerFlush, InsertRows, InsertError
<1>3. /\ faults' = faults \/ Fault
      /\ final' \subseteq final \union {"ticker", "aggregator"}
  BY DEF WindDown, Ingest, TickerFlush, ConsumerFlush, InsertRows
<1>4. QED
  BY <1>1, <1>2, <1>3, FeedUnchanged, LifeOn DEF TypeInv

LEMMA FoldStepTypes ==
    ASSUME TypeInv, FoldStep
    PROVE  TypeInv'
<1>1. Fold /\ UNCHANGED <<topic, feed, load, phase, final, ends, faults>> /\ phase # "down"
  BY DEF FoldStep, Lifecycle, Fold
<1>2. QED
  BY <1>1, FoldTypes, FeedUnchanged, LifeOn DEF TypeInv

LEMMA ReconcileStepTypes ==
    ASSUME TypeInv, ReconcileStep
    PROVE  TypeInv'
<1>1. /\ ReconcileRead \/ ReconcileWrite
      /\ UNCHANGED <<topic, feed, load, phase, final, ends>> /\ phase # "down"
      /\ faults' = faults \/ Fault
  BY DEF ReconcileStep, Lifecycle, ReconcileRead, ReconcileWrite
<1>2. QED
  BY <1>1, ReconcileTypes, FeedUnchanged, LifeOn DEF TypeInv

LEMMA FlushBeginTypes ==
    ASSUME TypeInv, FlushBegin
    PROVE  TypeInv'
<1>1. /\ UNCHANGED <<landing, feed, load, phase, ends>> /\ phase # "down"
      /\ final' \subseteq final \union {"ticker", "aggregator"}
  BY DEF FlushBegin, Stopping
<1>2. UNCHANGED <<topic, writer, aggregator, rows, recompute, faults>>
  BY <1>1 DEF landing
<1>3. QED
  BY <1>1, <1>2, LandingUnchanged, FeedUnchanged, LifeOn DEF TypeInv

LEMMA FlushErrorTypes ==
    ASSUME TypeInv, FlushError
    PROVE  TypeInv'
<1>1. /\ UNCHANGED <<topic, writer, aggregator, rows, recompute, feed, load, phase, final, ends>>
      /\ phase # "down"
      /\ faults' = faults \/ Fault
  BY DEF FlushError, Lifecycle, TypeInv, Life
<1>2. QED
  BY <1>1, LandingUnchanged, FeedUnchanged, LifeOn DEF TypeInv

LEMMA FlushWriteTypes ==
    ASSUME TypeInv, FlushWrite
    PROVE  TypeInv'
<1>1. /\ Persist(flushed)
      /\ UNCHANGED <<faults, stage, copied, surfaced, load, phase, final, ends>>
      /\ phase # "down"
      /\ (\E b : Publish(b)) \/ UNCHANGED channel
  BY DEF FlushWrite, Lifecycle, TypeInv, Life
<1>2. Positions' /\ Landed' /\ Counted' /\ UNCHANGED topic
  BY <1>1, PersistTypes DEF Persist
<1>3. Channels'
  BY <1>1, PublishTypes, ChannelsUnchanged DEF TypeInv
<1>4. Copies'
  BY <1>1 DEF TypeInv, Copies
<1>5. QED
  BY <1>1, <1>2, <1>3, <1>4, LifeOn DEF TypeInv

LEMMA SurfaceStepTypes ==
    ASSUME TypeInv, SurfaceStep
    PROVE  TypeInv'
<1>1. /\ SurfaceCopy \/ SurfacePublish
      /\ UNCHANGED <<landing, load, phase, final, ends>> /\ phase # "down"
  BY DEF SurfaceStep, Lifecycle
<1>2. UNCHANGED <<topic, writer, aggregator, rows, recompute, faults>>
  BY <1>1 DEF landing
<1>3. QED
  BY <1>1, <1>2, SurfaceTypes, LandingUnchanged, LifeOn DEF TypeInv

LEMMA ClientTypes ==
    ASSUME TypeInv, NEW c \in Clients, ConnectStep(c) \/ ServeStep(c) \/ LeaveStep(c)
    PROVE  TypeInv'
<1>1. /\ Connect(c) \/ Join(c) \/ Receive(c) \/ Leave(c)
      /\ UNCHANGED <<landing, load, phase, final, ends>> /\ phase # "down"
  BY DEF ConnectStep, ServeStep, LeaveStep, Lifecycle
<1>2. UNCHANGED <<topic, writer, aggregator, rows, recompute, faults>>
  BY <1>1 DEF landing
<1>3. UNCHANGED <<copied, surfaced>>
  BY <1>1 DEF Connect, Join, Receive, Leave
<1>4. Channels'
  BY <1>1, JoinTypes, ReceiveTypes, LeaveTypes DEF TypeInv
<1>5. QED
  BY <1>1, <1>2, <1>3, <1>4, LandingUnchanged, LifeOn DEF TypeInv, Copies

LEMMA BootTypes ==
    ASSUME TypeInv, Boot
    PROVE  TypeInv'
<1>1. /\ phase' = "up"
      /\ (\E b : Publish(b)) \/ UNCHANGED channel
      /\ UNCHANGED <<topic, writer, aggregator, rows, recompute, stage, copied, surfaced,
                     load, final, ends>>
      /\ faults' = faults \/ Fault
  BY DEF Boot
<1>2. Channels'
  BY <1>1, PublishTypes, ChannelsUnchanged DEF TypeInv
<1>3. faults' \in Nat
  BY <1>1 DEF Fault, TypeInv, Life
<1>4. Life'
  BY <1>1, <1>3 DEF TypeInv, Life, Stopping
<1>5. QED
  BY <1>1, <1>2, <1>4, LandingUnchanged DEF TypeInv, Copies

LEMMA StopTypes ==
    ASSUME TypeInv, Signal \/ HttpShutdown
    PROVE  TypeInv'
<1>1. /\ phase' \in {"http", "grpc"} /\ ends > 0
      /\ UNCHANGED <<topic, writer, aggregator, rows, faults, feed, load, final, ends>>
      /\ recompute' \in {recompute, NoPass}
  BY DEF Signal, HttpShutdown, TypeInv, Life, Stopping, landing
<1>2. Life'
  BY <1>1 DEF TypeInv, Life, Stopping
<1>3. QED
  BY <1>1, <1>2, LandingUnchanged, FeedUnchanged DEF TypeInv

LEMMA GoneTypes ==
    ASSUME IInv, TypeInv, Exit \/ Crash
    PROVE  TypeInv'
<1>1. /\ phase' = "down" /\ flushed' = {} /\ final' = {} /\ ends' = ends - 1
      /\ LandingLost /\ FeedLost /\ UNCHANGED load /\ ends > 0
  BY DEF Exit, Crash, Gone, TypeInv, Life, Stopping
<1>2. /\ UNCHANGED <<topic, faults>> /\ hot' = <<>> /\ pending' = <<>>
  BY <1>1 DEF LandingLost
<1>3. Channels' /\ Copies' /\ Subscribers' = {}
  BY <1>1, FeedLostTypes DEF TypeInv
<1>4. ends' \in 0 .. load.ends
  BY <1>1, ServerAssumption DEF TypeInv, Life
<1>5. Life'
  BY <1>1, <1>2, <1>3, <1>4 DEF TypeInv, Life, Stopping
<1>6. QED
  BY <1>1, <1>3, <1>5, LostTypes DEF TypeInv

LEMMA NextTypes ==
    ASSUME IInv, TypeInv, [Next]_vars
    PROVE  TypeInv'
<1>1. CASE UNCHANGED vars
  <2>1. UNCHANGED <<landing, feed, load, phase, flushed, final, ends>>
    BY <1>1 DEF vars
  <2>2. UNCHANGED <<topic, writer, aggregator, rows, recompute, faults, hot, pending, stage>>
    BY <2>1 DEF landing, writer, aggregator, feed
  <2>3. Life'
    BY <2>1, <2>2 DEF TypeInv, Life, Stopping, Subscribers
  <2>4. QED
    BY <2>1, <2>2, <2>3, LandingUnchanged, FeedUnchanged DEF TypeInv
<1>2. CASE \E c \in Clients : ConnectStep(c) \/ ServeStep(c) \/ LeaveStep(c)
  BY <1>2, ClientTypes
<1>3. QED
  BY <1>1, <1>2, BootTypes, BronzeStepTypes, ReconcileStepTypes, FoldStepTypes, FlushBeginTypes,
     FlushWriteTypes, FlushErrorTypes, SurfaceStepTypes, StopTypes, WindDownTypes, GoneTypes DEF Next

\* The stores and the feed keep their types, the positions of both consumer
\* groups their order, the channels their bound, and a process that is down has
\* nothing in memory, whatever the signal, a crash, a failing statement or a
\* client does.
THEOREM TypeCorrect == Spec => []TypeOK
<1>1. IInv /\ TypeInv => TypeOK
  <2> SUFFICES ASSUME IInv, TypeInv PROVE TypeOK
    OBVIOUS
  <2>1. LandingTypeOK
    <3>1. /\ 0 <= committed /\ committed <= batch /\ batch <= position
          /\ position <= polled /\ polled <= Len(topic)
          /\ resumed \in 0 .. folded /\ folded <= Len(topic)
      BY DEF IInv, Numbers, TypeInv, Positions
    <3>2. /\ bronze \subseteq DOMAIN topic
          /\ Range(pending) \union UNION {Range(flights[g]) : g \in Goroutines} \subseteq DOMAIN topic
      BY DEF TypeInv, Landed, Carried
    <3>3. /\ DOMAIN hot \union DOMAIN rows \subseteq Range(topic)
          /\ \A m \in DOMAIN rows : \A r \in rows[m] : topic[r] = m
      BY DEF TypeInv, Counted, ByMinute
    <3>4. QED
      BY <3>1, <3>2, <3>3 DEF LandingTypeOK, TypeInv, Life
  <2>2. FeedTypeOK
    BY DEF FeedTypeOK, TypeInv, Channels, Copies
  <2>3. QED
    BY <2>1, <2>2 DEF TypeOK, TypeInv, Life
<1>2. Init => IInv /\ TypeInv
  BY InitKeeps, InitTypes
<1>3. IInv /\ TypeInv /\ [Next]_vars => IInv' /\ TypeInv'
  BY NextKeeps, NextTypes
<1>4. QED
  BY <1>1, <1>2, <1>3, PTL DEF Spec
=============================================================================
