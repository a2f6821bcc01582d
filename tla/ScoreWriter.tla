---------------------------- MODULE ScoreWriter ----------------------------
(***************************************************************************)
(* The stream side of the score-writer: records of several partitions pass *)
(* a reorder gate and are folded, in order of event time, into the rings   *)
(* that later features are computed from.  A second goroutine copies the   *)
(* consumer position and the rings, saves them in Postgres and then        *)
(* commits the position to Kafka; after a restart, records below the saved *)
(* position are skipped.                                                   *)
(*                                                                         *)
(* A record is a pair <<partition, number>>, numbered from 1, and a        *)
(* position n of a partition says that its first n records are done with.  *)
(* Folding an event also queues its score job: from there on it is in      *)
(* ProposalDelivery.                                                       *)
(***************************************************************************)
EXTENDS Integers, Sequences, FiniteSets

CONSTANTS Partitions,
          Log,          \* Log[p]: the records of p, in order
          Loops,        \* replay loops
          NoLoop,       \* none of them
          Slack,        \* event time the gate waits for stragglers
          GateSize,     \* records it holds before it forces one out
          MaxRestarts,  \* bound: crashes and shutdowns
          MaxFaults     \* bound: storage and broker errors, reassignments

Events == [kind : {"order", "session", "other"}, at : Nat, loop : Loops]

ASSUME ScoreWriterAssumption ==
    /\ Log \in [Partitions -> Seq(Events)]
    /\ NoLoop \notin Loops
    /\ Slack \in Nat /\ GateSize \in Nat \ {0}
    /\ MaxRestarts \in Nat /\ MaxFaults \in Nat

Records == UNION {{<<p, n>> : n \in DOMAIN Log[p]} : p \in Partitions}

Event(r) == Log[r[1]][r[2]]
Orders == {r \in Records : Event(r).kind = "order"}
Consumed == {r \in Records : Event(r).kind # "other"}

VARIABLES
    fetch,      \* the client's position: what it fetches next
    gate,       \* what waits in the gate, [rec, copy]
    maxSeen,    \* the gate's newest event time
    hand,       \* the record folded and not yet marked, {} if none
    seen,       \* the claims of this loop
    curLoop,
    rings,      \* how often each order counts in the rings
    processed,  \* the position that the next snapshot will take
    resume,     \* the position that was restored
    snap,       \* the snapshot being taken
    saved,      \* gold.scorewriter_state
    committed,  \* the consumer group's position in Kafka
    life,       \* "running", "stopping", "final" (the last snapshot)
    handled,    \* records ever claimed (history)
    exposed,    \* records that may be folded again (history)
    amnesia,    \* a restore failed (history)
    restarts,
    faults

gateVars == <<gate, maxSeen>>
claimVars == <<seen, curLoop, rings, handled>>
positionVars == <<processed, resume>>
durableVars == <<saved, committed>>
boundVars == <<restarts, faults>>
vars == <<fetch, gateVars, hand, claimVars, positionVars, snap, durableVars,
          life, exposed, amnesia, boundVars>>

AtStart == [p \in Partitions |-> 0]
NoRings == [r \in Records |-> 0]
Idle == [at |-> "idle", offs |-> AtStart, rings |-> NoRings]

Init ==
    /\ fetch = AtStart
    /\ gate = {} /\ maxSeen = 0 /\ hand = {}
    /\ seen = {} /\ curLoop = NoLoop /\ rings = NoRings
    /\ processed = AtStart /\ resume = AtStart
    /\ snap = Idle
    /\ saved = [offs |-> AtStart, rings |-> NoRings]
    /\ committed = AtStart
    /\ life = "running"
    /\ handled = {} /\ exposed = {} /\ amnesia = FALSE
    /\ restarts = 0 /\ faults = 0

Fault == faults < MaxFaults /\ faults' = faults + 1
Larger(a, b) == IF a > b THEN a ELSE b

----------------------------------------------------------------------------
(* The consume loop                                                        *)

\* Mutant: the restored position is not asked.
NeverProcessed(r) == FALSE

AlreadyProcessed(r) == r[2] <= resume[r[1]]

\* Oldest first: what is due, one record of a full gate, everything at the
\* drain of a shutdown.
Releasable(i) ==
    /\ i \in gate
    /\ \A j \in gate : Event(i.rec).at <= Event(j.rec).at
    /\ \/ life # "running"
       \/ Cardinality(gate) >= GateSize
       \/ Event(i.rec).at <= maxSeen - Slack

\* The goroutine first processes what the gate has released.
Fetch(p) ==
    LET r == <<p, fetch[p] + 1>> IN
    /\ life = "running"
    /\ hand = {} /\ \A i \in gate : ~Releasable(i)
    /\ r \in Records
    /\ fetch' = [fetch EXCEPT ![p] = @ + 1]
    /\ IF AlreadyProcessed(r) \/ r \notin Consumed
       THEN UNCHANGED gateVars
       ELSE /\ gate' = gate \cup {[rec |-> r, copy |-> faults]}
            /\ maxSeen' = Larger(maxSeen, Event(r).at)
    /\ UNCHANGED <<hand, claimVars, positionVars, snap, durableVars, life,
                   exposed, amnesia, boundVars>>

\* claim: a loop's claims are forgotten when a record of another loop comes.
Claimed(r) == Event(r).loop = curLoop /\ r \in seen

\* processOrder and processSession up to the score job.  Only orders count in
\* the rings; a record claimed before changes nothing.
Fold(i) ==
    LET r == i.rec
        sameLoop == Event(r).loop = curLoop
    IN
    /\ hand = {} /\ Releasable(i)
    /\ gate' = gate \ {i}
    /\ hand' = {r}
    /\ IF Claimed(r)
       THEN UNCHANGED <<claimVars, exposed>>
       ELSE /\ seen' = IF sameLoop THEN seen \cup {r} ELSE {r}
            /\ curLoop' = Event(r).loop
            /\ exposed' = IF sameLoop THEN exposed ELSE exposed \cup seen
            /\ rings' = IF r \in Orders THEN [rings EXCEPT ![r] = @ + 1] ELSE rings
            /\ handled' = handled \cup {r}
    /\ UNCHANGED <<fetch, maxSeen, positionVars, snap, durableVars, life, amnesia,
                   boundVars>>

\* markProcessed
Mark ==
    \E r \in hand :
      /\ processed' = [processed EXCEPT ![r[1]] = Larger(@, r[2])]
      /\ hand' = {}
      /\ UNCHANGED <<fetch, gateVars, claimVars, resume, snap, durableVars, life,
                     exposed, amnesia, boundVars>>

\* The group reassigns the partition: the client starts at the commit again.
Reassign(p) ==
    /\ life = "running"
    /\ Fault
    /\ fetch' = [fetch EXCEPT ![p] = committed[p]]
    /\ UNCHANGED <<gateVars, hand, claimVars, positionVars, snap, durableVars, life,
                   exposed, amnesia, restarts>>

----------------------------------------------------------------------------
(* SnapshotState, on a ticker and once more when the consumer has drained  *)

Drained == life = "stopping" /\ gate = {} /\ hand = {}

\* Mutant: the position of what was consumed, not of what was processed.
CopyFetched ==
    /\ snap.at = "idle" /\ (life = "running" \/ Drained)
    /\ snap' = [Idle EXCEPT !.at = "rings", !.offs = fetch]
    /\ life' = IF Drained THEN "final" ELSE life
    /\ UNCHANGED <<fetch, gateVars, hand, claimVars, positionVars, durableVars,
                   exposed, amnesia, boundVars>>

\* snapshot() holds the position lock for the copy of the offsets only.
CopyOffsets ==
    /\ snap.at = "idle" /\ (life = "running" \/ Drained)
    /\ snap' = [Idle EXCEPT !.at = "rings", !.offs = processed]
    /\ life' = IF Drained THEN "final" ELSE life
    /\ UNCHANGED <<fetch, gateVars, hand, claimVars, positionVars, durableVars,
                   exposed, amnesia, boundVars>>

\* The orders above the copied position that the copy of the rings contains.
Torn == {r \in Orders : rings[r] > 0 /\ r[2] > snap.offs[r[1]]}

CopyRings ==
    /\ snap.at = "rings"
    /\ snap' = [snap EXCEPT !.at = "save", !.rings = rings]
    /\ exposed' = exposed \cup Torn
    /\ UNCHANGED <<fetch, gateVars, hand, claimVars, positionVars, durableVars, life,
                   amnesia, boundVars>>

Store == saved' = [offs |-> snap.offs, rings |-> snap.rings]

Save ==
    /\ snap.at = "save"
    /\ Store
    /\ snap' = [snap EXCEPT !.at = "commit"]
    /\ UNCHANGED <<fetch, gateVars, hand, claimVars, positionVars, committed, life,
                   exposed, amnesia, boundVars>>

\* Mutant: the offsets are committed although the state was not saved.
SaveFailsUnnoticed ==
    /\ snap.at = "save"
    /\ Fault
    /\ snap' = [snap EXCEPT !.at = "commit"]
    /\ UNCHANGED <<fetch, gateVars, hand, claimVars, positionVars, durableVars, life,
                   exposed, amnesia, restarts>>

\* An error, after which the row may have been written all the same.
SaveFails ==
    /\ snap.at = "save"
    /\ Fault
    /\ Store \/ UNCHANGED saved
    /\ snap' = Idle
    /\ UNCHANGED <<fetch, gateVars, hand, claimVars, positionVars, committed, life,
                   exposed, amnesia, restarts>>

\* A partition nothing was processed of is not in the snapshot.
Commit ==
    /\ snap.at = "commit"
    /\ committed' = [p \in Partitions |->
                        IF snap.offs[p] > 0 THEN snap.offs[p] ELSE committed[p]]
    /\ snap' = Idle
    /\ UNCHANGED <<fetch, gateVars, hand, claimVars, positionVars, saved, life,
                   exposed, amnesia, boundVars>>

CommitFails ==
    /\ snap.at = "commit"
    /\ Fault
    /\ snap' = Idle
    /\ UNCHANGED <<fetch, gateVars, hand, claimVars, positionVars, durableVars, life,
                   exposed, amnesia, restarts>>

----------------------------------------------------------------------------
(* Shutdown, crash and New                                                 *)

\* RestoreState logs an error of its SELECT and starts with nothing.
Restored ==
    \/ /\ rings' = saved.rings
       /\ processed' = saved.offs /\ resume' = saved.offs
       /\ UNCHANGED <<amnesia, faults>>
    \/ /\ Fault
       /\ rings' = NoRings
       /\ processed' = AtStart /\ resume' = AtStart
       /\ amnesia' = TRUE

\* Mutant: a partition without a commit is read from its end.
BootAtEnd ==
    /\ Restored
    /\ fetch' = [p \in Partitions |->
                    IF committed[p] > 0 THEN committed[p] ELSE Len(Log[p])]
    /\ gate' = {} /\ maxSeen' = 0 /\ hand' = {}
    /\ seen' = {} /\ curLoop' = NoLoop
    /\ snap' = Idle
    /\ life' = "running"
    /\ UNCHANGED <<durableVars, handled, exposed>>

\* kgo: a partition without a commit is read from its start.
Boot ==
    /\ Restored
    /\ fetch' = committed
    /\ gate' = {} /\ maxSeen' = 0 /\ hand' = {}
    /\ seen' = {} /\ curLoop' = NoLoop
    /\ snap' = Idle
    /\ life' = "running"
    /\ UNCHANGED <<durableVars, handled, exposed>>

Restart == restarts < MaxRestarts /\ restarts' = restarts + 1

Crash == Restart /\ Boot

Shutdown ==
    /\ life = "running"
    /\ Restart
    /\ life' = "stopping"
    /\ UNCHANGED <<fetch, gateVars, hand, claimVars, positionVars, snap, durableVars,
                   exposed, amnesia, faults>>

Exit ==
    /\ life = "final" /\ snap.at = "idle"
    /\ Boot
    /\ UNCHANGED restarts

----------------------------------------------------------------------------
Consume ==
    \/ \E p \in Partitions : Fetch(p)
    \/ \E i \in gate : Fold(i)
    \/ Mark

Snapshot ==
    \/ CopyOffsets
    \/ CopyRings
    \/ Save
    \/ SaveFails
    \/ Commit
    \/ CommitFails

Next ==
    \/ Consume
    \/ Snapshot
    \/ \E p \in Partitions : Reassign(p)
    \/ Crash
    \/ Shutdown
    \/ Exit

Spec == Init /\ [][Next]_vars

\* The two goroutines run, and a process that stops is started again.
FairSpec == Spec /\ WF_vars(Consume) /\ WF_vars(Snapshot) /\ WF_vars(Exit)

----------------------------------------------------------------------------
(* Properties                                                              *)

Positions == [Partitions -> Nat]
Counts == [Records -> Nat]

\* A later record of r's partition, of no later event time, came out of the gate
\* before r, and took the position offs past it.
Overtaken(r, offs) ==
    \E q \in Consumed : /\ q[1] = r[1] /\ r[2] < q[2] /\ q[2] <= offs[q[1]]
                        /\ Event(q).at <= Event(r).at

\* What a restart skips was dealt with, and its orders are in the rings that were
\* saved with the position, unless the record was overtaken in the gate: "so the
\* processed records of a partition form a prefix" (markProcessed) holds but for
\* the producer's disorder.  A restore that failed voids it.
SkippedOnlyIfOvertaken ==
    amnesia \/ \A r \in Consumed : r[2] <= saved.offs[r[1]] =>
        \/ r \in handled /\ (r \in Orders => saved.rings[r] > 0)
        \/ Overtaken(r, saved.offs)

\* "the committed position never runs ahead of the durable state" (SnapshotState).
CommitBehindState ==
    amnesia \/ \A p \in Partitions : committed[p] <= saved.offs[p]

\* An order counts twice only when a snapshot was torn around it or its loop's
\* claims were forgotten: redelivery, reassignment and restarts do no harm of
\* their own (claim, alreadyProcessed).
TwiceOnlyIfExposed == \A r \in Orders : rings[r] <= 1 \/ r \in exposed

\* Every order counts once, across crashes: "state and stream position cannot
\* disagree after a crash".
EachCountsOnce == \A r \in Orders : rings[r] <= 1

\* An order that later events push out of the gate ends up in the saved rings,
\* through crashes and lost commits.
PushedOut(r) == \E q \in Consumed : Event(r).at <= Event(q).at - Slack

EveryOrderCounts ==
    \A r \in Orders : PushedOut(r) => <>[](amnesia \/ saved.rings[r] > 0)
=============================================================================
