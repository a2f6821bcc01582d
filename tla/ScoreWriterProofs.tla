-------------------------- MODULE ScoreWriterProofs --------------------------
(***************************************************************************)
(* Theorems about ScoreWriter, for any partitions, logs, slack and bounds. *)
(***************************************************************************)
EXTENDS ScoreWriter, TLAPS

----------------------------------------------------------------------------
(* The facts about types that the invariants need                          *)

Types ==
    /\ fetch \in Positions /\ committed \in Positions
    /\ processed \in Positions /\ resume \in Positions
    /\ gate \subseteq [rec : Consumed, copy : Nat]
    /\ hand \subseteq Consumed
    /\ seen \subseteq Consumed
    /\ rings \in Counts
    /\ snap \in [at : {"idle", "rings", "save", "commit"}, offs : Positions, rings : Counts]
    /\ saved \in [offs : Positions, rings : Counts]
    /\ faults \in Nat

\* A record is a pair of a partition and a number.
LEMMA RecordFacts ==
    /\ Consumed \subseteq Records /\ Orders \subseteq Consumed
    /\ \A r \in Records : r[1] \in Partitions /\ r[2] \in Nat /\ r = <<r[1], r[2]>>
    /\ \A r \in Records : Event(r).at \in Nat
<1>1. \A p \in Partitions : Log[p] \in Seq(Events)
  BY ScoreWriterAssumption
<1>2. ASSUME NEW r \in Records
      PROVE  /\ r[1] \in Partitions /\ r[2] \in Nat /\ r = <<r[1], r[2]>>
             /\ Event(r).at \in Nat
  <2>1. PICK p \in Partitions : \E n \in DOMAIN Log[p] : r = <<p, n>>
    BY DEF Records
  <2>a. PICK n \in DOMAIN Log[p] : r = <<p, n>>
    BY <2>1
  <2>2. n \in Nat /\ Log[p][n] \in Events
    BY <1>1, <2>a
  <2>3. QED
    BY <2>a, <2>2 DEF Event, Events
<1>3. Consumed \subseteq Records /\ Orders \subseteq Consumed
  BY DEF Consumed, Orders
<1>4. QED
  BY <1>2, <1>3

\* Counting once more keeps a function of counts one.
LEMMA CountOnce ==
    ASSUME NEW S, NEW f \in [S -> Nat], NEW x
    PROVE  [f EXCEPT ![x] = @ + 1] \in [S -> Nat]
<1>1. CASE x \in S
  BY <1>1
<1>2. CASE x \notin S
  BY <1>2
<1>3. QED
  BY <1>1, <1>2

LEMMA TypesInit == Init => Types
<1>1. AtStart \in Positions /\ NoRings \in Counts
  BY DEF AtStart, NoRings, Positions, Counts
<1>2. QED
  BY <1>1 DEF Init, Types, Idle

LEMMA TypesStep == Types /\ [Next]_vars => Types'
<1> SUFFICES ASSUME Types, [Next]_vars PROVE Types'
  OBVIOUS
<1> USE DEF Types
<1>a. AtStart \in Positions /\ NoRings \in Counts
  BY DEF AtStart, NoRings, Positions, Counts
<1>b. Idle \in [at : {"idle", "rings", "save", "commit"}, offs : Positions, rings : Counts]
  BY <1>a DEF Idle
<1>1. ASSUME NEW p \in Partitions, Fetch(p) PROVE Types'
  <2>1. fetch' \in Positions
    BY <1>1 DEF Fetch, Positions
  <2>2. gate' \subseteq [rec : Consumed, copy : Nat]
    BY <1>1 DEF Fetch, gateVars
  <2>3. QED
    BY <1>1, <2>1, <2>2
    DEF Fetch, claimVars, positionVars, durableVars, boundVars
<1>2. ASSUME NEW i \in gate, Fold(i) PROVE Types'
  <2>1. i.rec \in Consumed
    OBVIOUS
  <2>2. rings' \in Counts /\ seen' \subseteq Consumed
    <3>1. CASE Claimed(i.rec)
      BY <1>2, <3>1 DEF Fold, claimVars
    <3>2. CASE ~Claimed(i.rec)
      <4>1. seen' \subseteq Consumed
        BY <1>2, <2>1, <3>2 DEF Fold
      <4>2. rings' = IF i.rec \in Orders THEN [rings EXCEPT ![i.rec] = @ + 1] ELSE rings
        BY <1>2, <3>2 DEF Fold
      <4>3. rings \in [Records -> Nat]
        BY DEF Counts
      <4>4. rings' \in [Records -> Nat]
        BY <4>2, <4>3, CountOnce
      <4>5. QED
        BY <4>1, <4>4 DEF Counts
    <3>3. QED
      BY <3>1, <3>2
  <2>3. QED
    BY <1>2, <2>1, <2>2 DEF Fold, positionVars, durableVars, boundVars
<1>3. ASSUME Mark PROVE Types'
  <2>1. PICK r \in hand :
          processed' = [processed EXCEPT ![r[1]] = Larger(@, r[2])]
    BY <1>3 DEF Mark
  <2>2. r[1] \in Partitions /\ r[2] \in Nat
    BY RecordFacts
  <2>3. processed' \in Positions
    BY <2>1, <2>2 DEF Larger, Positions
  <2>4. QED
    BY <1>3, <2>3 DEF Mark, gateVars, claimVars, durableVars, boundVars
<1>4. ASSUME CopyOffsets PROVE Types'
  BY <1>4, <1>b
  DEF CopyOffsets, gateVars, claimVars, positionVars, durableVars, boundVars
<1>5. ASSUME CopyRings PROVE Types'
  BY <1>5 DEF CopyRings, gateVars, claimVars, positionVars, durableVars, boundVars
<1>6. ASSUME Save PROVE Types'
  BY <1>6 DEF Save, Store, gateVars, claimVars, positionVars, boundVars
<1>7. ASSUME SaveFails PROVE Types'
  BY <1>7, <1>b DEF SaveFails, Store, Fault, gateVars, claimVars, positionVars
<1>8. ASSUME Commit PROVE Types'
  <2>1. committed' \in Positions
    BY <1>8 DEF Commit, Positions
  <2>2. QED
    BY <1>8, <1>b, <2>1 DEF Commit, gateVars, claimVars, positionVars, boundVars
<1>9. ASSUME CommitFails PROVE Types'
  BY <1>9, <1>b DEF CommitFails, Fault, gateVars, claimVars, positionVars, durableVars
<1>10. ASSUME NEW p \in Partitions, Reassign(p) PROVE Types'
  <2>1. fetch' \in Positions
    BY <1>10 DEF Reassign, Positions
  <2>2. QED
    BY <1>10, <2>1 DEF Reassign, Fault, gateVars, claimVars, positionVars, durableVars
<1>11. ASSUME Boot PROVE Types'
  <2>1. rings' \in Counts /\ processed' \in Positions /\ resume' \in Positions
        /\ faults' \in Nat
    BY <1>11, <1>a DEF Boot, Restored, Fault
  <2>2. QED
    BY <1>11, <1>b, <2>1 DEF Boot, durableVars
<1>12. ASSUME Shutdown PROVE Types'
  BY <1>12 DEF Shutdown, gateVars, claimVars, positionVars, durableVars
<1>13. ASSUME UNCHANGED vars PROVE Types'
  BY <1>13 DEF vars, gateVars, claimVars, positionVars, durableVars, boundVars
<1>14. QED
  BY <1>1, <1>2, <1>3, <1>4, <1>5, <1>6, <1>7, <1>8, <1>9, <1>10, <1>11, <1>12, <1>13
  DEF Next, Consume, Snapshot, Crash, Exit

LEMMA TypesAlways == Spec => []Types
BY TypesInit, TypesStep, PTL DEF Spec

----------------------------------------------------------------------------
(* Positions: what was committed was saved, what was saved was processed   *)

PositionsInv ==
    amnesia \/ \A p \in Partitions :
        /\ resume[p] <= processed[p]
        /\ committed[p] <= saved.offs[p]
        /\ saved.offs[p] <= processed[p]
        /\ snap.at # "idle" =>
              saved.offs[p] <= snap.offs[p] /\ snap.offs[p] <= processed[p]
        /\ snap.at = "commit" => snap.offs[p] = saved.offs[p]

LEMMA PositionsInit == Init => PositionsInv
BY DEF Init, PositionsInv, AtStart, Idle

LEMMA PositionsStep == Types /\ PositionsInv /\ [Next]_vars => PositionsInv'
<1> SUFFICES ASSUME Types, PositionsInv, [Next]_vars, ~amnesia'
             PROVE  PositionsInv'
  BY DEF PositionsInv
<1>a. /\ fetch \in [Partitions -> Nat] /\ committed \in [Partitions -> Nat]
      /\ processed \in [Partitions -> Nat] /\ resume \in [Partitions -> Nat]
      /\ saved.offs \in [Partitions -> Nat] /\ snap.offs \in [Partitions -> Nat]
      /\ hand \subseteq Consumed
  BY DEF Types, Positions
<1>b. Idle.at = "idle" /\ Idle.offs = [p \in Partitions |-> 0]
  BY DEF Idle, AtStart
<1>s. snap \in [at : {"idle", "rings", "save", "commit"}, offs : Positions, rings : Counts]
  BY DEF Types
<1> DEFINE P(com, off, pro, res, sn) ==
             \A p \in Partitions :
                 /\ res[p] <= pro[p]
                 /\ com[p] <= off[p]
                 /\ off[p] <= pro[p]
                 /\ sn.at # "idle" => off[p] <= sn.offs[p] /\ sn.offs[p] <= pro[p]
                 /\ sn.at = "commit" => sn.offs[p] = off[p]
<1>c. amnesia \/ P(committed, saved.offs, processed, resume, snap)
  BY DEF PositionsInv
<1>d. SUFFICES P(committed', saved'.offs, processed', resume', snap')
  BY DEF PositionsInv
<1>1. ASSUME UNCHANGED <<committed, saved, processed, resume, snap, amnesia>>
      PROVE  P(committed', saved'.offs, processed', resume', snap')
  BY <1>1, <1>c
<1>2. CASE Mark
  <2>1. PICK r \in hand :
          processed' = [processed EXCEPT ![r[1]] = Larger(@, r[2])]
    BY <1>2 DEF Mark
  <2>2. r[1] \in Partitions /\ r[2] \in Nat
    BY <1>a, RecordFacts
  <2>3. \A p \in Partitions : processed[p] <= processed'[p]
    BY <1>a, <2>1, <2>2 DEF Larger
  <2>4. UNCHANGED <<committed, saved, resume, snap, amnesia>>
    BY <1>2 DEF Mark, durableVars
  <2>5. processed' \in [Partitions -> Nat]
    BY <1>a, <2>1, <2>2 DEF Larger
  <2>6. QED
    BY <1>a, <1>c, <2>3, <2>4, <2>5
<1>3. CASE CopyOffsets
  <2>1. snap'.at = "rings" /\ snap'.offs = processed
    BY <1>3, <1>b DEF CopyOffsets, Idle
  <2>2. UNCHANGED <<committed, saved, processed, resume, amnesia>>
    BY <1>3 DEF CopyOffsets, positionVars, durableVars
  <2>3. QED
    BY <1>a, <1>c, <2>1, <2>2
<1>4. CASE CopyRings
  <2>1. snap'.at = "save" /\ snap'.offs = snap.offs /\ snap.at = "rings"
    BY <1>4, <1>s DEF CopyRings
  <2>2. UNCHANGED <<committed, saved, processed, resume, amnesia>>
    BY <1>4 DEF CopyRings, positionVars, durableVars
  <2>3. QED
    BY <1>c, <2>1, <2>2
<1>5. CASE Save
  <2>1. snap'.at = "commit" /\ snap'.offs = snap.offs /\ snap.at = "save"
    BY <1>5, <1>s DEF Save
  <2>2. UNCHANGED <<committed, processed, resume, amnesia>> /\ saved'.offs = snap.offs
    BY <1>5 DEF Save, Store, positionVars
  <2>3. QED
    BY <1>a, <1>c, <2>1, <2>2
<1>6. CASE SaveFails
  <2>1. snap'.at = "idle" /\ snap.at = "save"
    BY <1>6, <1>b DEF SaveFails
  <2>2. /\ UNCHANGED <<committed, processed, resume, amnesia>>
        /\ saved'.offs = snap.offs \/ saved'.offs = saved.offs
    BY <1>6 DEF SaveFails, Store, positionVars
  <2>3. QED
    BY <1>a, <1>c, <2>1, <2>2
<1>7. CASE Commit
  <2>1. snap'.at = "idle" /\ snap.at = "commit"
    BY <1>7, <1>b DEF Commit
  <2>2. UNCHANGED <<saved, processed, resume, amnesia>>
    BY <1>7 DEF Commit, positionVars
  <2>3. \A p \in Partitions : committed'[p] = snap.offs[p] \/ committed'[p] = committed[p]
    BY <1>7 DEF Commit
  <2>4. QED
    BY <1>a, <1>c, <2>1, <2>2, <2>3
<1>8. CASE CommitFails
  <2>1. snap'.at = "idle"
    BY <1>8, <1>b DEF CommitFails
  <2>2. UNCHANGED <<committed, saved, processed, resume, amnesia>>
    BY <1>8 DEF CommitFails, positionVars, durableVars
  <2>3. QED
    BY <1>c, <2>1, <2>2
<1>9. CASE Boot
  <2>1. /\ processed' = saved.offs /\ resume' = saved.offs
        /\ ~amnesia
    BY <1>9 DEF Boot, Restored
  <2>2. snap'.at = "idle" /\ UNCHANGED <<committed, saved>>
    BY <1>9, <1>b DEF Boot, durableVars
  <2>3. QED
    BY <1>a, <1>c, <2>1, <2>2
<1>10. CASE \/ \E p \in Partitions : Fetch(p) \/ Reassign(p)
            \/ \E i \in gate : Fold(i)
            \/ Shutdown
            \/ UNCHANGED vars
  <2>1. UNCHANGED <<committed, saved, processed, resume, snap, amnesia>>
    BY <1>10
    DEF Fetch, Reassign, Fold, Shutdown, vars, durableVars, positionVars
  <2>2. QED
    BY <1>1, <2>1
<1>11. QED
  BY <1>2, <1>3, <1>4, <1>5, <1>6, <1>7, <1>8, <1>9, <1>10
  DEF Next, Consume, Snapshot, Crash, Exit

\* CommitBehindState: the group's position in Kafka never runs ahead of the state
\* in Postgres, through failed saves, failed commits, crashes and shutdowns, and
\* for records in any order (SnapshotState, commitOffsets).
THEOREM CommitNeverAhead == Spec => []CommitBehindState
<1>1. PositionsInv => CommitBehindState
  BY DEF PositionsInv, CommitBehindState
<1>2. QED
  BY TypesAlways, PositionsInit, PositionsStep, <1>1, PTL DEF Spec

----------------------------------------------------------------------------
(* Nothing is skipped that was not overtaken                               *)

\* The records below the positions offs were claimed, and their orders count
\* in rs, but for those that were overtaken.
Covers(offs, rs, hd) ==
    \A r \in Consumed : r[2] <= offs[r[1]] =>
        \/ r \in hd /\ (r \in Orders => rs[r] > 0)
        \/ Overtaken(r, offs)

Counted(r) == r \in handled /\ (r \in Orders => rings[r] > 0)
Before(q, r) == q[1] = r[1] /\ q[2] < r[2]
InGate(r) == \E i \in gate : i.rec = r
Behind(r) == r[2] <= processed[r[1]]

\* A record the client is past is marked, in hand or in the gate; what comes
\* before a record in the gate is not lost behind it, and what comes before a
\* record in hand is marked, or no earlier in event time.  A snapshot that has
\* only its positions is covered by the rings it will copy.
SkipInv ==
    /\ \A q, r \in hand : q = r
    /\ amnesia \/
        /\ Covers(processed, rings, handled)
        /\ \A r \in hand \cup seen : Counted(r)
        /\ \A r \in Consumed :
              r[2] <= fetch[r[1]] => Behind(r) \/ r \in hand \/ InGate(r)
        /\ \A i \in gate : \A r \in Consumed :
              Before(r, i.rec) => Behind(r) \/ r \in hand \/ InGate(r)
        /\ \A q \in hand : \A r \in Consumed :
              Before(r, q) => Behind(r) \/ Event(q).at <= Event(r).at
        /\ snap.at = "rings" => Covers(snap.offs, rings, handled)
        /\ snap.at \in {"save", "commit"} => Covers(snap.offs, snap.rings, handled)
        /\ Covers(saved.offs, saved.rings, handled)

LEMMA SkipInit == Init => SkipInv
<1> SUFFICES ASSUME Init PROVE SkipInv
  OBVIOUS
<1>1. \A r \in Consumed : ~(r[2] <= AtStart[r[1]])
  <2> SUFFICES ASSUME NEW r \in Consumed PROVE ~(r[2] <= AtStart[r[1]])
    OBVIOUS
  <2>1. PICK p \in Partitions : \E n \in DOMAIN Log[p] : r = <<p, n>>
    BY RecordFacts DEF Records
  <2>2. PICK n \in DOMAIN Log[p] : r = <<p, n>>
    BY <2>1
  <2>3. n \in Nat \ {0}
    BY ScoreWriterAssumption
  <2>4. QED
    BY <2>2, <2>3 DEF AtStart
<1>2. QED
  BY <1>1 DEF Init, SkipInv, Covers, Behind, Idle

\* What is in memory, after a step of the consumer.
LEMMA SkipStep ==
    Types /\ Types' /\ PositionsInv /\ SkipInv /\ [Next]_vars => SkipInv'
<1> SUFFICES ASSUME Types, Types', PositionsInv, SkipInv, [Next]_vars
             PROVE  SkipInv'
  OBVIOUS
<1>a. /\ \A r \in Consumed : r \in Records /\ r[1] \in Partitions /\ r[2] \in Nat
                             /\ r = <<r[1], r[2]>> /\ Event(r).at \in Nat
      /\ Orders \subseteq Consumed
  BY RecordFacts
<1>b. /\ fetch \in [Partitions -> Nat] /\ committed \in [Partitions -> Nat]
      /\ processed \in [Partitions -> Nat] /\ resume \in [Partitions -> Nat]
      /\ saved.offs \in [Partitions -> Nat] /\ snap.offs \in [Partitions -> Nat]
      /\ hand \subseteq Consumed /\ seen \subseteq Consumed
      /\ \A i \in gate : i.rec \in Consumed
      /\ rings \in [Records -> Nat]
      /\ snap \in [at : {"idle", "rings", "save", "commit"}, offs : Positions, rings : Counts]
  BY DEF Types, Positions, Counts
<1>c. Idle.at = "idle"
  BY DEF Idle
<1>d. amnesia => amnesia'
  BY DEF Next, Consume, Snapshot, Fetch, Fold, Mark, CopyOffsets, CopyRings, Save,
         SaveFails, Commit, CommitFails, Reassign, Crash, Shutdown, Exit, Boot,
         Restored, vars
<1>1. ASSUME NEW p \in Partitions, Fetch(p) PROVE SkipInv'
  <2>0. PICK x : x = <<p, fetch[p] + 1>>
    OBVIOUS
  <2>1. /\ UNCHANGED <<processed, resume, hand, seen, handled, rings, snap, saved, amnesia>>
        /\ hand = {}
        /\ x \in Records
        /\ fetch' = [fetch EXCEPT ![p] = @ + 1]
    BY <1>1, <2>0 DEF Fetch, claimVars, positionVars, durableVars
  <2>2. \/ gate' = gate /\ (AlreadyProcessed(x) \/ x \notin Consumed)
        \/ gate' = gate \cup {[rec |-> x, copy |-> faults]}
    BY <1>1, <2>0 DEF Fetch, gateVars
  <2>3. \A r : InGate(r) => InGate(r)'
    BY <2>2 DEF InGate
  <2>4. x \in Consumed => Behind(x) \/ InGate(x)' \/ amnesia
    <3>1. CASE AlreadyProcessed(x)
      <4>1. x[1] = p /\ x[2] = fetch[p] + 1
        BY <2>0
      <4>2. amnesia \/ resume[p] <= processed[p]
        BY DEF PositionsInv
      <4>3. x[2] <= resume[p]
        BY <3>1, <4>1 DEF AlreadyProcessed
      <4>4. fetch[p] \in Nat /\ resume[p] \in Nat /\ processed[p] \in Nat
        BY <1>b
      <4>5. amnesia \/ x[2] <= processed[x[1]]
        BY <4>1, <4>2, <4>3, <4>4
      <4>6. QED
        BY <4>5 DEF Behind
    <3>2. CASE gate' = gate \cup {[rec |-> x, copy |-> faults]}
      <4>1. [rec |-> x, copy |-> faults] \in gate'
        BY <3>2
      <4>2. QED
        BY <4>1 DEF InGate
    <3>3. QED
      BY <2>2, <3>1, <3>2
  <2>5. ASSUME ~amnesia, NEW r \in Consumed, r[2] <= fetch'[r[1]]
        PROVE  Behind(r) \/ r \in hand \/ InGate(r)'
    <3>1. r[2] <= fetch[r[1]] \/ r = x
      <4>1. r = <<r[1], r[2]>> /\ r[1] \in Partitions /\ r[2] \in Nat
        BY <1>a
      <4>2. CASE r[1] = p
        <5>1. fetch'[p] = fetch[p] + 1 /\ fetch[p] \in Nat
          BY <1>b, <2>1
        <5>2. r[2] <= fetch[p] \/ r[2] = fetch[p] + 1
          BY <2>5, <4>1, <4>2, <5>1
        <5>3. QED
          BY <2>0, <4>1, <4>2, <5>2
      <4>3. CASE r[1] # p
        BY <1>b, <2>1, <2>5, <4>1, <4>3
      <4>4. QED
        BY <4>2, <4>3
    <3>2. QED
      BY <2>3, <2>4, <2>5, <3>1 DEF SkipInv
  <2>6. ASSUME ~amnesia, NEW i \in gate', NEW r \in Consumed, Before(r, i.rec)
        PROVE  Behind(r) \/ r \in hand \/ InGate(r)'
    <3>1. CASE i \in gate
      BY <2>3, <2>6, <3>1 DEF SkipInv
    <3>2. CASE i.rec = x
      <4>1. r[2] <= fetch[r[1]]
        BY <1>a, <1>b, <2>0, <2>6, <3>2 DEF Before
      <4>2. QED
        BY <2>3, <2>6, <4>1 DEF SkipInv
    <3>3. QED
      BY <2>2, <3>1, <3>2
  <2>7. QED
    BY <2>1, <2>5, <2>6 DEF SkipInv, Behind, Counted
<1>2. ASSUME NEW i \in gate, Fold(i) PROVE SkipInv'
  <2> DEFINE x == i.rec
  <2>1. /\ UNCHANGED <<fetch, processed, resume, snap, saved, amnesia>>
        /\ hand = {} /\ hand' = {x}
        /\ gate' = gate \ {i}
        /\ x \in Consumed
    BY <1>2, <1>b DEF Fold, positionVars, durableVars
  <2>2. /\ handled \subseteq handled'
        /\ \A r \in Records : rings[r] <= rings'[r]
    <3>1. CASE Claimed(x)
      BY <1>2, <1>b, <3>1 DEF Fold, claimVars
    <3>2. CASE ~Claimed(x)
      <4>1. rings' = IF x \in Orders THEN [rings EXCEPT ![x] = @ + 1] ELSE rings
        BY <1>2, <3>2 DEF Fold
      <4>2. handled \subseteq handled'
        BY <1>2, <3>2 DEF Fold
      <4>3. QED
        BY <1>b, <4>1, <4>2
    <3>3. QED
      BY <3>1, <3>2
  <2>3. ASSUME NEW r \in Consumed, Counted(r) PROVE Counted(r)'
    <3>1. r \in Records => rings[r] \in Nat /\ rings'[r] \in Nat
      BY <1>b DEF Types, Counts
    <3>2. QED
      BY <1>a, <2>2, <2>3, <3>1 DEF Counted
  <2>4. ~amnesia => Counted(x)'
    <3>1. CASE Claimed(x)
      BY <2>1, <2>3, <3>1 DEF Claimed, SkipInv
    <3>2. CASE ~Claimed(x)
      <4>1. rings' = IF x \in Orders THEN [rings EXCEPT ![x] = @ + 1] ELSE rings
        BY <1>2, <3>2 DEF Fold
      <4>2. x \in handled'
        BY <1>2, <3>2 DEF Fold
      <4>3. x \in Orders => rings'[x] > 0
        BY <1>a, <1>b, <2>1, <4>1
      <4>4. QED
        BY <4>2, <4>3 DEF Counted
    <3>3. QED
      BY <3>1, <3>2
  <2>5. seen' \subseteq seen \cup {x}
    BY <1>2 DEF Fold, claimVars
  <2>6. \A r : r \in hand \/ InGate(r) => r \in hand' \/ InGate(r)'
    BY <2>1 DEF InGate
  <2>7. ASSUME ~amnesia, NEW r \in Consumed, Before(r, x)
        PROVE  Behind(r) \/ Event(x).at <= Event(r).at
    <3>1. Behind(r) \/ InGate(r)
      BY <2>1, <2>7 DEF SkipInv
    <3>2. InGate(r) => Event(x).at <= Event(r).at
      BY <1>2 DEF Fold, Releasable, InGate
    <3>3. QED
      BY <3>1, <3>2
  <2>8. ASSUME NEW offs, NEW rs, Covers(offs, rs, handled)
        PROVE  Covers(offs, rs, handled')
    BY <2>2, <2>8 DEF Covers
  <2>m. ASSUME NEW offs, Covers(offs, rings, handled)
        PROVE  Covers(offs, rings', handled')
    <3>1. \A r \in Consumed : r \in handled /\ (r \in Orders => rings[r] > 0)
                              => r \in handled' /\ (r \in Orders => rings'[r] > 0)
      BY <2>3 DEF Counted
    <3>2. QED
      BY <2>m, <3>1 DEF Covers
  <2>9. /\ \A q, r \in hand' : q = r
        /\ ~amnesia => Covers(processed, rings', handled')
        /\ ~amnesia => \A r \in hand' \cup seen' : Counted(r)'
    BY <1>b, <2>1, <2>3, <2>4, <2>5, <2>m DEF SkipInv
  <2>10. /\ ~amnesia => \A r \in Consumed :
               r[2] <= fetch'[r[1]] => Behind(r)' \/ r \in hand' \/ InGate(r)'
         /\ ~amnesia => \A j \in gate' : \A r \in Consumed :
               Before(r, j.rec) => Behind(r)' \/ r \in hand' \/ InGate(r)'
    BY <2>1, <2>6 DEF SkipInv, Behind
  <2>11. ~amnesia => \A q \in hand' : \A r \in Consumed :
               Before(r, q) => Behind(r)' \/ Event(q).at <= Event(r).at
    BY <2>1, <2>7 DEF Behind
  <2>12. /\ ~amnesia /\ snap.at \in {"save", "commit"}
              => Covers(snap.offs, snap.rings, handled')
         /\ ~amnesia /\ snap.at = "rings" => Covers(snap.offs, rings', handled')
         /\ ~amnesia => Covers(saved.offs, saved.rings, handled')
    BY <2>8, <2>m DEF SkipInv
  <2>13. QED
    BY <2>1, <2>9, <2>10, <2>11, <2>12 DEF SkipInv
<1>3. ASSUME Mark PROVE SkipInv'
  <2>1. PICK x \in hand :
          /\ processed' = [processed EXCEPT ![x[1]] = Larger(@, x[2])]
          /\ hand' = {}
          /\ UNCHANGED <<fetch, gate, seen, rings, handled, snap, saved, amnesia>>
    BY <1>3 DEF Mark, gateVars, claimVars, durableVars
  <2>2. x \in Consumed /\ hand = {x}
    BY <1>b, <2>1 DEF SkipInv
  <2>3. \A r \in Consumed : Behind(r) => Behind(r)'
    BY <1>a, <1>b, <2>1, <2>2 DEF Behind, Larger
  <2>4. Behind(x)'
    BY <1>a, <1>b, <2>1, <2>2 DEF Behind, Larger
  <2>5. ~amnesia => Covers(processed', rings, handled)
    <3> SUFFICES ASSUME ~amnesia, NEW r \in Consumed, Behind(r)'
                 PROVE  Counted(r) \/ Overtaken(r, processed')
      BY DEF Covers, Behind, Counted
    <3>1. Behind(r) \/ r = x \/ Before(r, x)
      BY <1>a, <1>b, <2>1, <2>2 DEF Behind, Larger, Before
    <3>2. Behind(r) => Counted(r) \/ Overtaken(r, processed)
      BY DEF SkipInv, Covers, Behind, Counted
    <3>3. Overtaken(r, processed) => Overtaken(r, processed')
      BY <2>3 DEF Overtaken, Behind
    <3>4. r = x => Counted(r)
      BY <2>1 DEF SkipInv
    <3>5. Before(r, x) => Behind(r) \/ Overtaken(r, processed')
      BY <2>1, <2>2, <2>4 DEF SkipInv, Overtaken, Before, Behind
    <3>6. QED
      BY <3>1, <3>2, <3>3, <3>4, <3>5
  <2>6. \A r \in Consumed :
           Behind(r) \/ r \in hand \/ InGate(r) => Behind(r)' \/ InGate(r)'
    BY <2>1, <2>2, <2>3, <2>4 DEF InGate
  <2>7. QED
    BY <2>1, <2>3, <2>5, <2>6 DEF SkipInv, Counted
<1>4. CASE CopyOffsets
  <2>1. /\ UNCHANGED <<fetch, gate, hand, seen, rings, handled, processed, saved, amnesia>>
        /\ snap'.at = "rings" /\ snap'.offs = processed
    BY <1>4, <1>c DEF CopyOffsets, gateVars, claimVars, positionVars, durableVars, Idle
  <2>2. QED
    BY <2>1 DEF SkipInv, Counted, Behind, InGate
<1>5. CASE CopyRings
  <2>1. /\ UNCHANGED <<fetch, gate, hand, seen, rings, handled, processed, saved, amnesia>>
        /\ snap.at = "rings" /\ snap'.offs = snap.offs /\ snap'.rings = rings
    BY <1>5, <1>b DEF CopyRings, gateVars, claimVars, positionVars, durableVars
  <2>2. QED
    BY <2>1 DEF SkipInv, Counted, Behind, InGate
<1>6. CASE Save \/ SaveFails
  <2>1. /\ UNCHANGED <<fetch, gate, hand, seen, rings, handled, processed, amnesia>>
        /\ snap.at = "save"
        /\ \/ saved'.offs = snap.offs /\ saved'.rings = snap.rings
           \/ saved' = saved
        /\ \/ snap'.at = "idle"
           \/ snap'.at = "commit" /\ snap'.offs = snap.offs /\ snap'.rings = snap.rings
    BY <1>6, <1>b, <1>c
    DEF Save, SaveFails, Store, gateVars, claimVars, positionVars
  <2>2. QED
    BY <2>1 DEF SkipInv, Counted, Behind, InGate
<1>7. CASE Commit \/ CommitFails
  <2>1. /\ UNCHANGED <<fetch, gate, hand, seen, rings, handled, processed, saved, amnesia>>
        /\ snap'.at = "idle"
    BY <1>7, <1>c
    DEF Commit, CommitFails, gateVars, claimVars, positionVars, durableVars
  <2>2. QED
    BY <2>1 DEF SkipInv, Counted, Behind, InGate
<1>8. ASSUME NEW p \in Partitions, Reassign(p) PROVE SkipInv'
  <2>1. /\ UNCHANGED <<gate, hand, seen, rings, handled, processed, snap, saved, amnesia>>
        /\ fetch' = [fetch EXCEPT ![p] = committed[p]]
    BY <1>8 DEF Reassign, gateVars, claimVars, positionVars, durableVars
  <2>2. ~amnesia => committed[p] <= processed[p]
    BY <1>b DEF PositionsInv
  <2>3. ASSUME ~amnesia, NEW r \in Consumed, r[2] <= fetch'[r[1]]
        PROVE  Behind(r) \/ r[2] <= fetch[r[1]]
    BY <1>a, <1>b, <2>1, <2>2, <2>3 DEF Behind
  <2>4. QED
    BY <2>1, <2>3 DEF SkipInv, Counted, Behind, InGate
<1>9. ASSUME Boot PROVE SkipInv'
  <2>1. /\ UNCHANGED <<saved, committed, handled>>
        /\ fetch' = committed /\ gate' = {} /\ hand' = {} /\ seen' = {}
        /\ snap'.at = "idle"
    BY <1>9, <1>c DEF Boot, durableVars
  <2>2. ~amnesia' => processed' = saved.offs /\ rings' = saved.rings /\ ~amnesia
    BY <1>9 DEF Boot, Restored
  <2>3. ~amnesia' => \A p \in Partitions : committed[p] <= saved.offs[p]
    BY <2>2 DEF PositionsInv
  <2>4. ~amnesia' => Covers(processed', rings', handled')
    BY <2>1, <2>2 DEF SkipInv
  <2>5. ~amnesia' => \A r \in Consumed : r[2] <= fetch'[r[1]] => Behind(r)'
    BY <1>a, <1>b, <2>1, <2>2, <2>3 DEF Behind
  <2>6. QED
    BY <2>1, <2>2, <2>4, <2>5 DEF SkipInv
<1>10. CASE Shutdown \/ UNCHANGED vars
  <2>1. UNCHANGED <<fetch, gate, hand, seen, rings, handled, processed, snap, saved, amnesia>>
    BY <1>10 DEF Shutdown, vars, gateVars, claimVars, positionVars, durableVars
  <2>2. QED
    BY <2>1 DEF SkipInv, Counted, Behind, InGate
<1>11. QED
  BY <1>1, <1>2, <1>3, <1>4, <1>5, <1>6, <1>7, <1>8, <1>9, <1>10
  DEF Next, Consume, Snapshot, Crash, Exit

\* SkippedOnlyIfOvertaken: what a restart skips was claimed and its orders are in
\* the saved rings, wherever the snapshot, the gate, a reassignment and a crash cut
\* into each other, and for records in any order: only a record that a later one of
\* its partition passed in the gate can be lost (markProcessed, SnapshotState,
\* restoreFrom).
THEOREM OnlyOvertakenSkipped == Spec => []SkippedOnlyIfOvertaken
<1>1. SkipInv => SkippedOnlyIfOvertaken
  BY DEF SkipInv, SkippedOnlyIfOvertaken, Covers
<1>2. Types /\ Types' /\ PositionsInv /\ SkipInv /\ [Next]_vars => SkipInv'
  BY SkipStep
<1>3. Spec => [](Types /\ PositionsInv)
  BY TypesAlways, PositionsInit, PositionsStep, PTL DEF Spec
<1>4. QED
  BY SkipInit, <1>1, <1>2, <1>3, PTL DEF Spec

----------------------------------------------------------------------------
(* Nothing counts twice that was not exposed                               *)

\* What a restart would put in the rings, and skip.
Sound(offs, rs) ==
    \A r \in Orders \ exposed : rs[r] <= 1 /\ (rs[r] > 0 => r[2] <= offs[r[1]])

\* An order that counts is claimed in this loop or lies below the restored
\* position, and neither comes out of the gate to count once more.
TwiceInv ==
    /\ \A r \in Orders \ exposed :
          rings[r] <= 1 /\ (rings[r] > 0 => r \in seen \/ AlreadyProcessed(r))
    /\ \A r \in seen : Event(r).loop = curLoop
    /\ \A i \in gate : ~AlreadyProcessed(i.rec)
    /\ snap.at \in {"save", "commit"} => Sound(snap.offs, snap.rings)
    /\ Sound(saved.offs, saved.rings)

LEMMA TwiceInit == Init => TwiceInv
<1>1. \A r \in Orders : NoRings[r] = 0
  BY RecordFacts DEF NoRings
<1>2. QED
  BY <1>1 DEF Init, TwiceInv, Sound, Idle

LEMMA TwiceStep == Types /\ TwiceInv /\ [Next]_vars => TwiceInv'
<1> SUFFICES ASSUME Types, TwiceInv, [Next]_vars PROVE TwiceInv'
  OBVIOUS
<1>a. Orders \subseteq Records
  BY RecordFacts
<1>b. /\ rings \in [Records -> Nat]
      /\ snap \in [at : {"idle", "rings", "save", "commit"}, offs : Positions, rings : Counts]
  BY DEF Types, Counts
<1>c. Idle.at = "idle"
  BY DEF Idle
<1>d. \A r \in Orders : NoRings[r] = 0
  BY <1>a DEF NoRings
<1>1. ASSUME NEW p \in Partitions, Fetch(p) PROVE TwiceInv'
  <2>1. UNCHANGED <<seen, curLoop, rings, resume, snap, saved, exposed>>
    BY <1>1 DEF Fetch, claimVars, positionVars, durableVars
  <2>2. \A i \in gate' : ~AlreadyProcessed(i.rec)
    BY <1>1 DEF Fetch, gateVars, TwiceInv
  <2>3. QED
    BY <2>1, <2>2 DEF TwiceInv, Sound, AlreadyProcessed
<1>2. ASSUME NEW i \in gate, Fold(i) PROVE TwiceInv'
  <2>0. PICK x : x = i.rec
    OBVIOUS
  <2>1. /\ UNCHANGED <<resume, snap, saved>>
        /\ gate' \subseteq gate
        /\ ~AlreadyProcessed(x)
    BY <1>2, <2>0 DEF Fold, positionVars, durableVars, TwiceInv
  <2>2. exposed \subseteq exposed'
    BY <1>2 DEF Fold
  <2>3. /\ \A j \in gate' : ~AlreadyProcessed(j.rec)'
        /\ (snap.at \in {"save", "commit"} => Sound(snap.offs, snap.rings))'
        /\ Sound(saved.offs, saved.rings)'
    BY <2>1, <2>2 DEF TwiceInv, Sound, AlreadyProcessed
  <2>4. CASE Claimed(x)
    <3>1. UNCHANGED <<seen, curLoop, rings, exposed>>
      BY <1>2, <2>0, <2>4 DEF Fold, claimVars
    <3>2. QED
      BY <2>1, <2>3, <3>1 DEF TwiceInv, AlreadyProcessed
  <2>5. CASE ~Claimed(x)
    <3>1. /\ seen' = IF Event(x).loop = curLoop THEN seen \cup {x} ELSE {x}
          /\ curLoop' = Event(x).loop
          /\ exposed' = IF Event(x).loop = curLoop THEN exposed ELSE exposed \cup seen
      BY <1>2, <2>0, <2>5 DEF Fold
    <3>2. rings' = IF x \in Orders THEN [rings EXCEPT ![x] = @ + 1] ELSE rings
      BY <1>2, <2>0, <2>5 DEF Fold
    <3>3. \A r \in seen' : Event(r).loop = curLoop'
      BY <3>1 DEF TwiceInv
    <3>4. ASSUME NEW r \in Orders \ exposed'
          PROVE  rings'[r] <= 1 /\ (rings'[r] > 0 => r \in seen' \/ AlreadyProcessed(r))
      <4>1. r \in Records /\ r \in Orders \ exposed
        BY <1>a, <2>2, <3>4
      <4>2. rings[r] \in Nat /\ rings[r] <= 1
        BY <1>b, <4>1 DEF TwiceInv
      <4>3. rings[r] > 0 => r \in seen \/ AlreadyProcessed(r)
        BY <4>1 DEF TwiceInv
      <4>4. CASE r = x
        <5>1. x \notin seen
          BY <2>5 DEF Claimed, TwiceInv
        <5>2. rings[r] = 0
          BY <2>1, <4>2, <4>3, <4>4, <5>1
        <5>3. rings'[r] = 1 /\ r \in seen'
          BY <1>b, <3>1, <3>2, <4>1, <4>4, <5>2
        <5>4. QED
          BY <5>3
      <4>5. CASE r # x
        <5>1. rings'[r] = rings[r]
          BY <1>b, <3>2, <4>1, <4>5
        <5>2. r \in seen => r \in seen'
          BY <3>1, <3>4
        <5>3. QED
          BY <4>2, <4>3, <5>1, <5>2
      <4>6. QED
        BY <4>4, <4>5
    <3>5. QED
      BY <2>1, <2>3, <3>3, <3>4 DEF TwiceInv, AlreadyProcessed
  <2>6. QED
    BY <2>4, <2>5
<1>3. ASSUME CopyRings PROVE TwiceInv'
  <2>1. /\ snap'.offs = snap.offs /\ snap'.rings = rings
        /\ UNCHANGED <<gate, seen, curLoop, rings, resume, saved>>
        /\ exposed' = exposed \cup Torn
    BY <1>3, <1>b DEF CopyRings, gateVars, claimVars, positionVars, durableVars
  <2>2. Sound(snap.offs, snap.rings)'
    <3>1. \A r \in Orders : r[2] \in Nat /\ snap.offs[r[1]] \in Nat
      BY <1>a, <1>b, RecordFacts DEF Positions
    <3>2. QED
      BY <2>1, <3>1 DEF TwiceInv, Sound, Torn
  <2>3. QED
    BY <2>1, <2>2 DEF TwiceInv, Sound, AlreadyProcessed
<1>4. ASSUME Save \/ SaveFails PROVE TwiceInv'
  <2>1. /\ UNCHANGED <<gate, seen, curLoop, rings, resume, exposed>>
        /\ snap.at = "save" /\ (Store \/ UNCHANGED saved)
    BY <1>4 DEF Save, SaveFails, gateVars, claimVars, positionVars
  <2>2. Sound(saved.offs, saved.rings)'
    BY <2>1 DEF TwiceInv, Sound, Store
  <2>3. snap'.at = "idle" \/ (snap'.offs = snap.offs /\ snap'.rings = snap.rings)
    BY <1>4, <1>b, <1>c DEF Save, SaveFails
  <2>4. (snap.at \in {"save", "commit"} => Sound(snap.offs, snap.rings))'
    BY <2>1, <2>3 DEF TwiceInv, Sound
  <2>5. QED
    BY <2>1, <2>2, <2>4 DEF TwiceInv, AlreadyProcessed
<1>5. ASSUME CopyOffsets \/ Commit \/ CommitFails PROVE TwiceInv'
  <2>1. UNCHANGED <<gate, seen, curLoop, rings, resume, exposed, saved>>
    BY <1>5
    DEF CopyOffsets, Commit, CommitFails, gateVars, claimVars, positionVars, durableVars
  <2>2. snap'.at \in {"idle", "rings"}
    BY <1>5, <1>c DEF CopyOffsets, Commit, CommitFails, Idle
  <2>3. QED
    BY <2>1, <2>2 DEF TwiceInv, Sound, AlreadyProcessed
<1>6. ASSUME Boot PROVE TwiceInv'
  <2>1. /\ gate' = {} /\ seen' = {} /\ snap'.at = "idle"
        /\ UNCHANGED <<saved, exposed>>
    BY <1>6, <1>c DEF Boot, durableVars
  <2>2. \/ rings' = saved.rings /\ resume' = saved.offs
        \/ rings' = NoRings
    BY <1>6 DEF Boot, Restored
  <2>3. QED
    BY <1>d, <2>1, <2>2 DEF TwiceInv, Sound, AlreadyProcessed
<1>7. CASE \/ Mark \/ Shutdown \/ UNCHANGED vars
           \/ \E p \in Partitions : Reassign(p)
  <2>1. UNCHANGED <<gate, seen, curLoop, rings, resume, exposed, snap, saved>>
    BY <1>7
    DEF Mark, Shutdown, Reassign, vars, gateVars, claimVars, positionVars, durableVars
  <2>2. QED
    BY <2>1 DEF TwiceInv, Sound, AlreadyProcessed
<1>8. QED
  BY <1>1, <1>2, <1>3, <1>4, <1>5, <1>6, <1>7 DEF Next, Consume, Snapshot, Crash, Exit

\* TwiceOnlyIfExposed: redelivery, reassignment, lost commits, crashes and failed
\* restores never make an order count twice of their own; it takes a torn
\* snapshot or the claims forgotten at a loop's end (claim, alreadyProcessed).
THEOREM ExposedOrOnce == Spec => []TwiceOnlyIfExposed
<1>1. TwiceInv => TwiceOnlyIfExposed
  BY DEF TwiceInv, TwiceOnlyIfExposed
<1>2. QED
  BY TypesAlways, TwiceInit, TwiceStep, <1>1, PTL DEF Spec
=============================================================================
