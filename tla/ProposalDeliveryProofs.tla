----------------------- MODULE ProposalDeliveryProofs -----------------------
(***************************************************************************)
(* What the reconciler's cursor guarantees for every set of predictions,   *)
(* producers, bus capacity and batch size.                                 *)
(***************************************************************************)
EXTENDS ProposalDelivery, TLAPS

\* What the proofs need of the types.
Typed ==
    /\ stored \in [Triggers -> {"none", "inserting", "hot", "archived"}]
    /\ id \in [Triggers -> Nat]
    /\ lastId \in Nat
    /\ \A t \in Triggers : id[t] <= lastId
    /\ cursor \in Nat /\ cursor <= lastId
    /\ pass \in [on : BOOLEAN, rows : SUBSET Triggers, upto : Nat,
                 gaps : SUBSET Triggers, failed : BOOLEAN]
    /\ pass.upto <= lastId

\* Every row up to the persisted cursor was put to the queue, or missed.
Covered ==
    \A t \in Triggers : id[t] <= cursor =>
        /\ Persisted(t) => t \in considered \cup overtaken
        /\ stored[t] = "inserting" => t \in overtaken

\* A pass that may advance the cursor still holds the others up to its end.
PassCovers ==
    pass.on /\ ~pass.failed => \A t \in Triggers : id[t] <= pass.upto =>
        /\ Persisted(t) => t \in considered \cup overtaken \cup pass.rows \cup pass.gaps
        /\ stored[t] = "inserting" => t \in overtaken \cup pass.gaps

\* The cursor never goes back, and retention stays below it.
CursorAdvances ==
    /\ pass.on => cursor <= pass.upto
    /\ \A t \in Triggers : stored[t] = "archived" => id[t] <= cursor

CursorInv == Covered /\ PassCovers /\ CursorAdvances

LEMMA TypedInit == Init => Typed
BY DEF Init, Typed, NoPass

LEMMA CursorInit == Init => CursorInv
BY DEF Init, CursorInv, Covered, PassCovers, CursorAdvances, Persisted, NoPass

\* The steps that leave the reconciler and the rows alone only add to what was
\* considered.
LEMMA QueueStep ==
    ASSUME Typed, CursorInv,
           UNCHANGED <<stored, id, lastId, cursor, pass, overtaken>>,
           considered \subseteq considered'
    PROVE  Typed' /\ CursorInv'
<1>1. Typed'
  BY DEF Typed
<1>2. CursorInv'
  BY DEF CursorInv, Covered, PassCovers, CursorAdvances, Persisted
<1>3. QED
  BY <1>1, <1>2

LEMMA HandleGrows ==
    ASSUME NEW t \in Triggers, HandleOk(t) \/ HandleError(t)
    PROVE  considered \subseteq considered' /\ (HandleOk(t) => t \in considered')
BY DEF HandleOk, HandleError, ProposeNothing, ProposeNew, ProposeFails,
       ProposeAutoFails

LEMMA CursorStep ==
    Typed /\ CursorInv /\ [Next]_vars => Typed' /\ CursorInv'
<1> SUFFICES ASSUME Typed, CursorInv, [Next]_vars PROVE Typed' /\ CursorInv'
  OBVIOUS
<1> USE DEF producerVars, engineVars, historyVars, Persisted,
            Covered, PassCovers, CursorAdvances
<1>1. ASSUME NEW t \in Triggers, Insert(t)
      PROVE  Typed' /\ CursorInv'
  <2>1. /\ stored' = [stored EXCEPT ![t] = "inserting"]
        /\ id' = [id EXCEPT ![t] = lastId + 1] /\ lastId' = lastId + 1
        /\ UNCHANGED <<cursor, pass, considered, overtaken>>
    BY <1>1 DEF Insert
  <2>2. Typed'
    BY <2>1 DEF Typed
  <2>3. pass.upto \in Nat
    BY DEF Typed
  <2>4. \A s \in Triggers : s # t => stored'[s] = stored[s] /\ id'[s] = id[s]
    BY <2>1 DEF Typed
  <2>5. stored'[t] = "inserting" /\ id'[t] > cursor /\ id'[t] > pass.upto
    BY <2>1, <2>3 DEF Typed
  <2>6. QED
    BY <2>1, <2>2, <2>3, <2>4, <2>5 DEF Typed, CursorInv
<1> DEFINE Stores(t) ==
              /\ stored[t] = "inserting" /\ stored' = [stored EXCEPT ![t] = "hot"]
              /\ UNCHANGED <<id, lastId, cursor, pass, considered, overtaken>>
           Loses(t) ==
              /\ stored' = [stored EXCEPT ![t] = "none"] /\ id' = [id EXCEPT ![t] = 0]
              /\ UNCHANGED <<lastId, cursor, pass, considered, overtaken>>
<1>2. ASSUME NEW t \in Triggers, Stores(t)
      PROVE  Typed' /\ CursorInv'
  <2>1. Typed'
    BY <1>2 DEF Typed
  <2>2. CursorInv'
    BY <1>2 DEF Typed, CursorInv
  <2>3. QED
    BY <2>1, <2>2
<1>3. ASSUME NEW t \in Triggers, InsertCommit(t) \/ InsertFail(t)
      PROVE  Typed' /\ CursorInv'
  <2>1. Stores(t) \/ Loses(t)
    BY <1>3 DEF InsertCommit, InsertFail
  <2>2. ASSUME Loses(t)
        PROVE  Typed' /\ CursorInv'
    <3>1. Typed'
      BY <2>2 DEF Typed
    <3>2. CursorInv'
      BY <2>2 DEF Typed, CursorInv
    <3>3. QED
      BY <3>1, <3>2
  <2>3. QED
    BY <1>2, <2>1, <2>2
<1>4. ASSUME NEW t \in Triggers, Archive(t)
      PROVE  Typed' /\ CursorInv'
  <2>1. /\ stored[t] = "hot" /\ stored' = [stored EXCEPT ![t] = "archived"]
        /\ id[t] <= cursor
        /\ UNCHANGED <<id, lastId, cursor, pass, considered, overtaken>>
    BY <1>4 DEF Archive
  <2>2. Typed'
    BY <2>1 DEF Typed
  <2>3. CursorInv'
    BY <2>1 DEF Typed, CursorInv
  <2>4. QED
    BY <2>2, <2>3
<1>5. ASSUME NEW p \in Producers, Publish(p)
      PROVE  Typed' /\ CursorInv'
  BY <1>5, QueueStep DEF Publish
<1>6. CASE LiveReceive
  BY <1>6, QueueStep DEF LiveReceive
<1>7. CASE LiveHandle
  BY <1>7, QueueStep
  DEF LiveHandle, HandleOk, HandleError, ProposeNothing, ProposeNew,
      ProposeFails, ProposeAutoFails
<1>8. CASE PassStart
  <2>1. PICK rows \in SUBSET Unseen, upto \in {cursor} \cup {id[t] : t \in Unseen} :
          /\ Batch(rows)
          /\ \A t \in rows : id[t] <= upto
          /\ upto \in {cursor} \cup {id[t] : t \in rows}
          /\ pass' = [on |-> TRUE, rows |-> rows, upto |-> upto, failed |-> FALSE,
                      gaps |-> {t \in Triggers : stored[t] = "inserting" /\ id[t] <= upto}]
    BY <1>8 DEF PassStart
  <2>2. UNCHANGED <<stored, id, lastId, cursor, considered, overtaken>>
    BY <1>8 DEF PassStart
  <2>3. upto \in Nat /\ upto <= lastId
    BY DEF Typed, Unseen
  <2>4. Typed'
    BY <2>1, <2>2, <2>3 DEF Typed, Unseen
  <2>5. ASSUME NEW t \in Triggers, stored[t] = "hot", id[t] <= upto, id[t] > cursor
        PROVE  t \in rows
    BY <2>1, <2>3, <2>5 DEF Batch, Unseen, Typed
  <2>6. ASSUME NEW t \in Triggers, Persisted(t), id[t] <= upto
        PROVE  t \in considered \cup overtaken \cup rows
    <3>1. CASE id[t] <= cursor
      BY <2>6, <3>1 DEF CursorInv
    <3>2. CASE id[t] > cursor
      BY <2>3, <2>5, <2>6, <3>2 DEF CursorInv, Typed
    <3>3. QED
      BY <2>3, <3>1, <3>2 DEF Typed
  <2>7. /\ pass'.rows = rows /\ pass'.upto = upto /\ cursor <= upto
        /\ \A t \in Triggers : stored[t] = "inserting" /\ id[t] <= upto => t \in pass'.gaps
    BY <2>1, <2>3 DEF Typed, Unseen
  <2>8. QED
    BY <2>2, <2>4, <2>6, <2>7 DEF CursorInv
<1>9. CASE PassHandle
  <2>1. PICK t \in pass.rows :
          /\ \/ HandleOk(t) /\ pass' = [pass EXCEPT !.rows = @ \ {t}]
             \/ HandleError(t) /\ pass' = [pass EXCEPT !.rows = @ \ {t}, !.failed = TRUE]
          /\ UNCHANGED <<stored, id, lastId, cursor, overtaken>>
    BY <1>9 DEF PassHandle
  <2>2. t \in Triggers
    BY DEF Typed
  <2>3. considered \subseteq considered' /\ (HandleOk(t) => t \in considered')
    BY <2>1, <2>2, HandleGrows
  <2>4. Typed'
    BY <2>1 DEF Typed
  <2>a. /\ pass'.upto = pass.upto /\ pass'.gaps = pass.gaps
        /\ pass'.on = pass.on
    <3>1. CASE pass' = [pass EXCEPT !.rows = @ \ {t}]
      BY <3>1 DEF Typed
    <3>2. CASE pass' = [pass EXCEPT !.rows = @ \ {t}, !.failed = TRUE]
      BY <3>2 DEF Typed
    <3>3. QED
      BY <2>1, <3>1, <3>2
  <2>b. Covered'
    BY <2>1, <2>3 DEF CursorInv
  <2>5. Covered' /\ CursorAdvances'
    BY <2>1, <2>a, <2>b DEF CursorInv
  <2>6. CASE HandleOk(t) /\ pass' = [pass EXCEPT !.rows = @ \ {t}]
    <3>1. pass'.rows = pass.rows \ {t} /\ pass'.on = pass.on /\ pass'.failed = pass.failed
      BY <2>6 DEF Typed
    <3>2. QED
      BY <2>1, <2>3, <2>4, <2>5, <2>6, <2>a, <3>1 DEF CursorInv
  <2>7. CASE pass' = [pass EXCEPT !.rows = @ \ {t}, !.failed = TRUE]
    <3>1. pass'.failed
      BY <2>7 DEF Typed
    <3>2. QED
      BY <2>4, <2>5, <3>1 DEF CursorInv
  <2>8. QED
    BY <2>1, <2>6, <2>7
<1>10. CASE PassEnd
  <2>1. /\ pass.on /\ pass.rows = {} /\ pass' = NoPass
        /\ IF pass.failed
           THEN UNCHANGED <<cursor, overtaken>>
           ELSE cursor' = pass.upto /\ overtaken' = overtaken \cup pass.gaps
        /\ UNCHANGED <<stored, id, lastId, considered>>
    BY <1>10 DEF PassEnd
  <2>2. Typed'
    BY <2>1 DEF Typed, NoPass
  <2>3. CASE pass.failed
    BY <2>1, <2>2, <2>3 DEF CursorInv, NoPass
  <2>4. CASE ~pass.failed
    <3>1. /\ cursor' = pass.upto /\ overtaken' = overtaken \cup pass.gaps
          /\ pass'.on = FALSE
      BY <2>1, <2>4 DEF NoPass
    <3>2. Covered'
      BY <2>1, <2>4, <3>1 DEF CursorInv
    <3>3. \A t \in Triggers : stored[t] = "archived" => id[t] <= pass.upto
      <4>1. /\ cursor \in Nat /\ pass.upto \in Nat /\ cursor <= pass.upto
            /\ \A t \in Triggers : id[t] \in Nat
        BY <2>1 DEF Typed, CursorInv
      <4>2. QED
        BY <4>1 DEF CursorInv
    <3>4. QED
      BY <2>1, <2>2, <3>1, <3>2, <3>3 DEF CursorInv
  <2>5. QED
    BY <2>3, <2>4
<1>11. CASE PassWriteFails
  <2>1. pass' = NoPass /\ UNCHANGED <<stored, id, lastId, cursor, considered, overtaken>>
    BY <1>11 DEF PassWriteFails
  <2>2. Typed'
    BY <2>1 DEF Typed, NoPass
  <2>3. QED
    BY <2>1, <2>2 DEF CursorInv, NoPass
<1>12. ASSUME NEW k \in Keys, Decide(k)
       PROVE  Typed' /\ CursorInv'
  BY <1>12, QueueStep DEF Decide
<1>13. CASE Restart
  <2>1. /\ \A t \in Triggers :
             /\ stored[t] # "inserting" => stored'[t] = stored[t] /\ id'[t] \in {id[t], 0}
             /\ stored[t] = "inserting" =>
                   stored'[t] \in {"hot", "none"} /\ id'[t] \in {id[t], 0}
             /\ stored'[t] # "none" => id'[t] = id[t]
        /\ stored' \in [Triggers -> {"none", "inserting", "hot", "archived"}]
        /\ id' \in [Triggers -> Nat]
        /\ pass' = NoPass /\ UNCHANGED <<lastId, cursor, considered, overtaken>>
    BY <1>13 DEF Restart, Typed
  <2>2. Typed'
    BY <2>1 DEF Typed, NoPass
  <2>3. Covered' /\ CursorAdvances'
    BY <2>1 DEF Typed, CursorInv, NoPass
  <2>4. QED
    BY <2>1, <2>2, <2>3 DEF CursorInv, NoPass
<1>14. CASE UNCHANGED vars
  BY <1>14, QueueStep DEF vars
<1>15. QED
  BY <1>1, <1>2, <1>3, <1>4, <1>5, <1>6, <1>7, <1>8, <1>9, <1>10, <1>11,
     <1>12, <1>13, <1>14 DEF Next, Reconcile

\* Whatever the bus drops and however often the process restarts, a prediction
\* below the cursor was put to the queue, or its insert was overtaken.
THEOREM CursorIsSafe == Spec => []CursorCovers
<1>1. CursorInv => CursorCovers
  BY DEF CursorInv, Covered, CursorCovers
<1>2. QED
  BY <1>1, TypedInit, CursorInit, CursorStep, PTL DEF Spec

----------------------------------------------------------------------------
(* Types of the rest of the state                                          *)

MoreTypes ==
    /\ \A t \in Triggers : id[t] = 0 <=> stored[t] = "none"
    /\ fresh \in [Producers -> Seq(Triggers)]
    /\ bus \in Seq(Triggers) /\ Len(bus) <= SubBuffer
    /\ live \in Triggers \cup {None}
    /\ queue \in [Keys -> QueueStatuses]
    /\ considered \subseteq Triggers
    /\ overtaken \subseteq Triggers
    /\ faults \in 0 .. MaxFaults

LEMMA TypesInit == Init => MoreTypes
BY DeliveryAssumption DEF Init, MoreTypes, QueueStatuses

LEMMA FaultsBounded ==
    ASSUME faults \in 0 .. MaxFaults, Fault \/ UNCHANGED faults
    PROVE  faults' \in 0 .. MaxFaults
BY DeliveryAssumption DEF Fault

\* What Handle does to the queue, for whichever caller.
LEMMA HandleTypes ==
    ASSUME MoreTypes, NEW t \in Triggers, HandleOk(t) \/ HandleError(t)
    PROVE  /\ queue' \in [Keys -> QueueStatuses] /\ considered' \subseteq Triggers
           /\ faults' \in 0 .. MaxFaults
           /\ \A k \in Keys : k # Key[t] => queue'[k] = queue[k]
<1>1. Key[t] \in Keys
  BY DEF Keys
<1>2. Fault \/ UNCHANGED faults
  BY DEF HandleOk, HandleError, ProposeNothing, ProposeNew, ProposeFails, ProposeAutoFails
<1>3. considered' \subseteq Triggers
  BY DEF MoreTypes, HandleOk, HandleError, ProposeNothing, ProposeNew, ProposeFails,
     ProposeAutoFails
<1>4. UNCHANGED queue \/ \E st \in QueueStatuses : queue' = [queue EXCEPT ![Key[t]] = st]
  BY DEF HandleOk, HandleError, ProposeNothing, ProposeNew, ProposeFails, ProposeAutoFails,
     QueueStatuses
<1>5. /\ queue' \in [Keys -> QueueStatuses]
      /\ \A k \in Keys : k # Key[t] => queue'[k] = queue[k]
  BY <1>1, <1>4 DEF MoreTypes
<1>6. QED
  BY <1>2, <1>3, <1>5, FaultsBounded DEF MoreTypes

LEMMA TypesStep ==
    ASSUME Typed, MoreTypes, [Next]_vars
    PROVE  MoreTypes'
<1> USE DEF producerVars, engineVars, historyVars
<1>0. /\ \A t \in Triggers : id[t] = 0 <=> stored[t] = "none"
      /\ fresh \in [Producers -> Seq(Triggers)]
      /\ bus \in Seq(Triggers) /\ Len(bus) <= SubBuffer
      /\ live \in Triggers \cup {None} /\ queue \in [Keys -> QueueStatuses]
      /\ considered \subseteq Triggers /\ overtaken \subseteq Triggers
      /\ faults \in 0 .. MaxFaults
      /\ stored \in [Triggers -> {"none", "inserting", "hot", "archived"}]
      /\ id \in [Triggers -> Nat] /\ lastId \in Nat
      /\ Maker \in [Triggers -> Producers]
  BY DeliveryAssumption DEF Typed, MoreTypes
<1>1. ASSUME NEW t \in Triggers, Insert(t)
      PROVE  MoreTypes'
  <2>1. /\ stored' = [stored EXCEPT ![t] = "inserting"]
        /\ id' = [id EXCEPT ![t] = lastId + 1]
        /\ UNCHANGED <<fresh, bus, live, queue, considered, overtaken, faults>>
    BY <1>1 DEF Insert
  <2>2. lastId + 1 # 0
    BY <1>0
  <2>3. \A s \in Triggers : id'[s] = 0 <=> stored'[s] = "none"
    BY <1>0, <2>1, <2>2
  <2>4. QED
    BY <1>0, <2>1, <2>3 DEF MoreTypes
<1>2. ASSUME NEW t \in Triggers, InsertCommit(t)
      PROVE  MoreTypes'
  <2>1. /\ stored[t] = "inserting" /\ stored' = [stored EXCEPT ![t] = "hot"]
        /\ fresh' = [fresh EXCEPT ![Maker[t]] = Append(@, t)]
        /\ UNCHANGED <<id, bus, live, queue, considered, overtaken, faults>>
    BY <1>2 DEF InsertCommit
  <2>2. Maker[t] \in Producers /\ Append(fresh[Maker[t]], t) \in Seq(Triggers)
    BY <1>0
  <2>3. fresh' \in [Producers -> Seq(Triggers)]
    BY <1>0, <2>1, <2>2
  <2>4. \A s \in Triggers : id'[s] = 0 <=> stored'[s] = "none"
    BY <1>0, <2>1
  <2>5. QED
    BY <1>0, <2>1, <2>3, <2>4 DEF MoreTypes
<1>3. ASSUME NEW t \in Triggers, InsertFail(t)
      PROVE  MoreTypes'
  <2>1. /\ stored[t] = "inserting" /\ Fault
        /\ \/ stored' = [stored EXCEPT ![t] = "none"] /\ id' = [id EXCEPT ![t] = 0]
           \/ stored' = [stored EXCEPT ![t] = "hot"] /\ UNCHANGED id
        /\ fresh' = [fresh EXCEPT ![Maker[t]] = <<>>]
        /\ UNCHANGED <<bus, live, queue, considered, overtaken>>
    BY <1>3 DEF InsertFail
  <2>2. <<>> \in Seq(Triggers)
    OBVIOUS
  <2>3. fresh' \in [Producers -> Seq(Triggers)]
    BY <1>0, <2>1, <2>2
  <2>4. \A s \in Triggers : id'[s] = 0 <=> stored'[s] = "none"
    BY <1>0, <2>1
  <2>5. QED
    BY <1>0, <2>1, <2>3, <2>4, FaultsBounded DEF MoreTypes
<1>4. ASSUME NEW t \in Triggers, Archive(t)
      PROVE  MoreTypes'
  <2>1. /\ stored[t] = "hot" /\ stored' = [stored EXCEPT ![t] = "archived"]
        /\ UNCHANGED <<id, fresh, bus, live, queue, considered, overtaken, faults>>
    BY <1>4 DEF Archive
  <2>2. \A s \in Triggers : id'[s] = 0 <=> stored'[s] = "none"
    BY <1>0, <2>1
  <2>3. QED
    BY <1>0, <2>1, <2>2 DEF MoreTypes
<1>5. ASSUME NEW p \in Producers, Publish(p)
      PROVE  MoreTypes'
  <2>1. /\ fresh[p] # <<>> /\ fresh' = [fresh EXCEPT ![p] = Tail(@)]
        /\ bus' = IF Len(bus) < SubBuffer THEN Append(bus, Head(fresh[p])) ELSE bus
        /\ UNCHANGED <<stored, id, live, queue, considered, overtaken, faults>>
    BY <1>5 DEF Publish
  <2>2. Head(fresh[p]) \in Triggers /\ Tail(fresh[p]) \in Seq(Triggers)
    BY <1>0, <2>1
  <2>3. fresh' \in [Producers -> Seq(Triggers)]
    BY <1>0, <2>1, <2>2
  <2>4. bus' \in Seq(Triggers) /\ Len(bus') <= SubBuffer
    <3>1. /\ Append(bus, Head(fresh[p])) \in Seq(Triggers)
          /\ Len(Append(bus, Head(fresh[p]))) = Len(bus) + 1 /\ Len(bus) \in Nat
      BY <1>0, <2>2
    <3>2. QED
      BY <1>0, <2>1, <3>1, DeliveryAssumption
  <2>5. QED
    BY <1>0, <2>1, <2>3, <2>4 DEF MoreTypes
<1>6. CASE LiveReceive
  <2>1. /\ bus # <<>> /\ live' = Head(bus) /\ bus' = Tail(bus)
        /\ UNCHANGED <<stored, id, fresh, queue, considered, overtaken, faults>>
    BY <1>6 DEF LiveReceive
  <2>2. /\ Head(bus) \in Triggers /\ Tail(bus) \in Seq(Triggers)
        /\ Len(Tail(bus)) <= SubBuffer
    BY <1>0, <2>1, DeliveryAssumption
  <2>3. QED
    BY <1>0, <2>1, <2>2 DEF MoreTypes
<1>7. CASE LiveHandle
  <2>1. PICK t \in Triggers : t = live
    BY <1>0, <1>7 DEF LiveHandle
  <2>2. HandleOk(t) \/ HandleError(t)
    BY <1>7, <2>1 DEF LiveHandle
  <2>3. live' = None /\ UNCHANGED <<stored, id, fresh, bus, overtaken>>
    BY <1>7 DEF LiveHandle
  <2>4. /\ queue' \in [Keys -> QueueStatuses] /\ considered' \subseteq Triggers
        /\ faults' \in 0 .. MaxFaults
    BY <2>2, HandleTypes
  <2>5. QED
    BY <1>0, <2>3, <2>4 DEF MoreTypes
<1>8. CASE PassStart \/ PassEnd \/ PassWriteFails
  <2>1. UNCHANGED <<stored, id, fresh, bus, live, queue, considered>>
    BY <1>8 DEF PassStart, PassEnd, PassWriteFails
  <2>2. overtaken' \subseteq Triggers
    BY <1>0, <1>8 DEF PassStart, PassEnd, PassWriteFails, Typed
  <2>3. faults' \in 0 .. MaxFaults
    BY <1>0, <1>8, FaultsBounded DEF PassStart, PassEnd, PassWriteFails
  <2>4. QED
    BY <1>0, <2>1, <2>2, <2>3 DEF MoreTypes
<1>9. CASE PassHandle
  <2>1. PICK t \in pass.rows : HandleOk(t) \/ HandleError(t)
    BY <1>9 DEF PassHandle
  <2>2. t \in Triggers
    BY <2>1 DEF Typed
  <2>3. UNCHANGED <<stored, id, fresh, bus, live, overtaken>>
    BY <1>9 DEF PassHandle
  <2>4. /\ queue' \in [Keys -> QueueStatuses] /\ considered' \subseteq Triggers
        /\ faults' \in 0 .. MaxFaults
    BY <2>1, <2>2, HandleTypes
  <2>5. QED
    BY <1>0, <2>3, <2>4 DEF MoreTypes
<1>10. ASSUME NEW k \in Keys, Decide(k)
       PROVE  MoreTypes'
  <2>1. PICK st \in QueueStatuses : queue' = [queue EXCEPT ![k] = st]
    BY <1>10 DEF Decide
  <2>2. UNCHANGED <<stored, id, fresh, bus, live, considered, overtaken, faults>>
    BY <1>10 DEF Decide
  <2>3. queue' \in [Keys -> QueueStatuses]
    BY <1>0, <2>1
  <2>4. QED
    BY <1>0, <2>2, <2>3 DEF MoreTypes
<1>11. CASE Restart
  <2>1. /\ Fault /\ fresh' = [p \in Producers |-> <<>>] /\ bus' = <<>> /\ live' = None
        /\ UNCHANGED <<queue, considered, overtaken>>
    BY <1>11 DEF Restart
  <2>2. \A t \in Triggers :
            /\ stored[t] = "none" => stored'[t] = "none"
            /\ id'[t] = IF stored'[t] = "none" THEN 0 ELSE id[t]
    BY <1>11 DEF Restart
  <2>3. \A t \in Triggers : id'[t] = 0 <=> stored'[t] = "none"
    BY <1>0, <2>2
  <2>4. /\ bus' \in Seq(Triggers) /\ Len(bus') = 0
        /\ fresh' \in [Producers -> Seq(Triggers)]
    BY <2>1
  <2>5. QED
    BY <1>0, <2>1, <2>3, <2>4, FaultsBounded, DeliveryAssumption DEF MoreTypes
<1>12. CASE UNCHANGED vars
  BY <1>12 DEF vars, MoreTypes
<1>13. QED
  BY <1>1, <1>2, <1>3, <1>4, <1>5, <1>6, <1>7, <1>8, <1>9, <1>10, <1>11, <1>12
  DEF Next, Reconcile

\* Predictions, events, queue and cursor stay in their types, for any set of
\* predictions and producers: a row has an id exactly when it has been inserted.
THEOREM TypeCorrect == Spec => []TypeOK
<1>1. Typed /\ MoreTypes => TypeOK
  BY DEF Typed, MoreTypes, TypeOK
<1>2. Init => Typed /\ CursorInv /\ MoreTypes
  BY TypedInit, CursorInit, TypesInit
<1>3. Typed /\ CursorInv /\ MoreTypes /\ [Next]_vars => (Typed /\ CursorInv /\ MoreTypes)'
  BY CursorStep, TypesStep
<1>4. QED
  BY <1>1, <1>2, <1>3, PTL DEF Spec

----------------------------------------------------------------------------
(* Retention                                                                *)

\* An archived row is out of every channel, and so is never proposed again; a
\* pass holds none, since it works above the cursor and retention below.
ArchivedAlone ==
    \A t \in Triggers : stored[t] = "archived" =>
        Maker[t] \in HotWindow /\ Aged(t) /\ queue[Key[t]] # "pending"

PassAboveCursor == \A t \in pass.rows : stored[t] = "hot" /\ id[t] > cursor

ArchiveInv == ArchivedAlone /\ PassAboveCursor

LEMMA ArchiveInit == Init => ArchiveInv
BY DEF Init, ArchiveInv, ArchivedAlone, PassAboveCursor, NoPass

LEMMA TailAt ==
    ASSUME NEW S, NEW q \in Seq(S), q # <<>>
    PROVE  \A i \in DOMAIN Tail(q) : i + 1 \in DOMAIN q /\ Tail(q)[i] = q[i + 1]
OBVIOUS

LEMMA AppendAt ==
    ASSUME NEW S, NEW q \in Seq(S), NEW x
    PROVE  \A i \in DOMAIN Append(q, x) :
               Append(q, x)[i] = x \/ (i \in DOMAIN q /\ Append(q, x)[i] = q[i])
OBVIOUS

\* A proposal on one row is none on an archived one: keys differ.
LEMMA HandleElsewhere ==
    ASSUME MoreTypes, NEW t \in Triggers, HandleOk(t) \/ HandleError(t),
           NEW s \in Triggers, s # t, Maker[s] \in HotWindow
    PROVE  queue'[Key[s]] = queue[Key[s]]
<1>1. Key[s] \in Keys /\ Key[s] # Key[t]
  BY KeyAssumption DEF Keys
<1>2. QED
  BY <1>1, HandleTypes

LEMMA ArchiveStep ==
    ASSUME Typed, MoreTypes, CursorInv, ArchiveInv, [Next]_vars
    PROVE  ArchiveInv'
<1> USE DEF producerVars, engineVars, historyVars
<1>0. /\ fresh \in [Producers -> Seq(Triggers)] /\ bus \in Seq(Triggers)
      /\ stored \in [Triggers -> {"none", "inserting", "hot", "archived"}]
      /\ id \in [Triggers -> Nat] /\ cursor \in Nat /\ queue \in [Keys -> QueueStatuses]
      /\ pass \in [on : BOOLEAN, rows : SUBSET Triggers, upto : Nat,
                   gaps : SUBSET Triggers, failed : BOOLEAN]
      /\ Maker \in [Triggers -> Producers] /\ \A t \in Triggers : Key[t] \in Keys
  BY DeliveryAssumption DEF Typed, MoreTypes, Keys
<1>a. \A s \in Triggers : stored[s] = "archived" =>
          /\ Maker[s] \in HotWindow /\ queue[Key[s]] # "pending" /\ live # s
          /\ \A i \in DOMAIN bus : bus[i] # s
          /\ \A q \in Producers : \A i \in DOMAIN fresh[q] : fresh[q][i] # s
  BY DEF ArchiveInv, ArchivedAlone, Aged
<1>b. \A s \in pass.rows : s \in Triggers /\ stored[s] = "hot" /\ id[s] > cursor
  BY <1>0 DEF ArchiveInv, PassAboveCursor
\* It is enough to look at the rows that are archived after the step.
<1>c. ASSUME \A s \in Triggers : stored'[s] = "archived" =>
                 /\ Maker[s] \in HotWindow /\ queue'[Key[s]] # "pending" /\ live' # s
                 /\ \A i \in DOMAIN bus' : bus'[i] # s
                 /\ \A q \in Producers : \A i \in DOMAIN fresh'[q] : fresh'[q][i] # s,
             \A s \in pass'.rows : stored'[s] = "hot" /\ id'[s] > cursor'
      PROVE  ArchiveInv'
  BY <1>c DEF ArchiveInv, ArchivedAlone, PassAboveCursor, Aged
<1>1. ASSUME NEW t \in Triggers, Insert(t)
      PROVE  ArchiveInv'
  <2>1. /\ stored[t] = "none" /\ stored' = [stored EXCEPT ![t] = "inserting"]
        /\ id' = [id EXCEPT ![t] = lastId + 1]
        /\ UNCHANGED <<fresh, bus, live, queue, cursor, pass>>
    BY <1>1 DEF Insert
  <2>2. QED
    BY <1>0, <1>a, <1>b, <1>c, <2>1
<1>2. ASSUME NEW t \in Triggers, InsertCommit(t)
      PROVE  ArchiveInv'
  <2>1. /\ stored[t] = "inserting" /\ stored' = [stored EXCEPT ![t] = "hot"]
        /\ fresh' = [fresh EXCEPT ![Maker[t]] = Append(@, t)]
        /\ UNCHANGED <<id, bus, live, queue, cursor, pass>>
    BY <1>2 DEF InsertCommit
  <2>2. ASSUME NEW s \in Triggers, s # t, stored[s] = "archived", NEW q \in Producers,
               NEW i \in DOMAIN fresh'[q]
        PROVE  fresh'[q][i] # s
    <3>1. CASE q # Maker[t]
      BY <1>0, <1>a, <2>1, <2>2, <3>1
    <3>2. CASE q = Maker[t]
      <4>1. fresh'[q] = Append(fresh[q], t) /\ fresh[q] \in Seq(Triggers)
        BY <1>0, <2>1, <3>2
      <4>2. fresh'[q][i] = t \/ (i \in DOMAIN fresh[q] /\ fresh'[q][i] = fresh[q][i])
        BY <2>2, <4>1
      <4>3. QED
        BY <1>a, <2>2, <4>2
    <3>3. QED
      BY <3>1, <3>2
  <2>3. QED
    BY <1>0, <1>a, <1>b, <1>c, <2>1, <2>2
<1>3. ASSUME NEW t \in Triggers, InsertFail(t)
      PROVE  ArchiveInv'
  <2>1. /\ stored[t] = "inserting"
        /\ \/ stored' = [stored EXCEPT ![t] = "none"] /\ id' = [id EXCEPT ![t] = 0]
           \/ stored' = [stored EXCEPT ![t] = "hot"] /\ UNCHANGED id
        /\ fresh' = [fresh EXCEPT ![Maker[t]] = <<>>]
        /\ UNCHANGED <<bus, live, queue, cursor, pass>>
    BY <1>3 DEF InsertFail
  <2>2. \A q \in Producers : fresh'[q] = fresh[q] \/ fresh'[q] = <<>>
    BY <1>0, <2>1
  <2>3. \A s \in Triggers : stored'[s] = "archived" => stored[s] = "archived"
    BY <1>0, <2>1
  <2>4. \A q \in Producers, s \in Triggers : stored[s] = "archived" =>
            \A i \in DOMAIN fresh'[q] : fresh'[q][i] # s
    BY <1>a, <2>2
  <2>5. \A s \in pass.rows : s # t /\ stored'[s] = stored[s] /\ id'[s] = id[s]
    BY <1>0, <1>b, <2>1
  <2>6. QED
    BY <1>a, <1>b, <1>c, <2>1, <2>3, <2>4, <2>5
<1>4. ASSUME NEW t \in Triggers, Archive(t)
      PROVE  ArchiveInv'
  <2>1. /\ stored[t] = "hot" /\ Maker[t] \in HotWindow /\ id[t] <= cursor
        /\ live # t /\ \A i \in DOMAIN bus : bus[i] # t
        /\ \A q \in Producers : \A i \in DOMAIN fresh[q] : fresh[q][i] # t
        /\ queue[Key[t]] # "pending"
        /\ stored' = [stored EXCEPT ![t] = "archived"]
        /\ UNCHANGED <<id, fresh, bus, live, queue, cursor, pass>>
    BY <1>4 DEF Archive, Aged, Cited
  <2>2. t \notin pass.rows
    BY <1>0, <1>b, <2>1
  <2>3. QED
    BY <1>0, <1>a, <1>b, <1>c, <2>1, <2>2
<1>5. ASSUME NEW p \in Producers, Publish(p)
      PROVE  ArchiveInv'
  <2>1. /\ fresh[p] # <<>> /\ fresh' = [fresh EXCEPT ![p] = Tail(@)]
        /\ bus' \in {bus, Append(bus, Head(fresh[p]))}
        /\ UNCHANGED <<stored, id, live, queue, cursor, pass>>
    BY <1>5 DEF Publish
  <2>2. /\ fresh[p] \in Seq(Triggers) /\ 1 \in DOMAIN fresh[p] /\ Head(fresh[p]) = fresh[p][1]
        /\ Head(fresh[p]) \in Triggers
    BY <1>0, <2>1
  <2>3. ASSUME NEW s \in Triggers, stored[s] = "archived", NEW i \in DOMAIN bus'
        PROVE  bus'[i] # s
    <3>1. CASE bus' = bus
      BY <1>a, <2>3, <3>1
    <3>2. CASE bus' = Append(bus, Head(fresh[p]))
      <4>1. bus \in Seq(Triggers)
        BY <1>0
      <4>2. \A j \in DOMAIN Append(bus, Head(fresh[p])) :
                \/ Append(bus, Head(fresh[p]))[j] = Head(fresh[p])
                \/ j \in DOMAIN bus /\ Append(bus, Head(fresh[p]))[j] = bus[j]
        BY <4>1, AppendAt, Zenon
      <4>3. bus'[i] = Head(fresh[p]) \/ (i \in DOMAIN bus /\ bus'[i] = bus[i])
        BY <3>2, <4>2, Zenon
      <4>4. QED
        BY <1>a, <2>2, <2>3, <4>3
    <3>3. QED
      BY <2>1, <3>1, <3>2
  <2>4. ASSUME NEW s \in Triggers, stored[s] = "archived", NEW q \in Producers,
               NEW i \in DOMAIN fresh'[q]
        PROVE  fresh'[q][i] # s
    <3>1. CASE q # p
      BY <1>0, <1>a, <2>1, <2>4, <3>1
    <3>2. CASE q = p
      <4>1. fresh'[q] = Tail(fresh[p])
        BY <1>0, <2>1, <3>2
      <4>2. i + 1 \in DOMAIN fresh[p] /\ fresh'[q][i] = fresh[p][i + 1]
        BY <2>1, <2>2, <4>1, TailAt
      <4>3. QED
        BY <1>a, <2>4, <4>2
    <3>3. QED
      BY <3>1, <3>2
  <2>5. QED
    BY <1>a, <1>b, <1>c, <2>1, <2>3, <2>4
<1>6. CASE LiveReceive
  <2>1. /\ bus # <<>> /\ live' = Head(bus) /\ bus' = Tail(bus)
        /\ UNCHANGED <<stored, id, fresh, queue, cursor, pass>>
    BY <1>6 DEF LiveReceive
  <2>2. /\ 1 \in DOMAIN bus /\ Head(bus) = bus[1]
        /\ \A i \in DOMAIN bus' : i + 1 \in DOMAIN bus /\ bus'[i] = bus[i + 1]
    BY <1>0, <2>1
  <2>3. QED
    BY <1>a, <1>b, <1>c, <2>1, <2>2
<1>7. CASE LiveHandle
  <2>1. PICK t \in Triggers : t = live
    BY <1>7 DEF LiveHandle, MoreTypes
  <2>2. HandleOk(t) \/ HandleError(t)
    BY <1>7, <2>1 DEF LiveHandle
  <2>3. live' = None /\ UNCHANGED <<stored, id, fresh, bus, cursor, pass>>
    BY <1>7 DEF LiveHandle
  <2>4. ASSUME NEW s \in Triggers, stored[s] = "archived"
        PROVE  queue'[Key[s]] # "pending" /\ live' # s
    BY <1>a, <2>1, <2>2, <2>3, <2>4, HandleElsewhere, DeliveryAssumption
  <2>5. QED
    BY <1>a, <1>b, <1>c, <2>3, <2>4
<1>8. CASE PassStart
  <2>1. PICK rows \in SUBSET Unseen : pass'.rows = rows
    BY <1>8 DEF PassStart
  <2>2. UNCHANGED <<stored, id, fresh, bus, live, queue, cursor>>
    BY <1>8 DEF PassStart
  <2>3. \A s \in rows : stored[s] = "hot" /\ id[s] > cursor
    BY <2>1 DEF Unseen
  <2>4. QED
    BY <1>a, <1>c, <2>1, <2>2, <2>3
<1>9. CASE PassHandle
  <2>1. PICK t \in pass.rows :
            /\ HandleOk(t) \/ HandleError(t)
            /\ pass' \in {[pass EXCEPT !.rows = @ \ {t}],
                          [pass EXCEPT !.rows = @ \ {t}, !.failed = TRUE]}
    BY <1>9 DEF PassHandle
  <2>2. t \in Triggers /\ stored[t] = "hot" /\ pass'.rows \subseteq pass.rows
    BY <1>0, <1>b, <2>1
  <2>3. UNCHANGED <<stored, id, fresh, bus, live, cursor>>
    BY <1>9 DEF PassHandle
  <2>4. ASSUME NEW s \in Triggers, stored[s] = "archived"
        PROVE  queue'[Key[s]] # "pending"
    BY <1>a, <2>1, <2>2, <2>4, HandleElsewhere
  <2>5. QED
    BY <1>a, <1>b, <1>c, <2>2, <2>3, <2>4
<1>10. CASE PassEnd \/ PassWriteFails
  <2>1. pass'.rows = {} /\ UNCHANGED <<stored, id, fresh, bus, live, queue>>
    BY <1>10 DEF PassEnd, PassWriteFails, NoPass
  <2>2. QED
    BY <1>a, <1>c, <2>1
<1>11. ASSUME NEW k \in Keys, Decide(k)
       PROVE  ArchiveInv'
  <2>1. PICK st \in QueueStatuses :
            st # "pending" /\ queue' = [queue EXCEPT ![k] = st]
    BY <1>11 DEF Decide, QueueMoves
  <2>2. UNCHANGED <<stored, id, fresh, bus, live, cursor, pass>>
    BY <1>11 DEF Decide
  <2>3. \A j \in Keys : queue'[j] = queue[j] \/ queue'[j] # "pending"
    BY <1>0, <2>1
  <2>4. QED
    BY <1>0, <1>a, <1>b, <1>c, <2>2, <2>3
<1>12. CASE Restart
  <2>1. /\ fresh' = [q \in Producers |-> <<>>] /\ bus' = <<>> /\ live' = None /\ pass' = NoPass
        /\ UNCHANGED <<queue, cursor>>
    BY <1>12 DEF Restart
  <2>2. \A s \in Triggers : stored'[s] = "archived" => stored[s] = "archived"
    BY <1>12 DEF Restart
  <2>3. pass'.rows = {}
    BY <2>1 DEF NoPass
  <2>4. QED
    BY <1>a, <1>c, <2>1, <2>2, <2>3, DeliveryAssumption
<1>13. CASE UNCHANGED vars
  BY <1>13, <1>a, <1>b, <1>c DEF vars
<1>14. QED
  BY <1>1, <1>2, <1>3, <1>4, <1>5, <1>6, <1>7, <1>8, <1>9, <1>10, <1>11, <1>12, <1>13
  DEF Next, Reconcile

\* What retention moves out of the hot table was put to the queue before, or
\* overtaken, and is not the evidence of a question that is still open: not
\* even one that is asked later, since no event about the row is left.
THEOREM ArchivedRowsAreDone == Spec => []ArchivedIsDone
<1>1. Typed /\ CursorInv /\ ArchiveInv => ArchivedIsDone
  BY DEF Typed, CursorInv, Covered, CursorAdvances, Persisted, ArchiveInv, ArchivedAlone,
     ArchivedIsDone
<1>2. Init => Typed /\ CursorInv /\ MoreTypes /\ ArchiveInv
  BY TypedInit, CursorInit, TypesInit, ArchiveInit
<1>3. Typed /\ CursorInv /\ MoreTypes /\ ArchiveInv /\ [Next]_vars
          => (Typed /\ CursorInv /\ MoreTypes /\ ArchiveInv)'
  BY CursorStep, TypesStep, ArchiveStep
<1>4. QED
  BY <1>1, <1>2, <1>3, PTL DEF Spec
=============================================================================
