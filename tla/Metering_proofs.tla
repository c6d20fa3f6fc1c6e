-------------------------- MODULE Metering_proofs --------------------------
(***************************************************************************)
(* What the claim column of the outbox is worth, for any number of rows,   *)
(* organisations, replicas and overlapping drains, however many calls fail *)
(* and however late a claim grows old.                                     *)
(*                                                                         *)
(* The argument: a row whose claim has not grown old under a running drain *)
(* is in the hands of one drain only (SoleHolder), and once Stripe has     *)
(* counted it the row is either reported or about to be marked by that     *)
(* drain (CountedIsSettled).  So the drain that posts a batch posts rows   *)
(* nobody has posted before.                                               *)
(***************************************************************************)
EXTENDS Metering, TLAPS

(* A batch in hand is part of what the drain claimed, and a drain that is  *)
(* over has nothing.                                                       *)
InHand ==
  \A d \in Drains : /\ drain[d].ids \subseteq drain[d].claimed
                    /\ drain[d].pc = "idle" => drain[d].claimed = {}

SoleHolder ==
  \A d \in Drains : \A i \in drain[d].claimed \ overrun :
    /\ row[i] = "claimed"
    /\ \A e \in Drains : i \in drain[e].claimed => e = d

Counted == UNION counted

MarkingIsCounted ==
  \A d \in Drains : drain[d].pc = "mark" => drain[d].ids \subseteq Counted

CountedIsSettled ==
  \A i \in Counted \ (overrun \union unmarked) :
    row[i] = "reported" \/ \E d \in Drains : drain[d].pc = "mark" /\ i \in drain[d].ids

IInv ==
  /\ TypeOK
  /\ InHand
  /\ SoleHolder
  /\ MarkingIsCounted
  /\ CountedIsSettled
  /\ ReportedIsCounted
  /\ CountedOnceUnlessInterrupted

-----------------------------------------------------------------------------
(* Type correctness.                                                       *)

LEMMA NotifyStepTyped ==
  ASSUME NotifyTypeOK, NEW r \in Replicas, NotifyStep(r) \/ ListenFails(r)
  PROVE  NotifyTypeOK'
<1> USE WakeAssumption DEF NotifyTypeOK
<1>1. CASE Boot(r)
  BY <1>1 DEF Boot
<1>2. ASSUME NEW listens \in BOOLEAN, Subscribe(r, listens) PROVE NotifyTypeOK'
  BY <1>2 DEF Subscribe
<1>3. CASE Connect(r)
  BY <1>3 DEF Connect
<1>4. CASE ConnectFails(r)
  BY <1>4 DEF ConnectFails
<1>5. ASSUME NEW listens \in BOOLEAN, Listen(r, listens) PROVE NotifyTypeOK'
  BY <1>5 DEF Listen
<1>6. CASE FireOnConnect(r)
  BY <1>6 DEF FireOnConnect
<1>7. CASE HandleDrop(r)
  BY <1>7 DEF HandleDrop
<1>8. CASE Reconnect(r)
  BY <1>8 DEF Reconnect
<1>9. CASE WindowCloses(r)
  BY <1>9 DEF WindowCloses
<1> QED BY <1>1, <1>2, <1>3, <1>4, <1>5, <1>6, <1>7, <1>8, <1>9 DEF NotifyStep, ListenFails

LEMMA OnNotificationTyped == NotifyTypeOK /\ OnNotification => NotifyTypeOK'
BY DEF NotifyTypeOK, OnNotification

LEMMA OnWakeTyped ==
  ASSUME NotifyTypeOK, NEW r \in Replicas, OnWake(r)
  PROVE  NotifyTypeOK'
BY WakeAssumption DEF NotifyTypeOK, OnWake

LEMMA CrashNotifyTyped ==
  ASSUME NotifyTypeOK, NEW r \in Replicas, CrashNotify(r)
  PROVE  NotifyTypeOK'
BY WakeAssumption DEF NotifyTypeOK, CrashNotify

-----------------------------------------------------------------------------
(* What one step of a drain does to the drains.                            *)

(* The batch is posted, or fails: the other drains are not touched.        *)
LEMMA GoesDrains ==
  ASSUME drain \in [Drains -> DrainStates], NEW d \in Drains,
         NEW pc \in {"mark", "release"}, NEW ids \in SUBSET Rows, Goes(d, pc, ids)
  PROVE  /\ drain' \in [Drains -> DrainStates]
         /\ drain'[d].pc = pc /\ drain'[d].ids = ids
         /\ drain'[d].claimed = drain[d].claimed
         /\ \A e \in Drains \ {d} : drain'[e] = drain[e]
<1> DEFINE new == [drain[d] EXCEPT !.pc = pc, !.ids = ids]
<1>1. /\ new \in DrainStates /\ new.pc = pc /\ new.ids = ids
      /\ new.claimed = drain[d].claimed
  BY DEF DrainStates
<1>2. drain' = [drain EXCEPT ![d] = new]
  BY DEF Goes
<1> HIDE DEF new
<1> QED BY <1>1, <1>2

(* A settled batch leaves the drain's hands.                               *)
LEMMA NextBatchDrains ==
  ASSUME drain \in [Drains -> DrainStates], NEW d \in Drains, NextBatch(d)
  PROVE  /\ drain' \in [Drains -> DrainStates]
         /\ drain'[d].pc \in {"idle", "report"} /\ drain'[d].ids = {}
         /\ drain'[d].claimed = drain[d].claimed \ drain[d].ids
         /\ drain'[d].pc = "idle" => drain'[d].claimed = {}
         /\ \A e \in Drains \ {d} : drain'[e] = drain[e]
<1> DEFINE rest == drain[d].claimed \ drain[d].ids
           new == IF rest = {} THEN Idle
                  ELSE [drain[d] EXCEPT !.pc = "report", !.claimed = rest, !.ids = {}]
<1>1. /\ new \in DrainStates /\ new.pc \in {"idle", "report"} /\ new.ids = {}
      /\ new.claimed = rest /\ (new.pc = "idle" => new.claimed = {})
  <2>1. CASE rest = {}
    BY <2>1 DEF Idle, DrainStates
  <2>2. CASE rest # {}
    BY <2>2 DEF DrainStates
  <2> QED BY <2>1, <2>2
<1>2. drain' = [drain EXCEPT ![d] = new]
  BY DEF NextBatch
<1> HIDE DEF new
<1> QED BY <1>1, <1>2

(* The rows named change, the others do not.                               *)
LEMMA SetRowsIs ==
  ASSUME row \in [Rows -> {"unlogged", "outstanding", "claimed", "stale", "reported"}],
         NEW ids \in SUBSET Rows, NEW state \in {"outstanding", "claimed", "reported"},
         row' = SetRows(ids, state)
  PROVE  /\ row' \in [Rows -> {"unlogged", "outstanding", "claimed", "stale", "reported"}]
         /\ \A i \in ids : row'[i] = state
         /\ \A i \in Rows \ ids : row'[i] = row[i]
BY DEF SetRows

LEMMA BatchesIn ==
  ASSUME drain \in [Drains -> DrainStates], NEW d \in Drains, NEW ids \in Batches(d)
  PROVE  ids \in SUBSET Rows /\ ids \subseteq drain[d].claimed
<1>1. PICK o \in Organisations : ids = {i \in drain[d].claimed : organisation[i] = o}
  BY DEF Batches
<1>2. drain[d].claimed \in SUBSET Rows
  BY DEF DrainStates
<1> QED BY <1>1, <1>2

-----------------------------------------------------------------------------
(* Each action preserves IInv.                                             *)

Tables == <<row, drain, counted, overrun, unmarked>>

(* Everything but the types depends on the tables of metering only.        *)
LEMMA UnchangedTables ==
  ASSUME IInv, TypeOK', UNCHANGED Tables
  PROVE  IInv'
BY DEF IInv, Tables, InHand, SoleHolder, Counted, MarkingIsCounted, CountedIsSettled,
       ReportedIsCounted, CountedOnceUnlessInterrupted, RowsIn

LEMMA LogSafe ==
  ASSUME IInv, NEW i \in Rows, LogShiftUsage(i)
  PROVE  IInv'
<1> USE DEF IInv, LogShiftUsage
<1>1. TypeOK'
  BY OnNotificationTyped DEF TypeOK
<1>2. /\ row'[i] = "outstanding" /\ row[i] = "unlogged"
      /\ \A j \in Rows \ {i} : row'[j] = row[j]
  BY DEF TypeOK
<1>3. InHand' /\ MarkingIsCounted' /\ CountedOnceUnlessInterrupted'
  BY DEF InHand, MarkingIsCounted, Counted, CountedOnceUnlessInterrupted
<1>4. SoleHolder'
  BY <1>2 DEF SoleHolder, TypeOK, DrainStates
<1>5. CountedIsSettled'
  BY <1>2 DEF CountedIsSettled, Counted, TypeOK
<1>6. ReportedIsCounted'
  BY <1>2 DEF ReportedIsCounted, RowsIn
<1> QED BY <1>1, <1>3, <1>4, <1>5, <1>6

LEMMA GrowsOldSafe ==
  ASSUME IInv, NEW i \in Rows, ClaimGrowsOld(i)
  PROVE  IInv'
<1> USE DEF IInv, ClaimGrowsOld
<1>1. TypeOK'
  BY DEF TypeOK, NotifyTypeOK, notifyVars
<1>2. /\ row'[i] = "stale" /\ row[i] = "claimed"
      /\ \A j \in Rows \ {i} : row'[j] = row[j]
      /\ overrun \subseteq overrun'
      /\ \A d \in Drains : i \in drain[d].claimed => i \in overrun'
  BY DEF TypeOK
<1>3. InHand' /\ MarkingIsCounted'
  BY DEF InHand, MarkingIsCounted, Counted
<1>4. CountedOnceUnlessInterrupted'
  BY <1>2 DEF CountedOnceUnlessInterrupted
<1>5. SoleHolder'
  BY <1>2 DEF SoleHolder, TypeOK, DrainStates
<1>6. CountedIsSettled'
  BY <1>2 DEF CountedIsSettled, Counted, TypeOK
<1>7. ReportedIsCounted'
  BY <1>2 DEF ReportedIsCounted, RowsIn
<1> QED BY <1>1, <1>3, <1>4, <1>5, <1>6, <1>7

(* A row that can be claimed is in no hands, or has been overrun.          *)
LEMMA ClaimSafe ==
  ASSUME IInv, NEW r \in Replicas, Claim(r)
  PROVE  IInv'
<1> USE DEF IInv
<1> DEFINE d == CHOOSE x \in Drains \ Running : TRUE
           new == [pc |-> "report", at |-> r, claimed |-> Claimable, ids |-> {}]
<1>1. Claimable \in SUBSET Rows
  BY DEF Claimable, RowsIn
<1>2. /\ row' \in [Rows -> {"unlogged", "outstanding", "claimed", "stale", "reported"}]
      /\ \A i \in Claimable : row'[i] = "claimed" /\ row[i] \in {"outstanding", "stale"}
      /\ \A i \in Rows \ Claimable : row'[i] = row[i]
  BY <1>1, SetRowsIs DEF Claim, TypeOK, Claimable, RowsIn
<1>3. UNCHANGED <<counted, overrun, unmarked>>
  BY DEF Claim
<1>4. d \in Drains /\ drain[d].pc = "idle" /\ drain[d].claimed = {}
  <2>1. \E x \in Drains \ Running : TRUE
    BY DEF Claim, Running
  <2>2. d \in Drains \ Running
    BY <2>1
  <2> QED BY <2>2 DEF Running, InHand
<1>5. /\ new \in DrainStates /\ new.pc = "report" /\ new.ids = {}
      /\ new.claimed = Claimable
  BY <1>1 DEF DrainStates
<1>6. drain' = IF Claimable = {} THEN drain ELSE [drain EXCEPT ![d] = new]
  BY DEF Claim
<1> HIDE DEF d, new
<1>7. TypeOK'
  <2>1. NotifyTypeOK'
    BY OnWakeTyped DEF Claim, TypeOK
  <2>2. drain' \in [Drains -> DrainStates]
    BY <1>4, <1>5, <1>6 DEF TypeOK
  <2>3. missed' \in BOOLEAN /\ faults' = faults /\ organisation' = organisation
    BY DEF Claim, OnWake
  <2> QED BY <1>2, <1>3, <2>1, <2>2, <2>3 DEF TypeOK
<1>8. /\ drain' \in [Drains -> DrainStates]
      /\ \A e \in Drains \ {d} : drain'[e] = drain[e]
      /\ drain'[d].claimed = Claimable
      /\ drain'[d].pc # "mark"
      /\ drain'[d].ids \subseteq Claimable
      /\ drain'[d].pc = "idle" => Claimable = {}
  BY <1>4, <1>5, <1>6 DEF TypeOK, InHand
<1>9. InHand'
  BY <1>8 DEF InHand
<1>10. SoleHolder'
  <2> SUFFICES ASSUME NEW e \in Drains, NEW i \in drain'[e].claimed \ overrun
               PROVE  row'[i] = "claimed" /\ \A f \in Drains : i \in drain'[f].claimed => f = e
    BY <1>3 DEF SoleHolder
  <2>1. i \in Rows
    BY <1>8 DEF DrainStates
  <2>2. CASE i \in Claimable
    <3>1. \A f \in Drains : i \notin drain[f].claimed
      BY <1>2, <2>2 DEF SoleHolder
    <3> QED BY <1>2, <1>8, <2>2, <3>1
  <2>3. CASE i \notin Claimable
    BY <1>2, <1>8, <2>1, <2>3 DEF SoleHolder
  <2> QED BY <2>2, <2>3
<1>11. MarkingIsCounted'
  BY <1>3, <1>8 DEF MarkingIsCounted, Counted
<1>12. CountedIsSettled'
  BY <1>2, <1>3, <1>4, <1>8 DEF CountedIsSettled, Counted, TypeOK
<1>13. ReportedIsCounted' /\ CountedOnceUnlessInterrupted'
  BY <1>2, <1>3 DEF ReportedIsCounted, CountedOnceUnlessInterrupted, RowsIn
<1> QED BY <1>7, <1>9, <1>10, <1>11, <1>12, <1>13

(* A drain that posts a batch posts rows nobody has posted: it is their    *)
(* only holder, and it is not marking.                                     *)
LEMMA PostedSafe ==
  ASSUME IInv, TypeOK', NEW d \in Drains, NEW ids \in Batches(d), NEW pc \in {"mark", "release"},
         drain[d].pc = "report", Goes(d, pc, ids), counted' = counted \union {ids},
         unmarked \subseteq unmarked', pc = "mark" \/ ids \subseteq unmarked',
         UNCHANGED <<row, overrun>>
  PROVE  IInv'
<1> USE DEF IInv
<1>1. ids \in SUBSET Rows /\ ids \subseteq drain[d].claimed
  BY BatchesIn DEF TypeOK
<1>2. /\ drain'[d].pc = pc /\ drain'[d].ids = ids
      /\ drain'[d].claimed = drain[d].claimed
      /\ \A e \in Drains \ {d} : drain'[e] = drain[e]
  BY <1>1, GoesDrains DEF TypeOK
<1>3. Counted' = Counted \union ids
  BY DEF Counted
<1>4. \A i \in ids \ (overrun \union unmarked) : i \notin Counted
  BY <1>1 DEF SoleHolder, CountedIsSettled, InHand
<1>5. InHand' /\ SoleHolder'
  BY <1>1, <1>2 DEF InHand, SoleHolder
<1>6. MarkingIsCounted'
  BY <1>2, <1>3 DEF MarkingIsCounted
<1>7. CountedIsSettled'
  BY <1>2, <1>3 DEF CountedIsSettled
<1>8. ReportedIsCounted'
  BY <1>3 DEF ReportedIsCounted, RowsIn, Counted
<1>9. CountedOnceUnlessInterrupted'
  <2> SUFFICES ASSUME NEW i \in Rows \ (overrun \union unmarked),
                      NEW b1 \in counted \union {ids}, NEW b2 \in counted \union {ids},
                      i \in b1, i \in b2
               PROVE  b1 = b2
    BY DEF CountedOnceUnlessInterrupted
  <2>1. CASE i \in ids
    BY <1>4, <2>1 DEF Counted
  <2>2. CASE i \notin ids
    BY <2>2 DEF CountedOnceUnlessInterrupted
  <2> QED BY <2>1, <2>2
<1> QED BY <1>5, <1>6, <1>7, <1>8, <1>9

(* A batch that will be released: if it was being marked, it is remembered *)
(* as unmarked.                                                            *)
LEMMA GivenUpSafe ==
  ASSUME IInv, TypeOK', NEW d \in Drains, NEW ids \in SUBSET drain[d].claimed,
         Goes(d, "release", ids), unmarked \subseteq unmarked',
         drain[d].pc = "mark" => drain[d].ids \subseteq unmarked',
         UNCHANGED <<row, counted, overrun>>
  PROVE  IInv'
<1> USE DEF IInv
<1>1. ids \in SUBSET Rows
  BY DEF TypeOK, DrainStates
<1>2. /\ drain'[d].pc = "release" /\ drain'[d].ids = ids
      /\ drain'[d].claimed = drain[d].claimed
      /\ \A e \in Drains \ {d} : drain'[e] = drain[e]
  BY <1>1, GoesDrains DEF TypeOK
<1>3. InHand' /\ SoleHolder'
  BY <1>2 DEF InHand, SoleHolder
<1>4. MarkingIsCounted'
  BY <1>2 DEF MarkingIsCounted, Counted
<1>5. CountedIsSettled'
  BY <1>2 DEF CountedIsSettled, Counted
<1>6. ReportedIsCounted' /\ CountedOnceUnlessInterrupted'
  BY DEF ReportedIsCounted, RowsIn, CountedOnceUnlessInterrupted
<1> QED BY <1>3, <1>4, <1>5, <1>6

(* A batch that leaves the drain's hands, marked, released or neither: no  *)
(* other drain holds its rows, unless they have been overrun.              *)
LEMMA SettledSafe ==
  ASSUME IInv, TypeOK', NEW d \in Drains, drain[d].pc \in {"mark", "release"}, NextBatch(d),
         \A i \in Rows \ drain[d].ids : row'[i] = row[i],
         \A i \in drain[d].ids :
           /\ row[i] = "reported" \/ drain[d].pc = "mark" => row'[i] = "reported"
           /\ row'[i] = "reported" => row[i] = "reported" \/ drain[d].pc = "mark",
         UNCHANGED <<counted, overrun, unmarked>>
  PROVE  IInv'
<1> USE DEF IInv
<1>1. /\ drain'[d].pc \in {"idle", "report"} /\ drain'[d].ids = {}
      /\ drain'[d].claimed = drain[d].claimed \ drain[d].ids
      /\ drain'[d].pc = "idle" => drain'[d].claimed = {}
      /\ \A e \in Drains \ {d} : drain'[e] = drain[e]
  BY NextBatchDrains DEF TypeOK
<1>2. /\ \A e \in Drains : drain'[e].claimed \subseteq drain[e].claimed
      /\ \A e \in Drains : drain[e].claimed \subseteq Rows
  BY <1>1 DEF TypeOK, DrainStates
<1>3. InHand'
  BY <1>1 DEF InHand
<1>4. SoleHolder'
  <2> SUFFICES ASSUME NEW e \in Drains, NEW i \in drain'[e].claimed \ overrun
               PROVE  row'[i] = "claimed" /\ \A f \in Drains : i \in drain'[f].claimed => f = e
    BY DEF SoleHolder
  <2>1. i \in Rows /\ i \in drain[e].claimed
    BY <1>2
  <2>2. i \notin drain[d].ids
    BY <1>1, <2>1 DEF SoleHolder, InHand
  <2>3. row'[i] = "claimed"
    BY <2>1, <2>2 DEF SoleHolder
  <2>4. \A f \in Drains : i \in drain'[f].claimed => f = e
    BY <1>2, <2>1 DEF SoleHolder
  <2> QED BY <2>3, <2>4
<1>5. MarkingIsCounted'
  BY <1>1 DEF MarkingIsCounted, Counted
<1>6. CountedIsSettled'
  <2> SUFFICES ASSUME NEW i \in Counted \ (overrun \union unmarked)
               PROVE  row'[i] = "reported" \/
                      \E e \in Drains : drain'[e].pc = "mark" /\ i \in drain'[e].ids
    BY DEF CountedIsSettled, Counted
  <2>1. i \in Rows
    BY DEF Counted, TypeOK
  <2>2. CASE row[i] = "reported"
    BY <2>1, <2>2
  <2>3. ASSUME NEW e \in Drains, drain[e].pc = "mark", i \in drain[e].ids
        PROVE  row'[i] = "reported" \/
               \E f \in Drains : drain'[f].pc = "mark" /\ i \in drain'[f].ids
    BY <1>1, <2>3
  <2> QED BY <2>2, <2>3 DEF CountedIsSettled
<1>7. ReportedIsCounted'
  BY DEF ReportedIsCounted, RowsIn, MarkingIsCounted, Counted
<1>8. CountedOnceUnlessInterrupted'
  BY DEF CountedOnceUnlessInterrupted
<1> QED BY <1>3, <1>4, <1>5, <1>6, <1>7, <1>8

LEMMA FaultTyped ==
  ASSUME TypeOK, NEW what, Fault(what)
  PROVE  faults' \in 0..MaxFaults
BY FaultAssumption DEF TypeOK, Fault

LEMMA MayMissTyped == TypeOK /\ MayMiss => missed' \in BOOLEAN
BY DEF TypeOK, MayMiss

LEMMA ReportSafe ==
  ASSUME IInv, NEW d \in Drains, Report(d)
  PROVE  IInv'
<1>t. TypeOK /\ drain[d].ids \in SUBSET Rows /\ drain[d].ids \subseteq drain[d].claimed
  BY DEF IInv, TypeOK, InHand, DrainStates
<1>n. UNCHANGED notifyVars => NotifyTypeOK'
  BY <1>t DEF TypeOK, NotifyTypeOK, notifyVars
<1>1. CASE Post(d)
  <2>1. PICK ids \in Batches(d) : Goes(d, "mark", ids) /\ counted' = counted \union {ids}
    BY <1>1 DEF Post
  <2>2. ids \in SUBSET Rows /\ ids \subseteq drain[d].claimed
    BY <1>t, BatchesIn DEF TypeOK
  <2>3. TypeOK'
    BY <1>t, <1>n, <1>1, <2>1, <2>2, GoesDrains DEF Post, TypeOK
  <2> QED BY <1>1, <2>1, <2>3, PostedSafe DEF Post
<1>2. CASE PostUnanswered(d)
  <2>1. PICK ids \in Batches(d) : /\ Goes(d, "release", ids)
                                  /\ counted' = counted \union {ids}
                                  /\ unmarked' = unmarked \union ids
    BY <1>2 DEF PostUnanswered
  <2>2. ids \in SUBSET Rows /\ ids \subseteq drain[d].claimed
    BY <1>t, BatchesIn DEF TypeOK
  <2>3. TypeOK'
    BY <1>t, <1>n, <1>2, <2>1, <2>2, GoesDrains, FaultTyped DEF PostUnanswered, TypeOK
  <2> QED BY <1>2, <2>1, <2>3, PostedSafe DEF PostUnanswered
<1>3. CASE PostRejected(d)
  <2>1. PICK ids \in Batches(d) : Goes(d, "release", ids)
    BY <1>3 DEF PostRejected
  <2>2. ids \in SUBSET Rows /\ ids \subseteq drain[d].claimed
    BY <1>t, BatchesIn DEF TypeOK
  <2>3. TypeOK'
    BY <1>t, <1>n, <1>3, <2>1, <2>2, GoesDrains, FaultTyped DEF PostRejected, TypeOK
  <2> QED BY <1>3, <2>1, <2>2, <2>3, GivenUpSafe DEF PostRejected
<1>4. CASE MarkReported(d)
  <2>1. /\ row' \in [Rows -> {"unlogged", "outstanding", "claimed", "stale", "reported"}]
        /\ \A i \in drain[d].ids : row'[i] = "reported"
        /\ \A i \in Rows \ drain[d].ids : row'[i] = row[i]
    BY <1>t, <1>4, SetRowsIs DEF MarkReported, TypeOK
  <2>2. TypeOK'
    BY <1>t, <1>n, <1>4, <2>1, NextBatchDrains DEF MarkReported, TypeOK
  <2> QED BY <1>4, <2>1, <2>2, SettledSafe DEF MarkReported
<1>5. CASE MarkFails(d)
  <2>1. TypeOK'
    BY <1>t, <1>n, <1>5, GoesDrains, FaultTyped DEF MarkFails, TypeOK
  <2> QED BY <1>t, <1>5, <2>1, GivenUpSafe DEF MarkFails
<1>6. CASE ReleaseClaim(d)
  <2>1. /\ row' \in [Rows -> {"unlogged", "outstanding", "claimed", "stale", "reported"}]
        /\ \A i \in drain[d].ids \ RowsIn({"reported"}) : row'[i] = "outstanding"
        /\ \A i \in Rows \ (drain[d].ids \ RowsIn({"reported"})) : row'[i] = row[i]
    BY ZenonT(60), <1>t, <1>6, SetRowsIs DEF ReleaseClaim, TypeOK
  <2>2. TypeOK'
    BY <1>t, <1>n, <1>6, <2>1, NextBatchDrains, MayMissTyped DEF ReleaseClaim, TypeOK
  <2>3. /\ \A i \in Rows \ drain[d].ids : row'[i] = row[i]
        /\ \A i \in drain[d].ids : row[i] = "reported" <=> row'[i] = "reported"
    BY <1>t, <2>1 DEF RowsIn
  <2> QED BY <1>6, <2>2, <2>3, SettledSafe DEF ReleaseClaim
<1>7. CASE ReleaseFails(d)
  <2>1. TypeOK'
    BY <1>t, <1>n, <1>7, NextBatchDrains DEF ReleaseFails, TypeOK
  <2> QED BY <1>7, <2>1, SettledSafe DEF ReleaseFails
<1> QED BY <1>1, <1>2, <1>3, <1>4, <1>5, <1>6, <1>7 DEF Report

(* The drains of a replica that dies hold nothing any more; what they were *)
(* marking is remembered as unmarked.                                      *)
LEMMA CrashSafe ==
  ASSUME IInv, NEW r \in Replicas, Crash(r)
  PROVE  IInv'
<1> USE DEF IInv
<1>1. /\ Idle \in DrainStates /\ Idle.pc = "idle"
      /\ Idle.claimed = {} /\ Idle.ids = {}
  BY DEF Idle, DrainStates
<1> DEFINE lost == {d \in Drains : drain[d].at = r}
           posted == UNION {drain[d].ids : d \in {e \in lost : drain[e].pc = "mark"}}
<1>2. /\ drain' = [d \in Drains |-> IF d \in lost THEN Idle ELSE drain[d]]
      /\ unmarked' = unmarked \union posted
      /\ UNCHANGED <<row, counted, overrun, organisation>>
  BY DEF Crash
<1>3. /\ drain' \in [Drains -> DrainStates]
      /\ \A d \in lost : drain'[d] = Idle
      /\ \A d \in Drains \ lost : drain'[d] = drain[d]
  BY <1>1, <1>2 DEF TypeOK
<1>4. posted \subseteq Rows
  BY DEF TypeOK, DrainStates
<1>5. \A d \in lost : drain[d].pc = "mark" => drain[d].ids \subseteq posted
  OBVIOUS
<1> HIDE DEF lost, posted
<1>6. TypeOK'
  <2>1. NotifyTypeOK' /\ missed' \in BOOLEAN /\ faults' \in 0..MaxFaults
    BY CrashNotifyTyped, MayMissTyped, FaultTyped DEF Crash, TypeOK
  <2> QED BY <1>2, <1>3, <1>4, <2>1 DEF TypeOK
<1>7. InHand' /\ SoleHolder'
  BY <1>1, <1>2, <1>3 DEF InHand, SoleHolder
<1>8. MarkingIsCounted'
  BY <1>1, <1>2, <1>3 DEF MarkingIsCounted, Counted
<1>9. CountedIsSettled'
  <2> SUFFICES ASSUME NEW i \in Counted \ (overrun \union unmarked \union posted)
               PROVE  row[i] = "reported" \/
                      \E d \in Drains : drain'[d].pc = "mark" /\ i \in drain'[d].ids
    BY <1>2 DEF CountedIsSettled, Counted
  <2>1. ASSUME NEW d \in Drains, drain[d].pc = "mark", i \in drain[d].ids
        PROVE  drain'[d].pc = "mark" /\ i \in drain'[d].ids
    BY <1>3, <1>5, <2>1
  <2> QED BY <2>1 DEF CountedIsSettled
<1>10. ReportedIsCounted' /\ CountedOnceUnlessInterrupted'
  BY <1>2 DEF ReportedIsCounted, RowsIn, CountedOnceUnlessInterrupted
<1> QED BY <1>6, <1>7, <1>8, <1>9, <1>10

LEMMA NotifiedSafe ==
  ASSUME IInv, NEW r \in Replicas, Notified(r)
  PROVE  IInv'
<1>1. TypeOK /\ NotifyTypeOK'
  BY NotifyStepTyped DEF IInv, TypeOK, Notified
<1>2. CASE NotifyStep(r) /\ UNCHANGED drainVars
  BY <1>1, <1>2, UnchangedTables DEF TypeOK, drainVars, Tables
<1>3. CASE ~(NotifyStep(r) /\ UNCHANGED drainVars)
  <2>1. MayMiss /\ Fault("listen") /\ UNCHANGED <<Tables, organisation>>
    BY <1>3 DEF Notified, Tables
  <2>2. TypeOK'
    BY <1>1, <2>1, MayMissTyped, FaultTyped DEF TypeOK, Tables
  <2> QED BY <2>1, <2>2, UnchangedTables
<1> QED BY <1>2, <1>3

LEMMA ClaimFailsSafe ==
  ASSUME IInv, NEW r \in Replicas, ClaimFails(r)
  PROVE  IInv'
<1>1. TypeOK /\ NotifyTypeOK'
  BY OnWakeTyped DEF IInv, TypeOK, ClaimFails
<1>2. TypeOK'
  BY <1>1, MayMissTyped, FaultTyped DEF ClaimFails, TypeOK
<1> QED BY <1>2, UnchangedTables DEF ClaimFails, Tables

-----------------------------------------------------------------------------
(* The theorems.                                                           *)

LEMMA InitIInv == Init => IInv
<1> SUFFICES ASSUME Init PROVE IInv
  OBVIOUS
<1>1. NotifyTypeOK
  BY WakeAssumption DEF Init, NotifyInit, NotifyTypeOK
<1>2. Idle \in DrainStates /\ Idle.pc = "idle" /\ Idle.claimed = {} /\ Idle.ids = {}
  BY DEF Idle, DrainStates
<1>3. TypeOK
  <2>1. drain \in [Drains -> DrainStates]
    BY <1>2 DEF Init
  <2>2. row \in [Rows -> {"unlogged", "outstanding", "claimed", "stale", "reported"}]
    BY DEF Init
  <2>3. organisation \in [Rows -> Organisations] /\ faults \in 0..MaxFaults
    BY FaultAssumption, OwnerAssumption DEF Init
  <2>4. counted \in SUBSET (SUBSET Rows) /\ overrun = {} /\ unmarked = {} /\ missed \in BOOLEAN
    BY DEF Init
  <2> QED BY <1>1, <2>1, <2>2, <2>3, <2>4 DEF TypeOK
<1>4. \A d \in Drains : drain[d] = Idle
  BY DEF Init
<1>5. InHand /\ SoleHolder /\ MarkingIsCounted
  BY <1>2, <1>4 DEF InHand, SoleHolder, MarkingIsCounted
<1>6. CountedIsSettled /\ ReportedIsCounted /\ CountedOnceUnlessInterrupted
  BY DEF Init, CountedIsSettled, ReportedIsCounted, CountedOnceUnlessInterrupted, Counted, RowsIn
<1> QED BY <1>3, <1>5, <1>6 DEF IInv

LEMMA StepIInv == IInv /\ [Next]_vars => IInv'
<1> SUFFICES ASSUME IInv, [Next]_vars PROVE IInv'
  OBVIOUS
<1>1. CASE UNCHANGED vars
  <2>1. TypeOK'
    BY <1>1 DEF IInv, TypeOK, NotifyTypeOK, vars, notifyVars, drainVars
  <2> QED BY <1>1, <2>1, UnchangedTables DEF vars, drainVars, Tables
<1>2. CASE Next
  BY <1>2, LogSafe, GrowsOldSafe, NotifiedSafe, ClaimSafe, ClaimFailsSafe, ReportSafe,
     CrashSafe DEF Next
<1> QED BY <1>1, <1>2

(* IInv is an inductive invariant of the outbox and its reporters.         *)
THEOREM Invariance == Spec => []IInv
<1>1. Init => IInv
  BY InitIInv
<1>2. IInv /\ [Next]_vars => IInv'
  BY StepIInv
<1> QED BY <1>1, <1>2, PTL DEF Spec

(* Type correctness, of the listener and of the outbox.                    *)
THEOREM TypeCorrect == Spec => []TypeOK
BY Invariance, PTL DEF IInv

(* Whoever marks a row, Stripe has counted it: however the drains overlap, *)
(* markReported and releaseClaim never write off a shift nobody billed.    *)
THEOREM ReportedAreCounted == Spec => []ReportedIsCounted
BY Invariance, PTL DEF IInv

(* The claim of shift-usage.reporter.ts keeps a shift out of two meter     *)
(* events, unless it grew old under a running drain, or Stripe had counted *)
(* a batch whose rows could not be marked.                                 *)
THEOREM ClaimCountsOnce == Spec => []CountedOnceUnlessInterrupted
BY Invariance, PTL DEF IInv

-----------------------------------------------------------------------------
(* Wake-ups.                                                               *)

(* No step of a connection takes a wake-up away.                           *)
LEMMA WakeUpsStay ==
  ASSUME NotifyTypeOK, NEW r \in Replicas, NotifyStep(r), NEW q \in Replicas, WillWake(q)
  PROVE  WillWake(q)'
<1> USE DEF NotifyTypeOK, WillWake
<1>1. CASE Boot(r)
  BY <1>1 DEF Boot
<1>2. CASE Subscribe(r, TRUE)
  BY <1>2 DEF Subscribe
<1>3. CASE Connect(r)
  BY <1>3 DEF Connect
<1>4. CASE ConnectFails(r)
  BY <1>4 DEF ConnectFails
<1>5. CASE Listen(r, TRUE)
  BY <1>5 DEF Listen
<1>6. CASE FireOnConnect(r)
  BY <1>6 DEF FireOnConnect
<1>7. CASE HandleDrop(r)
  BY <1>7 DEF HandleDrop
<1>8. CASE Reconnect(r)
  BY <1>8 DEF Reconnect
<1>9. CASE WindowCloses(r)
  BY <1>9 DEF WindowCloses
<1> QED BY <1>1, <1>2, <1>3, <1>4, <1>5, <1>6, <1>7, <1>8, <1>9 DEF NotifyStep

(* Where neither rows become outstanding nor wake-ups go.                  *)
LEMMA NoNewOutstanding ==
  ASSUME WakeUpsSurviveDrops, RowsIn({"outstanding"})' \subseteq RowsIn({"outstanding"}),
         missed' = missed, \A q \in Replicas : WillWake(q) => WillWake(q)'
  PROVE  WakeUpsSurviveDrops'
BY DEF WakeUpsSurviveDrops

LEMMA MayMissWakes == MayMiss => WakeUpsSurviveDrops'
BY DEF MayMiss, WakeUpsSurviveDrops

LEMMA StepWakes ==
  ASSUME TypeOK, WakeUpsSurviveDrops, Next
  PROVE  WakeUpsSurviveDrops'
<1>u. UNCHANGED notifyVars => \A q \in Replicas : WillWake(q) => WillWake(q)'
  BY DEF notifyVars, WillWake
<1>1. ASSUME NEW i \in Rows, LogShiftUsage(i) PROVE WakeUpsSurviveDrops'
  <2>1. ASSUME NEW q \in Replicas, Attentive(q) PROVE WillWake(q)'
    BY <1>1, <2>1 DEF LogShiftUsage, OnNotification, Attentive, Deaf, WillWake
  <2> QED BY <1>1, <2>1 DEF LogShiftUsage, WakeUpsSurviveDrops
<1>2. ASSUME NEW i \in Rows, ClaimGrowsOld(i) PROVE WakeUpsSurviveDrops'
  BY <1>u, <1>2, NoNewOutstanding DEF ClaimGrowsOld, RowsIn, TypeOK
<1>3. ASSUME NEW r \in Replicas, Notified(r) PROVE WakeUpsSurviveDrops'
  <2>1. CASE NotifyStep(r) /\ UNCHANGED drainVars
    BY <2>1, WakeUpsStay, NoNewOutstanding DEF TypeOK, RowsIn, drainVars
  <2>2. CASE ~(NotifyStep(r) /\ UNCHANGED drainVars)
    BY <1>3, <2>2, MayMissWakes DEF Notified
  <2> QED BY <2>1, <2>2
<1>4. ASSUME NEW r \in Replicas, Claim(r) PROVE WakeUpsSurviveDrops'
  <2>1. row' = SetRows(Claimable, "claimed")
    BY <1>4 DEF Claim
  <2>2. \A i \in Rows : row'[i] # "outstanding"
    BY <2>1 DEF SetRows, Claimable, RowsIn
  <2> QED BY <2>2 DEF WakeUpsSurviveDrops, RowsIn
<1>5. ASSUME NEW r \in Replicas, ClaimFails(r) PROVE WakeUpsSurviveDrops'
  BY <1>5, MayMissWakes DEF ClaimFails
<1>6. ASSUME NEW d \in Drains, Report(d) PROVE WakeUpsSurviveDrops'
  <2>1. CASE ReleaseClaim(d)
    BY <2>1, MayMissWakes DEF ReleaseClaim
  <2>2. CASE MarkReported(d)
    <3>1. \A i \in Rows : row'[i] = "outstanding" => row[i] = "outstanding"
      BY <2>2 DEF MarkReported, SetRows
    <3> QED BY <1>u, <2>2, <3>1, NoNewOutstanding DEF MarkReported, RowsIn
  <2>3. CASE ~ReleaseClaim(d) /\ ~MarkReported(d)
    <3>1. UNCHANGED <<notifyVars, row, missed>>
      BY <1>6, <2>3 DEF Report, Post, PostUnanswered, PostRejected, MarkFails, ReleaseFails
    <3> QED BY <1>u, <3>1, NoNewOutstanding DEF RowsIn
  <2> QED BY <2>1, <2>2, <2>3
<1>7. ASSUME NEW r \in Replicas, Crash(r) PROVE WakeUpsSurviveDrops'
  BY <1>7, MayMissWakes DEF Crash
<1> QED BY <1>1, <1>2, <1>3, <1>4, <1>5, <1>6, <1>7 DEF Next

(* PgNotifyService keeps its promise: whatever drops, reconnects slowly or *)
(* is debounced, outstanding rows have a replica on its way to drain them, *)
(* unless a failure it only logs took that away.                           *)
THEOREM WakeUpsSurvive == Spec => []WakeUpsSurviveDrops
<1>1. Init => WakeUpsSurviveDrops
  BY DEF Init, WakeUpsSurviveDrops, RowsIn
<1>2. IInv /\ WakeUpsSurviveDrops /\ [Next]_vars => WakeUpsSurviveDrops'
  <2> SUFFICES ASSUME IInv, WakeUpsSurviveDrops, [Next]_vars PROVE WakeUpsSurviveDrops'
    OBVIOUS
  <2>1. CASE UNCHANGED vars
    BY <2>1, NoNewOutstanding DEF vars, notifyVars, drainVars, RowsIn, WillWake
  <2>2. CASE Next
    BY <2>2, StepWakes DEF IInv
  <2> QED BY <2>1, <2>2
<1> QED BY <1>1, <1>2, Invariance, PTL DEF Spec

=============================================================================
