------------------------- MODULE ProductUsageProofs -------------------------
(***************************************************************************)
(* Proofs about ProductUsage, for every set of requests and keys, every    *)
(* plan catalog and every number of months: type correctness, the quota    *)
(* bound, that a queued unit is charged by its own job only, and that the  *)
(* table implements QuotaBook.                                             *)
(***************************************************************************)
EXTENDS ProductUsage, FunctionTheorems, FiniteSetTheorems, TLAPS

(***************************************************************************)
(* Type correctness.                                                       *)
(***************************************************************************)

\* Overwriting a status, a job or the age of a reservation row leaves a row.
LEMMA RowShape ==
  ASSUME NEW r \in Row
  PROVE  /\ \A s \in Status : [r EXCEPT !.status = s] \in Row
         /\ \A s \in Status, j \in Request : [r EXCEPT !.status = s, !.job = j] \in Row
         /\ \A b \in BOOLEAN : [r EXCEPT !.aged = b] \in Row
BY DEF Row

\* The expiry of any set of rows leaves a table of rows.
LEMMA ExpiredType ==
  ASSUME TypeOK, NEW ids \in SUBSET RowId
  PROVE  Expired(ids) \in [RowId -> Row]
<1>1. ASSUME NEW id \in RowId PROVE [row[id] EXCEPT !.status = "released"] \in Row
  BY RowShape DEF TypeOK, Status
<1> QED
  BY <1>1 DEF Expired, TypeOK

\* Writing one status leaves a table of rows.
LEMMA SetStatusType ==
  ASSUME TypeOK, NEW id \in RowId, NEW s \in Status, SetStatus(id, s)
  PROVE  row' \in [RowId -> Row]
BY RowShape DEF TypeOK, SetStatus

\* A call that moves on, or returns from its reserve, is still a call.
LEMMA MoveType ==
  ASSUME TypeOK, NEW q \in Request, NEW pc \in Pc, Move(q, pc) \/ Return(q, pc)
  PROVE  call' \in [Request -> Call]
<1>1. call[q] \in Call
  BY DEF TypeOK
<1>2. [call[q] EXCEPT !.pc = pc] \in Call
  BY <1>1 DEF Call
<1>3. [pc |-> pc, id |-> call[q].id, plan |-> "free", seen |-> 0, used |-> 0, stale |-> {}] \in Call
  BY <1>1, ConstantsAssumption DEF Call, Plan, Period
<1> QED
  BY <1>2, <1>3 DEF TypeOK, Move, Return

\* The rows one account can have are finitely many, so they can be counted.
LEMMA RowIdFinite == IsFiniteSet(RowId)
<1> DEFINE Pairs == Period \X Key
           Nested == Meter \X Pairs
           f == [x \in Nested |-> <<x[1], x[2][1], x[2][2]>>]
<1>1. IsFiniteSet(Meter)
  <2>1. Meter = {"detection"} \cup {"rewrite"}
    BY DEF Meter
  <2> QED
    BY <2>1, FS_Singleton, FS_AddElement
<1>2. IsFiniteSet(Period)
  BY FS_Interval, ConstantsAssumption DEF Period
<1>3. IsFiniteSet(Pairs)
  BY <1>2, FS_Product, ConstantsAssumption
<1>4. IsFiniteSet(Nested)
  BY <1>1, <1>3, FS_Product
<1>5. f \in Surjection(Nested, RowId)
  <2>1. f \in [Nested -> RowId]
    BY DEF RowId
  <2>2. ASSUME NEW t \in RowId PROVE \E s \in Nested : f[s] = t
    <3>1. <<t[1], <<t[2], t[3]>>>> \in Nested
      BY DEF RowId
    <3>2. f[<<t[1], <<t[2], t[3]>>>>] = t
      BY <3>1 DEF RowId
    <3> QED
      BY <3>1, <3>2
  <2> QED
    BY <2>1, <2>2 DEF Surjection
<1> QED
  BY <1>4, <1>5, FS_Surjection

\* A month's usage is a number, before and after a step.
LEMMA UsageType ==
  ASSUME NEW m, NEW p
  PROVE  /\ IsFiniteSet(CountedRows(m, p))
         /\ IsFiniteSet(CountedRows(m, p)')
         /\ Usage(m, p) \in Nat
         /\ Usage(m, p)' \in Nat
<1>1. CountedRows(m, p) \in SUBSET RowId /\ CountedRows(m, p)' \in SUBSET RowId
  BY DEF CountedRows
<1>2. IsFiniteSet(CountedRows(m, p)) /\ IsFiniteSet(CountedRows(m, p)')
  BY <1>1, RowIdFinite, FS_Subset
<1> QED
  BY <1>2, FS_CardinalityType DEF Usage

\* The empty table with idle requests is well typed.
LEMMA InitType == Init => TypeOK
<1> SUFFICES ASSUME Init PROVE TypeOK
  OBVIOUS
<1>1. row \in [RowId -> Row]
  BY ConstantsAssumption DEF Init, Row, Status, Period
<1>2. call \in [Request -> Call]
  <2>1. ASSUME NEW q \in Request PROVE <<MeterOf[q], 0, KeyOf[q]>> \in RowId
    BY ConstantsAssumption DEF RowId, Period
  <2>2. ASSUME NEW id \in RowId
        PROVE [pc |-> "idle", id |-> id, plan |-> "free", seen |-> 0, used |-> 0, stale |-> {}] \in Call
    BY ConstantsAssumption DEF Call, Pc, Plan, Period
  <2>3. ASSUME NEW q \in Request
        PROVE [pc |-> "idle", id |-> <<MeterOf[q], 0, KeyOf[q]>>, plan |-> "free",
               seen |-> 0, used |-> 0, stale |-> {}] \in Call
    BY <2>1, <2>2
  <2> QED
    BY <2>3 DEF Init
<1>3. period \in Period /\ view \in SUBSET RowId
  BY ConstantsAssumption DEF Init, Period
<1> QED
  BY <1>1, <1>2, <1>3 DEF TypeOK

\* Every step keeps the types; one step of the proof per action.
LEMMA NextType == TypeOK /\ [Next]_vars => TypeOK'
<1> SUFFICES ASSUME TypeOK, [Next]_vars PROVE TypeOK'
  OBVIOUS
<1> USE ConstantsAssumption
<1>0. \A q \in Request : call[q] \in Call
  BY DEF TypeOK
<1>0a. \A q \in Request : call[q].id \in RowId /\ call[q].stale \in SUBSET RowId
  BY <1>0 DEF Call
<1>1. ASSUME NEW q \in Request, NEW p \in Plan, Arrive(q, p) PROVE TypeOK'
  <2>1. <<MeterOf[q], period, KeyOf[q]>> \in RowId
    BY DEF RowId, TypeOK
  <2>2. [call[q] EXCEPT !.pc = "waiting", !.id = <<MeterOf[q], period, KeyOf[q]>>, !.plan = p] \in Call
    BY <1>0, <2>1 DEF Call, Pc
  <2> QED
    BY <1>1, <2>2 DEF Arrive, TypeOK
<1>2. ASSUME NEW q \in Request, Examine(q) PROVE TypeOK'
  <2>1. Usage(MeterOf[q], period) \in Nat /\ StaleRows \in SUBSET RowId
    BY UsageType DEF StaleRows
  <2>2. [call[q] EXCEPT !.pc = "admitted", !.seen = period, !.used = Usage(MeterOf[q], period),
                        !.stale = StaleRows] \in Call
    BY <1>0, <2>1 DEF Call, Pc, TypeOK
  <2> QED
    BY <1>2, <2>2 DEF Examine, TypeOK
<1>3. ASSUME NEW q \in Request, RejectDuplicate(q) \/ Crash(q) PROVE TypeOK'
  <2>1. call' \in [Request -> Call]
    BY <1>3, MoveType DEF RejectDuplicate, Crash, Pc
  <2> QED
    BY <1>3, <2>1 DEF RejectDuplicate, Crash, TypeOK
<1>4. ASSUME NEW q \in Request, RejectQuota(q) PROVE TypeOK'
  <2>1. call' \in [Request -> Call] /\ row' \in [RowId -> Row]
    BY <1>4, <1>0a, MoveType, ExpiredType DEF RejectQuota, Pc
  <2> QED
    BY <1>4, <2>1 DEF RejectQuota, TypeOK
<1>5. ASSUME NEW q \in Request, Admit(q) PROVE TypeOK'
  <2>1. Own(q).job \in Request \cup {NoJob}
    BY <1>0a DEF Own, TypeOK, Row
  <2>2. [status |-> "reserved", period |-> period, aged |-> FALSE, job |-> Own(q).job] \in Row
    BY <2>1 DEF Row, Status, Counted, Open, TypeOK
  <2>3. Expired(call[q].stale) \in [RowId -> Row]
    BY <1>0a, ExpiredType
  <2>4. call' \in [Request -> Call]
    BY <1>5, MoveType DEF Admit, TakeUnit, Pc
  <2> QED
    BY <1>5, <2>2, <2>3, <2>4 DEF Admit, TakeUnit, TypeOK
<1>6. ASSUME NEW q \in Request, NEW c \in BOOLEAN, FinalizeHeld(q, c) PROVE TypeOK'
  <2>1. call' \in [Request -> Call]
    BY <1>6, MoveType DEF FinalizeHeld, Pc
  <2>2. row' \in [RowId -> Row]
    BY <1>6, <1>0a, SetStatusType DEF FinalizeHeld, TypeOK, Status, Counted
  <2> QED
    BY <1>6, <2>1, <2>2 DEF FinalizeHeld, TypeOK
<1>7. ASSUME NEW q \in Request, QueueUsage(q) PROVE TypeOK'
  <2>1. call' \in [Request -> Call]
    BY <1>7, MoveType DEF QueueUsage, Pc
  <2>2. [row[call[q].id] EXCEPT !.status = "queued", !.job = q] \in Row
    BY <1>0a, RowShape DEF TypeOK, Status, Counted, Open
  <2>3. row' = [row EXCEPT ![call[q].id] = [row[call[q].id] EXCEPT !.status = "queued", !.job = q]]
    BY <1>7, <1>0a DEF QueueUsage, TypeOK
  <2> QED
    BY <1>7, <2>1, <2>2, <2>3 DEF QueueUsage, TypeOK
<1>8. ASSUME NEW q \in Request, QueueRefused(q) \/ ClaimUsage(q) \/ BlockDuplicate(q) \/ Rollback(q)
      PROVE TypeOK'
  <2>1. call' \in [Request -> Call]
    BY <1>8, MoveType DEF QueueRefused, ClaimUsage, BlockDuplicate, Rollback, Pc
  <2> QED
    BY <1>8, <2>1 DEF QueueRefused, ClaimUsage, BlockDuplicate, Rollback, TypeOK
<1>9. ASSUME NEW q \in Request, NEW c \in BOOLEAN, Settle(q, c) \/ IgnoreDelivery(q) PROVE TypeOK'
  <2>1. call' \in [Request -> Call]
    BY <1>9, MoveType DEF Settle, IgnoreDelivery, Pc
  <2>2. row' \in [RowId -> Row]
    BY <1>9, <1>0a, SetStatusType DEF Settle, IgnoreDelivery, Status, Counted
  <2> QED
    BY <1>9, <2>1, <2>2 DEF Settle, IgnoreDelivery, TypeOK
<1>10. ASSUME NEW id \in RowId, Age(id) PROVE TypeOK'
  <2>1. [row[id] EXCEPT !.aged = TRUE] \in Row
    BY RowShape DEF TypeOK
  <2> QED
    BY <1>10, <2>1 DEF Age, TypeOK
<1>11. ASSUME ViewSummary PROVE TypeOK'
  BY <1>11 DEF ViewSummary, TypeOK, StaleRows
<1>12. ASSUME CommitSummary PROVE TypeOK'
  BY <1>12, ExpiredType DEF CommitSummary, TypeOK
<1>13. ASSUME NextMonth PROVE TypeOK'
  BY <1>13 DEF NextMonth, TypeOK, Period
<1>14. CASE UNCHANGED vars
  BY <1>14 DEF vars, TypeOK
<1> QED
  BY <1>1, <1>2, <1>3, <1>4, <1>5, <1>6, <1>7, <1>8, <1>9, <1>10, <1>11, <1>12, <1>13, <1>14
  DEF Next, Reserving, Holding, Delivering

\* The reservation table, the month and the state of every request keep their
\* types in every behavior of the reserve, queue, claim and finalize functions.
THEOREM TypeCorrect == Spec => []TypeOK
BY InitType, NextType, PTL DEF Spec

(***************************************************************************)
(* The quota bound.  Only Admit adds a counted unit; every other step lets *)
(* the counted units of each month shrink or stay (Shrinks).               *)
(***************************************************************************)

Shrinks ==
  \A id \in RowId :
    row'[id].status \in Counted
      => row[id].status \in Counted /\ row'[id].period = row[id].period

\* A shrinking step raises no month's usage.
LEMMA ShrinkUsage ==
  ASSUME Shrinks, NEW m, NEW p
  PROVE  Usage(m, p)' <= Usage(m, p)
<1>1. CountedRows(m, p)' \in SUBSET CountedRows(m, p)
  BY DEF Shrinks, CountedRows
<1> QED
  BY <1>1, UsageType, FS_Subset DEF Usage

\* Such a step keeps the bounds of a request between count and commit.
LEMMA CountStep ==
  ASSUME TypeOK, TypeOK', ReserveInv, Shrinks, period' >= period,
         \A r \in Request : call'[r].pc = "admitted" => call'[r] = call[r]
  PROVE  /\ CountBounds'
         /\ \A id \in RowId : row'[id].status \in Counted => row'[id].period <= period'
<1>1. ASSUME NEW q \in Request, call'[q].pc = "admitted"
      PROVE  /\ \A r \in Request : call'[r].pc = "admitted" => r = q
             /\ call'[q].seen <= period'
             /\ Usage(MeterOf[q], call[q].seen)' <= call'[q].used
             /\ \A id \in RowId : row'[id].status \in Counted => row'[id].period <= call'[q].seen
  <2>1. call'[q] = call[q] /\ q \in At({"admitted"})
    BY <1>1 DEF At
  <2>2. /\ call[q].seen \in Int /\ call[q].used \in Int /\ period \in Int /\ period' \in Int
    BY ConstantsAssumption DEF TypeOK, Call, Period
  <2>3. /\ \A r \in At({"admitted"}) : r = q
        /\ call[q].seen <= period
        /\ Usage(MeterOf[q], call[q].seen) <= call[q].used
        /\ \A id \in RowId : row[id].status \in Counted => row[id].period <= call[q].seen
    BY <2>1 DEF ReserveInv, CountBounds
  <2>4. \A r \in Request : call'[r].pc = "admitted" => r = q
    BY <2>3 DEF At
  <2>5. PICK m, p : m = MeterOf[q] /\ p = call[q].seen
    OBVIOUS
  <2>6. Usage(m, p)' <= Usage(m, p) /\ Usage(m, p)' \in Nat /\ Usage(m, p) \in Nat
    BY ShrinkUsage, UsageType
  <2>7. Usage(MeterOf[q], call[q].seen)' = Usage(m, p)'
    BY <2>1, <2>5 DEF Usage, CountedRows
  <2>8. Usage(MeterOf[q], call[q].seen)' <= call'[q].used
    BY <2>1, <2>2, <2>3, <2>5, <2>6, <2>7
  <2>9. call'[q].seen <= period'
    BY <2>1, <2>2, <2>3
  <2>10. \A id \in RowId : row'[id].status \in Counted => row'[id].period <= call'[q].seen
    BY <2>1, <2>3 DEF Shrinks
  <2> QED
    BY <2>4, <2>8, <2>9, <2>10
<1>2. CountBounds'
  BY <1>1 DEF CountBounds, At
<1>3. ASSUME NEW id \in RowId, row'[id].status \in Counted PROVE row'[id].period <= period'
  <2>1. row[id].status \in Counted /\ row'[id].period = row[id].period
    BY <1>3 DEF Shrinks
  <2>2. row[id].period <= period
    BY <2>1 DEF ReserveInv
  <2>3. row[id].period \in Int /\ period \in Int /\ period' \in Int
    BY ConstantsAssumption DEF TypeOK, Row, Period
  <2> QED
    BY <2>1, <2>2, <2>3
<1> QED
  BY <1>2, <1>3

\* A step that starts no claim, queues nothing and leaves claimed rows alone.
LEMMA ClaimStep ==
  ASSUME TypeOK, TypeOK', ReserveInv,
         \A r \in Request : call'[r].pc = "running"
            => /\ call[r].pc = "running" /\ call'[r].id = call[r].id
               /\ row'[call[r].id].status = row[call[r].id].status
               /\ row'[call[r].id].job = row[call[r].id].job,
         \A id \in RowId : row'[id].status = "queued" => row[id].status = "queued"
  PROVE  ClaimHolds'
<1>1. ASSUME NEW r \in Request, call'[r].pc = "running"
      PROVE  row'[call'[r].id].status = "queued" /\ row'[call'[r].id].job = r
  BY <1>1 DEF ReserveInv, ClaimHolds, At, Own
<1> QED
  BY <1>1 DEF ClaimHolds, ReserveInv, At, Own

\* A call that returns or moves keeps its meter.
LEMMA MeterStep ==
  ASSUME TypeOK, ReserveInv,
         \A r \in Request : call'[r].id = call[r].id
  PROVE  \A q \in Request : call'[q].id[1] = MeterOf[q]
BY DEF ReserveInv

\* Steps that give back or charge units no worker has claimed, and move calls
\* forward without counting, claiming or queueing.
Releases ==
  /\ Shrinks /\ period' = period
  /\ \A r \in Request : /\ call'[r].id = call[r].id
                        /\ call'[r].pc \in {"admitted", "holding", "running"} => call'[r] = call[r]
  /\ \A id \in RowId : /\ row'[id].status = "queued" => row[id].status = "queued"
                       /\ row'[id].job = row[id].job
  /\ \A r \in Request : call'[r].pc = "running"
                         => row'[call[r].id].status = row[call[r].id].status

\* Such a step keeps the count bounds and the claims.
LEMMA ReleaseStep ==
  ASSUME TypeOK, TypeOK', ReserveInv, Releases
  PROVE  ReserveInv'
<1>1. period' >= period
  BY ConstantsAssumption DEF TypeOK, Period, Releases
<1>2. CountBounds' /\ \A id \in RowId : row'[id].status \in Counted => row'[id].period <= period'
  BY <1>1, CountStep DEF Releases
<1>3. \A r \in Request : call[r].id \in RowId
  BY DEF TypeOK, Call
<1>4. ClaimHolds'
  BY <1>3, ClaimStep DEF Releases
<1>5. \A q \in Request : call'[q].id[1] = MeterOf[q]
  BY MeterStep DEF Releases
<1> QED
  BY <1>2, <1>4, <1>5 DEF ReserveInv

\* Steps that move one call and leave the table alone.
LEMMA QuietStep ==
  ASSUME TypeOK, row' = row, period' = period,
         NEW q \in Request, NEW c \in Pc \ {"admitted", "holding", "running"},
         Move(q, c) \/ Return(q, c)
  PROVE  Releases
<1>1. Shrinks
  BY DEF Shrinks
<1>2. \A r \in Request : /\ call'[r].id = call[r].id
                         /\ call'[r].pc \in {"admitted", "holding", "running"} => call'[r] = call[r]
  BY DEF Move, Return, TypeOK, Call
<1> QED
  BY <1>1, <1>2 DEF Releases

\* The expiry of rows that are not locked, by a request or a summary.
LEMMA ExpireStep ==
  ASSUME TypeOK, NEW ids \in SUBSET RowId, ids \cap LockedRows = {},
         row' = Expired(ids), period' = period,
         \A r \in Request : /\ call'[r].id = call[r].id
                            /\ call'[r].pc \in {"admitted", "holding", "running"} => call'[r] = call[r]
  PROVE  Releases
<1>1. \A id \in RowId : /\ row'[id].period = row[id].period
                        /\ row'[id].job = row[id].job
                        /\ row'[id].status \in {row[id].status, "released"}
                        /\ id \notin ids => row'[id].status = row[id].status
  BY DEF Expired, TypeOK, Row
<1>2. Shrinks
  BY <1>1 DEF Shrinks, Counted, Open
<1>3. \A r \in Request : call'[r].pc = "running" => call[r].id \in LockedRows /\ call[r].id \in RowId
  BY DEF LockedRows, At, TypeOK, Call
<1> QED
  BY <1>1, <1>2, <1>3 DEF Releases

\* One open, unlocked row released or consumed.
LEMMA FinishStep ==
  ASSUME TypeOK, NEW id \in RowId, NEW s \in {"released", "consumed"}, SetStatus(id, s),
         IsOpen(row[id]), period' = period,
         \A r \in Request : /\ call'[r].id = call[r].id
                            /\ call'[r].pc \in {"admitted", "holding", "running"} => call'[r] = call[r],
         \A r \in Request : call'[r].pc = "running" => call[r].id # id
  PROVE  Releases
<1>1. \A i \in RowId : /\ row'[i].period = row[i].period
                       /\ row'[i].job = row[i].job
                       /\ row'[i].status = IF i = id THEN s ELSE row[i].status
  BY DEF SetStatus, TypeOK, Row
<1>2. Shrinks
  BY <1>1 DEF Shrinks, Counted, IsOpen
<1>3. \A r \in Request : call[r].id \in RowId
  BY DEF TypeOK, Call
<1> QED
  BY <1>1, <1>2, <1>3 DEF Releases

\* An admitted request meets the rows it counted, whatever else it overwrites.
LEMMA AdmitRows ==
  ASSUME TypeOK, NEW q \in Request, Admit(q)
  PROVE  /\ call[q].id \in RowId
         /\ row'[call[q].id].status = "reserved" /\ row'[call[q].id].period = period
         /\ \A id \in RowId \ {call[q].id} :
              /\ row'[id].period = row[id].period
              /\ row'[id].job = row[id].job
              /\ row'[id].status \in {row[id].status, "released"}
              /\ id \in LockedRows => row'[id].status = row[id].status
         /\ call[q].id \notin LockedRows
<1>1. call[q].id \in RowId /\ call[q].stale \in SUBSET RowId
  BY DEF TypeOK, Call
<1>2. \A id \in RowId \ {call[q].id} : row'[id] = Expired(call[q].stale)[id]
  BY <1>1 DEF Admit, TakeUnit, Expired
<1>3. \A id \in RowId :
        /\ Expired(call[q].stale)[id].period = row[id].period
        /\ Expired(call[q].stale)[id].job = row[id].job
        /\ Expired(call[q].stale)[id].status \in {row[id].status, "released"}
        /\ id \notin call[q].stale => Expired(call[q].stale)[id].status = row[id].status
  BY DEF Expired, TypeOK, Row
<1>4. row'[call[q].id] = [status |-> "reserved", period |-> period, aged |-> FALSE, job |-> Own(q).job]
  BY <1>1 DEF Admit, TakeUnit, Expired
<1> QED
  BY <1>1, <1>2, <1>3, <1>4 DEF Admit, TakeUnit

\* An admission moves only its own request.
LEMMA AdmitCalls ==
  ASSUME TypeOK, NEW q \in Request, Admit(q)
  PROVE  /\ call[q].pc = "admitted" /\ call'[q].pc = "holding"
         /\ \A r \in Request : call'[r].id = call[r].id
         /\ \A r \in Request \ {q} : call'[r] = call[r]
BY DEF Admit, TakeUnit, Return, TypeOK, Call

\* The unit an admission adds fits its month: either the month is the one it
\* counted, or it is a later one, in which no unit lies yet.
LEMMA AdmitUsage ==
  ASSUME TypeOK, ReserveInv, NEW q \in Request, Admit(q)
  PROVE  Usage(MeterOf[q], period)' <= Quota[call[q].plan][MeterOf[q]]
<1>1. PICK m, n, p : m = MeterOf[q] /\ n = period /\ p = call[q].plan
  OBVIOUS
<1>2. /\ m \in Meter /\ n \in Int /\ p \in Plan /\ call[q].seen \in Int /\ call[q].used \in Int
      /\ Quota[p][m] \in Int
  BY <1>1, ConstantsAssumption DEF TypeOK, Call, Period, Meter, Plan
<1>3. /\ call[q].seen <= n
      /\ Usage(m, call[q].seen) <= call[q].used
      /\ \A id \in RowId : row[id].status \in Counted => row[id].period <= call[q].seen
      /\ call[q].used + 1 <= Quota[p][m]
  BY <1>1, AdmitCalls DEF ReserveInv, CountBounds, At, Admit, TakeUnit
<1>4. CountedRows(m, n)' \subseteq CountedRows(m, n) \cup {call[q].id}
  <2>1. ASSUME NEW id \in RowId \ {call[q].id}, id[1] = m, row'[id].period = n, row'[id].status \in Counted
        PROVE  row[id].period = n /\ row[id].status \in Counted
    BY <2>1, AdmitRows DEF Counted, Open
  <2> QED
    BY <2>1 DEF CountedRows
<1>5. /\ IsFiniteSet(CountedRows(m, n) \cup {call[q].id})
      /\ Cardinality(CountedRows(m, n) \cup {call[q].id}) <= Usage(m, n) + 1
  <2>1. IsFiniteSet(CountedRows(m, n)) /\ Usage(m, n) \in Nat
    BY UsageType
  <2>2. PICK S, x : S = CountedRows(m, n) /\ x = call[q].id
    OBVIOUS
  <2>3. /\ IsFiniteSet(S \cup {x})
        /\ Cardinality(S \cup {x}) = Cardinality(S) \/ Cardinality(S \cup {x}) = Cardinality(S) + 1
    BY <2>1, <2>2, FS_AddElement
  <2> QED
    BY <2>1, <2>2, <2>3 DEF Usage
<1>6. Usage(m, n)' <= Usage(m, n) + 1
  <2>1. Usage(m, n)' <= Cardinality(CountedRows(m, n) \cup {call[q].id})
    BY <1>4, <1>5, FS_Subset DEF Usage
  <2>2. Cardinality(CountedRows(m, n) \cup {call[q].id}) \in Nat
    BY <1>5, FS_CardinalityType
  <2> QED
    BY <1>5, <2>1, <2>2, UsageType
<1>7. ASSUME call[q].seen = n PROVE Usage(m, n)' <= Quota[p][m]
  BY <1>2, <1>3, <1>6, <1>7, UsageType
<1>8. ASSUME call[q].seen < n PROVE Usage(m, n)' <= Quota[p][m]
  <2>1. CountedRows(m, n) = {}
    <3>1. ASSUME NEW id \in RowId, row[id].status \in Counted PROVE row[id].period # n
      <4>1. row[id].period <= call[q].seen /\ row[id].period \in Int
        BY <1>3, <3>1, ConstantsAssumption DEF TypeOK, Row, Period
      <4> QED
        BY <1>2, <1>8, <4>1
    <3> QED
      BY <3>1 DEF CountedRows
  <2>2. Usage(m, n) = 0
    BY <2>1, FS_EmptySet DEF Usage
  <2>3. 1 <= Quota[p][m]
    BY <1>2, QuotaAssumption, ConstantsAssumption DEF Plan
  <2> QED
    BY <1>2, <1>6, <2>2, <2>3, UsageType
<1>9. Usage(m, n)' <= Quota[p][m]
  BY <1>2, <1>3, <1>7, <1>8
<1>10. Usage(MeterOf[q], period)' = Usage(m, n)'
  BY <1>1 DEF Usage, CountedRows, Admit, TakeUnit
<1> QED
  BY <1>1, <1>9, <1>10

(***************************************************************************)
(* ReserveInv is inductive.                                                *)
(***************************************************************************)

\* Nothing is counted, admitted or claimed at the start.
LEMMA InitReserveInv == Init => ReserveInv
<1> SUFFICES ASSUME Init PROVE ReserveInv
  OBVIOUS
<1>1. \A id \in RowId : row[id].status = "none"
  BY DEF Init
<1>2. \A q \in Request : call[q].pc = "idle" /\ call[q].id[1] = MeterOf[q]
  BY DEF Init
<1> QED
  BY <1>1, <1>2 DEF ReserveInv, CountBounds, ClaimHolds, At, Counted, Open

\* Every step gives back, charges or moves on, but for the six that follow.
LEMMA StepKinds ==
  TypeOK /\ ReserveInv /\ [Next]_vars
    => \/ Releases \/ NextMonth
       \/ \E q \in Request : \/ Examine(q) \/ Admit(q) \/ QueueUsage(q) \/ ClaimUsage(q)
                            \/ \E p \in Plan : Arrive(q, p)
<1> SUFFICES ASSUME TypeOK, ReserveInv, [Next]_vars
             PROVE  \/ Releases \/ NextMonth
                    \/ \E q \in Request : \/ Examine(q) \/ Admit(q) \/ QueueUsage(q) \/ ClaimUsage(q)
                                         \/ \E p \in Plan : Arrive(q, p)
  OBVIOUS
<1>0. \A q \in Request : call[q].id \in RowId /\ call[q].stale \in SUBSET RowId
  BY DEF TypeOK, Call
<1>1. ASSUME NEW q \in Request,
             RejectDuplicate(q) \/ QueueRefused(q) \/ Crash(q) \/ BlockDuplicate(q) \/ Rollback(q)
      PROVE Releases
  <2>1. PICK c \in Pc \ {"admitted", "holding", "running"} : Move(q, c) \/ Return(q, c)
    BY <1>1 DEF RejectDuplicate, QueueRefused, Crash, BlockDuplicate, Rollback, Pc
  <2>2. row' = row /\ period' = period
    BY <1>1 DEF RejectDuplicate, QueueRefused, Crash, BlockDuplicate, Rollback
  <2> QED
    BY <2>1, <2>2, QuietStep
<1>2. ASSUME NEW q \in Request, RejectQuota(q) PROVE Releases
  <2>1. /\ call[q].stale \in SUBSET RowId /\ call[q].stale \cap LockedRows = {}
        /\ row' = Expired(call[q].stale) /\ period' = period
    BY <1>0, <1>2 DEF RejectQuota
  <2>2. \A r \in Request : /\ call'[r].id = call[r].id
                           /\ call'[r].pc \in {"admitted", "holding", "running"} => call'[r] = call[r]
    BY <1>2 DEF RejectQuota, Return, TypeOK, Call
  <2> QED
    BY <2>1, <2>2, ExpireStep
<1>3. ASSUME NEW q \in Request, NEW c \in BOOLEAN, FinalizeHeld(q, c) PROVE Releases
  <2>1. /\ Move(q, "done") /\ period' = period /\ call[q].id \notin LockedRows
        /\ \/ row' = row
           \/ /\ IsOpen(row[call[q].id])
              /\ SetStatus(call[q].id, IF c THEN "consumed" ELSE "released")
    BY <1>3 DEF FinalizeHeld, Own
  <2>2. \A r \in Request : /\ call'[r].id = call[r].id
                           /\ call'[r].pc \in {"admitted", "holding", "running"} => call'[r] = call[r]
    BY <2>1 DEF Move, TypeOK, Call
  <2>3. \A r \in Request : call'[r].pc = "running" => call[r].id # call[q].id
    BY <2>1, <2>2 DEF LockedRows, At
  <2> QED
    <3>1. CASE row' = row
      BY <2>1, <3>1, QuietStep DEF Pc
    <3>2. CASE IsOpen(row[call[q].id]) /\ SetStatus(call[q].id, IF c THEN "consumed" ELSE "released")
      BY <1>0, <2>1, <2>2, <2>3, <3>2, FinishStep
    <3> QED
      BY <2>1, <3>1, <3>2
<1>4. ASSUME NEW q \in Request, NEW c \in BOOLEAN, Settle(q, c) PROVE Releases
  <2>1. /\ call[q].pc = "running" /\ Move(q, "finished") /\ period' = period
        /\ SetStatus(call[q].id, IF c THEN "consumed" ELSE "released")
    BY <1>4 DEF Settle
  <2>2. row[call[q].id].status = "queued" /\ row[call[q].id].job = q
    BY <2>1 DEF ReserveInv, ClaimHolds, At, Own
  <2>3. \A r \in Request : /\ call'[r].id = call[r].id
                           /\ call'[r].pc \in {"admitted", "holding", "running"} => call'[r] = call[r] /\ r # q
    BY <2>1 DEF Move, TypeOK, Call
  <2>4. \A r \in Request : call'[r].pc = "running" => call[r].id # call[q].id
    BY <2>2, <2>3 DEF ReserveInv, ClaimHolds, At, Own
  <2> QED
    BY <1>0, <2>1, <2>2, <2>3, <2>4, FinishStep DEF IsOpen, Open
<1>5. ASSUME NEW q \in Request, IgnoreDelivery(q) PROVE Releases
  <2>1. /\ Move(q, "finished") /\ period' = period /\ call[q].id \notin LockedRows
        /\ IsOpen(row[call[q].id]) /\ SetStatus(call[q].id, "released")
    BY <1>5 DEF IgnoreDelivery, Own
  <2>2. \A r \in Request : /\ call'[r].id = call[r].id
                           /\ call'[r].pc \in {"admitted", "holding", "running"} => call'[r] = call[r]
    BY <2>1 DEF Move, TypeOK, Call
  <2>3. \A r \in Request : call'[r].pc = "running" => call[r].id # call[q].id
    BY <2>1, <2>2 DEF LockedRows, At
  <2> QED
    BY <1>0, <2>1, <2>2, <2>3, FinishStep
<1>6. ASSUME ViewSummary PROVE Releases
  <2> QED
    BY <1>6 DEF ViewSummary, Releases, Shrinks
<1>7. ASSUME CommitSummary PROVE Releases
  <2> QED
    BY <1>7, ExpireStep DEF CommitSummary, TypeOK
<1>8. ASSUME NEW id \in RowId, Age(id) PROVE Releases
  <2>1. call' = call /\ period' = period
    BY <1>8 DEF Age
  <2>2. \A i \in RowId : /\ row'[i].period = row[i].period
                         /\ row'[i].job = row[i].job
                         /\ row'[i].status = row[i].status
    BY <1>8 DEF Age, TypeOK, Row
  <2> QED
    BY <1>0, <2>1, <2>2 DEF Releases, Shrinks
<1>9. ASSUME UNCHANGED vars PROVE Releases
  <2> QED
    BY <1>9 DEF vars, Releases, Shrinks
<1> QED
  BY <1>1, <1>2, <1>3, <1>4, <1>5, <1>6, <1>7, <1>8, <1>9
  DEF Next, Reserving, Holding, Delivering

\* The six kinds of steps that do not merely release keep ReserveInv as well.
LEMMA NextReserveInv == TypeOK /\ TypeOK' /\ ReserveInv /\ [Next]_vars => ReserveInv'
<1> SUFFICES ASSUME TypeOK, TypeOK', ReserveInv, [Next]_vars PROVE ReserveInv'
  OBVIOUS
<1>0. \A q \in Request : call[q].id \in RowId /\ call[q].stale \in SUBSET RowId
  BY DEF TypeOK, Call
<1>0a. period \in Int /\ period' \in Int
  BY ConstantsAssumption DEF TypeOK, Period
<1>1. ASSUME NEW q \in Request, NEW p \in Plan, Arrive(q, p) PROVE ReserveInv'
  <2>1. /\ \A r \in Request \ {q} : call'[r] = call[r]
        /\ call'[q].pc = "waiting" /\ call'[q].id[1] = MeterOf[q]
        /\ row' = row /\ period' = period
    BY <1>1 DEF Arrive, TypeOK, Call
  <2>2. Shrinks
    BY <2>1 DEF Shrinks
  <2>3. CountBounds' /\ \A id \in RowId : row'[id].status \in Counted => row'[id].period <= period'
    BY <1>0a, <2>1, <2>2, CountStep
  <2>4. ClaimHolds'
    BY <2>1, ClaimStep
  <2> QED
    BY <2>1, <2>3, <2>4 DEF ReserveInv
<1>2. ASSUME NEW q \in Request, Examine(q) PROVE ReserveInv'
  <2>1. /\ \A r \in Request \ {q} : call'[r] = call[r] /\ call[r].pc # "admitted"
        /\ call'[q].pc = "admitted" /\ call'[q].id = call[q].id
        /\ call'[q].seen = period /\ call'[q].used = Usage(MeterOf[q], period)
        /\ row' = row /\ period' = period
    BY <1>2 DEF Examine, TypeOK, Call, AccountLocked, At
  <2>2. PICK m, n : m = MeterOf[q] /\ n = period
    OBVIOUS
  <2>3. Usage(MeterOf[q], call[q].seen)' = Usage(m, n)
    BY <2>1, <2>2 DEF Usage, CountedRows
  <2>4. Usage(MeterOf[q], call[q].seen)' <= call'[q].used
    BY <2>1, <2>2, <2>3, UsageType
  <2>5. \A id \in RowId : row'[id].status \in Counted => row'[id].period <= period'
    BY <2>1 DEF ReserveInv
  <2>6. CountBounds'
    BY <1>0a, <2>1, <2>4, <2>5 DEF CountBounds, At
  <2>7. ClaimHolds'
    BY <2>1, ClaimStep
  <2> QED
    BY <2>1, <2>5, <2>6, <2>7 DEF ReserveInv
<1>3. ASSUME NEW q \in Request, Admit(q) PROVE ReserveInv'
  <2>1. \A r \in Request : call'[r].pc # "admitted"
    BY <1>3, AdmitCalls DEF ReserveInv, CountBounds, At
  <2>2. CountBounds'
    BY <2>1 DEF CountBounds, At
  <2>3. ASSUME NEW id \in RowId, row'[id].status \in Counted PROVE row'[id].period <= period'
    <3>1. CASE id = call[q].id
      BY <1>0a, <1>3, <3>1, AdmitRows DEF Admit, TakeUnit
    <3>2. CASE id # call[q].id
      BY <1>3, <2>3, <3>2, AdmitRows DEF ReserveInv, Admit, TakeUnit, Counted, Open
    <3> QED
      BY <3>1, <3>2
  <2>4. ASSUME NEW r \in Request, call'[r].pc = "running"
        PROVE  /\ call[r].pc = "running" /\ call'[r].id = call[r].id
               /\ row'[call[r].id].status = row[call[r].id].status
               /\ row'[call[r].id].job = row[call[r].id].job
    <3>1. call'[r] = call[r] /\ call[r].id \in LockedRows
      BY <1>3, <2>4, AdmitCalls DEF LockedRows, At
    <3> QED
      BY <1>0, <1>3, <2>4, <3>1, AdmitRows
  <2>5. ASSUME NEW id \in RowId, row'[id].status = "queued" PROVE row[id].status = "queued"
    BY <1>3, <2>5, AdmitRows
  <2>6. ClaimHolds'
    BY <2>4, <2>5, ClaimStep
  <2>7. \A r \in Request : call'[r].id[1] = MeterOf[r]
    BY <1>3, AdmitCalls, MeterStep
  <2> QED
    BY <2>2, <2>3, <2>6, <2>7 DEF ReserveInv
<1>4. ASSUME NEW q \in Request, QueueUsage(q) PROVE ReserveInv'
  <2>1. \A id \in RowId : /\ row'[id].period = row[id].period
                          /\ id # call[q].id => row'[id] = row[id]
    BY <1>0, <1>4 DEF QueueUsage, TypeOK, Row
  <2>2. /\ \A r \in Request : call'[r].id = call[r].id
        /\ \A r \in Request \ {q} : call'[r] = call[r]
        /\ call'[q].pc = "queued" /\ period' = period
        /\ row[call[q].id].status = "reserved" /\ call[q].id \notin LockedRows
        /\ Celery /\ MeterOf[q] = "detection"
    BY <1>4 DEF QueueUsage, Move, TypeOK, Call, Own, Queues
  <2>3. Shrinks
    BY <2>1, <2>2 DEF Shrinks, Counted, Open
  <2>4. CountBounds' /\ \A id \in RowId : row'[id].status \in Counted => row'[id].period <= period'
    BY <1>0a, <2>2, <2>3, CountStep
  <2>5. ASSUME NEW r \in Request, call'[r].pc = "running"
        PROVE  row'[call'[r].id].status = "queued" /\ row'[call'[r].id].job = r
    <3>1. call[r].pc = "running" /\ call[r].id \in LockedRows
      BY <2>2, <2>5 DEF LockedRows, At
    <3> QED
      BY <1>0, <2>1, <2>2, <3>1 DEF ReserveInv, ClaimHolds, At, Own
  <2>6. ASSUME NEW id \in RowId, row'[id].status = "queued" PROVE Celery /\ id[1] = "detection"
    BY <2>1, <2>2, <2>6 DEF ReserveInv, ClaimHolds
  <2> QED
    BY <2>2, <2>4, <2>5, <2>6 DEF ReserveInv, ClaimHolds, At, Own
<1>5. ASSUME NEW q \in Request, ClaimUsage(q) PROVE ReserveInv'
  <2>1. /\ \A r \in Request : call'[r].id = call[r].id
        /\ \A r \in Request \ {q} : call'[r] = call[r]
        /\ call'[q].pc = "running" /\ period' = period /\ row' = row
        /\ row[call[q].id].status = "queued" /\ row[call[q].id].job = q
    BY <1>5 DEF ClaimUsage, Move, TypeOK, Call, Own
  <2>2. Shrinks
    BY <2>1 DEF Shrinks
  <2>3. CountBounds' /\ \A id \in RowId : row'[id].status \in Counted => row'[id].period <= period'
    BY <1>0a, <2>1, <2>2, CountStep
  <2>4. ClaimHolds'
    BY <2>1 DEF ReserveInv, ClaimHolds, At, Own
  <2> QED
    BY <2>1, <2>3, <2>4 DEF ReserveInv
<1>6. ASSUME NextMonth PROVE ReserveInv'
  <2>1. call' = call /\ row' = row /\ period' >= period
    BY <1>0a, <1>6 DEF NextMonth
  <2>2. Shrinks
    BY <2>1 DEF Shrinks
  <2>3. CountBounds' /\ \A id \in RowId : row'[id].status \in Counted => row'[id].period <= period'
    BY <2>1, <2>2, CountStep
  <2>4. ClaimHolds'
    BY <2>1, ClaimStep
  <2> QED
    BY <2>1, <2>3, <2>4 DEF ReserveInv
<1>7. ASSUME Releases PROVE ReserveInv'
  BY <1>7, ReleaseStep
<1> QED
  BY <1>1, <1>2, <1>3, <1>4, <1>5, <1>6, <1>7, StepKinds

\* The count a reserve holds bounds its month until it commits, and a claimed
\* unit stays with its worker: the two facts every other theorem here rests on.
THEOREM ReserveInvariant == Spec => []ReserveInv
BY InitType, NextType, InitReserveInv, NextReserveInv, PTL DEF Spec

\* Every step but an admission lets the counted units shrink.
LEMMA NextShrinks ==
  ASSUME TypeOK, ReserveInv, [Next]_vars
  PROVE  Shrinks \/ \E q \in Request : Admit(q)
<1>1. ASSUME NEW q \in Request, NEW p \in Plan, Examine(q) \/ ClaimUsage(q) \/ Arrive(q, p)
      PROVE  Shrinks
  BY <1>1 DEF Examine, ClaimUsage, Arrive, Shrinks
<1>2. ASSUME NEW q \in Request, QueueUsage(q) PROVE Shrinks
  <2>1. call[q].id \in RowId
    BY DEF TypeOK, Call
  <2>2. \A id \in RowId : /\ row'[id].period = row[id].period
                          /\ id # call[q].id => row'[id] = row[id]
    BY <1>2, <2>1 DEF QueueUsage, TypeOK, Row
  <2> QED
    BY <1>2, <2>2 DEF QueueUsage, Shrinks, Own, Counted, Open
<1>3. ASSUME NextMonth PROVE Shrinks
  BY <1>3 DEF NextMonth, Shrinks
<1>4. Plan # {}
  BY DEF Plan
<1> QED
  BY <1>1, <1>2, <1>3, <1>4, StepKinds DEF Releases

\* No step takes a month over the largest plan: an admission fits by AdmitUsage,
\* and every other step shrinks the usage.
LEMMA QuotaStep ==
  TypeOK /\ ReserveInv /\ WithinQuota /\ [Next]_vars => WithinQuota'
<1> SUFFICES ASSUME TypeOK, ReserveInv, WithinQuota, [Next]_vars,
                    NEW m \in Meter, NEW p \in Period
             PROVE  Usage(m, p)' <= Quota["pro"][m]
  BY DEF WithinQuota
<1>1. Usage(m, p) <= Quota["pro"][m] /\ Quota["pro"][m] \in Int
  BY ConstantsAssumption DEF WithinQuota, Plan
<1>2. CASE Shrinks
  BY <1>1, <1>2, ShrinkUsage, UsageType
<1>3. ASSUME NEW q \in Request, Admit(q) PROVE Usage(m, p)' <= Quota["pro"][m]
  <2>1. call[q].plan \in Plan /\ call[q].id[1] = MeterOf[q] /\ MeterOf[q] \in Meter
    BY ConstantsAssumption DEF TypeOK, Call, ReserveInv
  <2>2. CASE m = MeterOf[q] /\ p = period
    <3>1. Usage(m, p)' <= Quota[call[q].plan][m]
      <4>1. Usage(m, p)' = Usage(MeterOf[q], period)'
        BY <1>3, <2>2 DEF Usage, CountedRows, Admit, TakeUnit
      <4> QED
        BY <1>3, <2>2, <4>1, AdmitUsage
    <3>2. Quota[call[q].plan][m] <= Quota["pro"][m] /\ Quota[call[q].plan][m] \in Int
      BY <1>1, <2>1, QuotaAssumption, ConstantsAssumption DEF Plan
    <3> QED
      BY <1>1, <3>1, <3>2, UsageType
  <2>3. CASE ~(m = MeterOf[q] /\ p = period)
    <3>1. ASSUME NEW id \in RowId, id[1] = m, row'[id].period = p, row'[id].status \in Counted
          PROVE  row[id].period = p /\ row[id].status \in Counted
      <4>1. id # call[q].id
        BY <1>3, <2>1, <2>3, <3>1, AdmitRows
      <4> QED
        BY <1>3, <3>1, <4>1, AdmitRows DEF Counted, Open
    <3>2. CountedRows(m, p)' \subseteq CountedRows(m, p)
      BY <3>1 DEF CountedRows
    <3>3. Usage(m, p)' <= Usage(m, p)
      BY <3>2, UsageType, FS_Subset DEF Usage
    <3> QED
      BY <1>1, <3>3, UsageType
  <2> QED
    BY <2>2, <2>3
<1> QED
  BY <1>2, <1>3, NextShrinks

\* No month ever holds more reserved, queued and consumed units of a meter than
\* the largest plan allows: the promise of the count under the account lock.
THEOREM QuotaRespected == Spec => []WithinQuota
<1>1. Init => WithinQuota
  <2> SUFFICES ASSUME Init, NEW m \in Meter, NEW p \in Period PROVE Usage(m, p) <= Quota["pro"][m]
    BY DEF WithinQuota
  <2>1. CountedRows(m, p) = {}
    BY DEF Init, CountedRows, Counted, Open
  <2>2. Usage(m, p) = 0
    BY <2>1, FS_EmptySet DEF Usage
  <2> QED
    BY <2>2, ConstantsAssumption DEF Plan
<1> QED
  BY <1>1, QuotaStep, TypeCorrect, ReserveInvariant, PTL DEF Spec

\* A request that goes from counting to holding has just been admitted.
LEMMA AdmitIsTheOnlyAdmission ==
  ASSUME TypeOK, ReserveInv, [Next]_vars, NEW q \in Request,
         call[q].pc = "admitted", call'[q].pc = "holding"
  PROVE  Admit(q)
<1>1. ASSUME Releases \/ NextMonth PROVE FALSE
  BY <1>1 DEF Releases, NextMonth
<1>2. ASSUME NEW r \in Request, Examine(r) PROVE FALSE
  BY <1>2 DEF Examine, TypeOK, Call, AccountLocked, At
<1>3. ASSUME NEW r \in Request, NEW p \in Plan, QueueUsage(r) \/ ClaimUsage(r) \/ Arrive(r, p) PROVE FALSE
  BY <1>3 DEF QueueUsage, ClaimUsage, Arrive, Move, TypeOK, Call
<1>4. ASSUME NEW r \in Request, Admit(r) PROVE Admit(q)
  BY <1>4, AdmitCalls
<1>5. Plan # {}
  BY DEF Plan
<1> QED
  BY <1>1, <1>2, <1>3, <1>4, <1>5, StepKinds

\* A request is admitted only while the month it is charged to has room under
\* the plan that was read for it.
THEOREM AdmissionsFit == Spec => AdmitWithinPlan
<1>1. TypeOK /\ ReserveInv /\ [Next]_vars
        => [\A q \in Request :
              call[q].pc = "admitted" /\ call'[q].pc = "holding"
                => Usage(MeterOf[q], period)' <= Quota[call[q].plan][MeterOf[q]]]_vars
  BY AdmitIsTheOnlyAdmission, AdmitUsage
<1> QED
  BY <1>1, TypeCorrect, ReserveInvariant, PTL DEF Spec, AdmitWithinPlan

\* A step that charges a queued unit is the settlement of the job it is bound to.
LEMMA ChargeStep ==
  ASSUME TypeOK, ReserveInv, [Next]_vars,
         NEW id \in RowId, row[id].status = "queued", row'[id].status = "consumed"
  PROVE  \E q \in At({"running"}) : call[q].id = id /\ row[id].job = q
<1>0. \A q \in Request : call[q].id \in RowId
  BY DEF TypeOK, Call
<1>1. ASSUME row' = row PROVE FALSE
  BY <1>1
<1>2. ASSUME NEW ids \in SUBSET RowId, row' = Expired(ids) PROVE FALSE
  BY <1>2 DEF Expired, TypeOK, Row
<1>3. ASSUME NEW q \in Request, Admit(q) PROVE FALSE
  BY <1>3, AdmitRows
<1>4. ASSUME NEW q \in Request, NEW c \in BOOLEAN, FinalizeHeld(q, c) PROVE FALSE
  <2>1. id = call[q].id /\ c
    BY <1>0, <1>1, <1>4 DEF FinalizeHeld, SetStatus, TypeOK, Row
  <2>2. Celery /\ MeterOf[q] = "detection"
    BY <2>1 DEF ReserveInv, ClaimHolds
  <2> QED
    BY <1>4, <2>1, <2>2 DEF FinalizeHeld, Queues
<1>5. ASSUME NEW q \in Request, QueueUsage(q) PROVE FALSE
  BY <1>0, <1>5 DEF QueueUsage, TypeOK, Row
<1>6. ASSUME NEW q \in Request, IgnoreDelivery(q) PROVE FALSE
  BY <1>0, <1>6 DEF IgnoreDelivery, SetStatus, TypeOK, Row
<1>7. ASSUME NEW q \in Request, NEW c \in BOOLEAN, Settle(q, c)
      PROVE  \E r \in At({"running"}) : call[r].id = id /\ row[id].job = r
  <2>1. id = call[q].id /\ q \in At({"running"})
    BY <1>0, <1>7 DEF Settle, SetStatus, TypeOK, Row, At
  <2> QED
    BY <2>1 DEF ReserveInv, ClaimHolds, Own
<1>8. ASSUME NEW i \in RowId, Age(i) PROVE FALSE
  BY <1>8 DEF Age, TypeOK, Row
<1>9. CASE UNCHANGED vars
  BY <1>1, <1>9 DEF vars
<1>10. ASSUME NEW q \in Request, Reserving(q)
       PROVE  row' = row \/ Admit(q) \/ \E ids \in SUBSET RowId : row' = Expired(ids)
  BY <1>10 DEF Reserving, Arrive, RejectDuplicate, Examine, RejectQuota, TypeOK, Call
<1>11. ASSUME NEW q \in Request, QueueRefused(q) \/ Crash(q) \/ ClaimUsage(q) \/ BlockDuplicate(q) \/ Rollback(q)
       PROVE  row' = row
  BY <1>11 DEF QueueRefused, Crash, ClaimUsage, BlockDuplicate, Rollback
<1>12. ASSUME ViewSummary \/ CommitSummary \/ NextMonth
       PROVE  row' = row \/ \E ids \in SUBSET RowId : row' = Expired(ids)
  BY <1>12 DEF ViewSummary, CommitSummary, NextMonth, TypeOK
<1> QED
  <2>1. ASSUME NEW q \in Request, Reserving(q) \/ Holding(q) \/ Delivering(q) \/ Crash(q)
        PROVE  \E r \in At({"running"}) : call[r].id = id /\ row[id].job = r
    <3>1. ASSUME Holding(q) \/ Delivering(q) \/ Crash(q)
          PROVE  \E r \in At({"running"}) : call[r].id = id /\ row[id].job = r
      BY <1>1, <1>4, <1>5, <1>6, <1>7, <1>11, <3>1 DEF Holding, Delivering
    <3>2. ~Reserving(q)
      BY <1>1, <1>2, <1>3, <1>10
    <3> QED
      BY <2>1, <3>1, <3>2
  <2> QED
    BY <1>1, <1>2, <1>8, <1>9, <1>12, <2>1 DEF Next

\* A queued unit is charged only by the worker that claimed it for the job the
\* unit is bound to, whatever is redelivered, expired or retried meanwhile.
THEOREM ChargesBelongToJobs == Spec => ChargedByItsJob
<1>1. TypeOK /\ ReserveInv /\ [Next]_vars
        => [\A id \in RowId :
              row[id].status = "queued" /\ row'[id].status = "consumed"
                => \E q \in At({"running"}) : call[q].id = id /\ row[id].job = q]_vars
  BY ChargeStep
<1> QED
  BY <1>1, TypeCorrect, ReserveInvariant, PTL DEF Spec, ChargedByItsJob

(***************************************************************************)
(* The reservations implement a quota book.                                *)
(***************************************************************************)

\* Expiries that are read and not written yet, and what a row is in the book.
Doomed == view \cup UNION {call[q].stale : q \in At({"admitted"})}
StateOf(id) == UnitState(row[id])

\* A unit is free, held or charged as its row is not counted, open or consumed.
LEMMA UnitStates ==
  ASSUME NEW r \in Row
  PROVE  /\ UnitState(r) = "free" <=> r.status \notin Counted
         /\ UnitState(r) = "held" <=> r.status \in Open
         /\ UnitState(r) = "charged" <=> r.status = "consumed"
BY DEF UnitState, Row, Status, Counted, Open

\* The units taken in a month of the book are the counted rows.
LEMMA TakenUnits ==
  ASSUME TypeOK, NEW m, NEW p
  PROVE  Book!Taken(m, p) = CountedRows(m, p)
<1>1. \A id \in RowId : UnitState(row[id]) # "free" <=> row[id].status \in Counted
  BY UnitStates DEF TypeOK
<1> QED BY <1>1 DEF Book!Taken, CountedRows, PoolOfRow

\* Steps that give back what is held or doomed.
LEMMA BookGivesBack ==
  ASSUME TypeOK, TypeOK',
         \A id \in RowId : row'[id].period = row[id].period,
         \A id \in RowId : \/ StateOf(id)' = StateOf(id)
                           \/ StateOf(id)' = "free" /\ (StateOf(id) = "held" \/ id \in Doomed),
         Doomed' \subseteq Doomed
  PROVE  Book!GiveBack
<1>1. [id \in RowId |-> row[id].period]' = [id \in RowId |-> row[id].period]
  OBVIOUS
<1> QED BY <1>1 DEF Book!GiveBack, Book!StayOrGoBack, StateOf, Doomed

\* Steps that read what is held and may expire.
LEMMA BookDooms ==
  ASSUME TypeOK, row' = row,
         \A id \in Doomed' : id \in Doomed \/ (id \in RowId /\ row[id].status \in Open)
  PROVE  Book!Doom
<1>1. \A id \in RowId : UnitState(row[id]) = "held" <=> row[id].status \in Open
  BY UnitStates DEF TypeOK
<1> QED BY <1>1 DEF Book!Doom, Book!Held, Doomed

\* A status that becomes consumed is a charge.
LEMMA BookCharges ==
  ASSUME TypeOK, TypeOK', NEW i \in RowId, SetStatus(i, "consumed"), row[i].status \in Open,
         Doomed' = Doomed
  PROVE  Book!Charge(i)
<1>1. \A id \in RowId : row[id] \in Row
  BY DEF TypeOK
<1>2. /\ \A id \in RowId : id # i => row'[id] = row[id]
      /\ row'[i] = [row[i] EXCEPT !.status = "consumed"]
  BY DEF SetStatus, TypeOK
<1>5. \A id \in RowId : row'[id].period = row[id].period
  BY <1>1, <1>2 DEF Row
<1>3. row'[i].status = "consumed"
  BY <1>1, <1>2 DEF Row
<1>6. row'[i] \in Row
  BY DEF TypeOK
<1>4. UnitState(row[i]) = "held" /\ UnitState(row'[i]) = "charged"
  BY <1>1, <1>3, <1>6, UnitStates
<1> QED BY <1>2, <1>4, <1>5 DEF Book!Charge, Doomed

\* What a request was admitted for is still nobody's unit.
AdmittedFree == \A q \in At({"admitted"}) : Own(q).status \notin Counted

\* Only admissions make units, and they are made one at a time.
LEMMA NextAdmittedFree ==
  ASSUME TypeOK, TypeOK', ReserveInv, AdmittedFree, [Next]_vars
  PROVE  AdmittedFree'
<1>0. \A q \in Request : call[q].id \in RowId
  BY DEF TypeOK, Call
<1>1. CASE \E q \in Request : Admit(q)
  <2>1. \A r \in Request : call'[r].pc # "admitted"
    BY <1>1, AdmitCalls DEF ReserveInv, CountBounds, At
  <2> QED BY <2>1 DEF AdmittedFree, At
<1>2. CASE Shrinks /\ \A r \in Request : call'[r].pc = "admitted" => call'[r] = call[r]
  BY <1>0, <1>2 DEF AdmittedFree, At, Own, Shrinks
<1>3. ASSUME NEW q \in Request, Examine(q)
      PROVE  AdmittedFree'
  <2>1. /\ row' = row /\ Own(q).status \notin Counted /\ call'[q].id = call[q].id
        /\ \A r \in Request \ {q} : call'[r] = call[r]
    BY <1>3 DEF Examine, TypeOK, Call
  <2> QED BY <2>1 DEF AdmittedFree, At, Own
<1>4. ASSUME NEW q \in Request, NEW p \in Plan, QueueUsage(q) \/ ClaimUsage(q) \/ Arrive(q, p)
      PROVE  \A r \in Request : call'[r].pc = "admitted" => call'[r] = call[r]
  BY <1>4 DEF QueueUsage, ClaimUsage, Arrive, Move, TypeOK, Call
<1>5. CASE Releases
  BY <1>2, <1>5 DEF Releases
<1>6. CASE NextMonth
  BY <1>6 DEF NextMonth, AdmittedFree, At, Own
<1>7. Plan # {}
  BY DEF Plan
<1> QED BY <1>1, <1>2, <1>3, <1>4, <1>5, <1>6, <1>7, StepKinds, NextShrinks

\* Before an admission its month has room: either it is the month that was counted,
\* or a later one, in which no unit lies yet.
LEMMA AdmitRoom ==
  ASSUME TypeOK, ReserveInv, NEW q \in Request, Admit(q)
  PROVE  Usage(MeterOf[q], period) < Quota["pro"][MeterOf[q]]
<1>1. PICK m, n, p : m = MeterOf[q] /\ n = period /\ p = call[q].plan
  OBVIOUS
<1>2. /\ m \in Meter /\ n \in Int /\ p \in Plan /\ call[q].seen \in Int /\ call[q].used \in Int
      /\ Quota[p][m] \in Int /\ Quota["pro"][m] \in Int /\ Quota[p][m] <= Quota["pro"][m] /\ 1 <= Quota["pro"][m]
  BY <1>1, ConstantsAssumption, QuotaAssumption DEF TypeOK, Call, Period, Meter, Plan
<1>3. /\ call[q].seen <= n
      /\ Usage(m, call[q].seen) <= call[q].used
      /\ \A id \in RowId : row[id].status \in Counted => row[id].period <= call[q].seen
      /\ call[q].used + 1 <= Quota[p][m]
  BY <1>1, AdmitCalls DEF ReserveInv, CountBounds, At, Admit, TakeUnit
<1>4. CASE call[q].seen = n
  BY <1>1, <1>2, <1>3, <1>4, UsageType
<1>5. CASE call[q].seen < n
  <2>1. ASSUME NEW id \in RowId, row[id].status \in Counted PROVE row[id].period # n
    <3>1. row[id].period <= call[q].seen /\ row[id].period \in Int
      BY <1>3, <2>1, ConstantsAssumption DEF TypeOK, Row, Period
    <3> QED
      BY <1>2, <1>5, <3>1
  <2>2. CountedRows(m, n) = {}
    BY <2>1 DEF CountedRows
  <2>3. Usage(m, n) = 0
    BY <2>2, FS_EmptySet DEF Usage
  <2> QED BY <1>1, <1>2, <2>3
<1> QED BY <1>2, <1>3, <1>4, <1>5

\* The book counts as the table does.
LEMMA SameCount == ASSUME NEW S PROVE Book!Cardinality(S) = Cardinality(S)
BY DEF Book!Cardinality, Cardinality

\* An admission takes a unit.
LEMMA BookTakes ==
  ASSUME TypeOK, TypeOK', ReserveInv, AdmittedFree, NEW q \in Request, Admit(q),
         NEW u \in RowId, u = call[q].id, NEW m \in Period, m = period
  PROVE  Book!Take(u, m)
<1>1. u = call[q].id /\ m = period
  OBVIOUS
<1>2. \A id \in RowId : row[id] \in Row /\ row'[id] \in Row
  BY DEF TypeOK
<1>3. row'[u].status = "reserved" /\ row'[u].period = period
  BY <1>1, AdmitRows
<1>4. row[u].status \notin Counted /\ q \in At({"admitted"})
  BY <1>1, AdmitCalls DEF AdmittedFree, At, Own
<1>5. UnitState(row[u]) = "free" /\ UnitState(row'[u]) = "held"
  BY <1>2, <1>3, <1>4, UnitStates DEF Open
<1>6. ASSUME NEW id \in RowId \ {u}
      PROVE  /\ row'[id].period = row[id].period
             /\ row'[id] = row[id] \/ (UnitState(row'[id]) = "free" /\ id \in call[q].stale)
  <2>1. row'[id] = IF id \in call[q].stale THEN [row[id] EXCEPT !.status = "released"] ELSE row[id]
    BY <1>1 DEF Admit, TakeUnit, Expired, TypeOK
  <2>2. [row[id] EXCEPT !.status = "released"].status = "released"
    BY <1>2 DEF Row
  <2>3. CASE id \in call[q].stale
    <3>1. UnitState(row'[id]) = "free"
      <4>1. row'[id].status = "released" /\ row'[id] \in Row
        BY <1>2, <2>1, <2>2, <2>3
      <4>2. \A r \in Row : r.status = "released" => UnitState(r) = "free"
        BY DEF UnitState, Open
      <4> QED BY <4>1, <4>2
    <3> QED BY <1>1, <2>3, <3>1, AdmitRows
  <2> QED BY <2>1, <2>3
<1>7. call[q].stale \subseteq Doomed
  BY <1>4 DEF Doomed
<1>8. Doomed' \subseteq Doomed
  <2>1. view' = view /\ \A r \in At({"admitted"})' : r \in At({"admitted"}) /\ call'[r] = call[r]
    BY AdmitCalls DEF Admit, TakeUnit, At
  <2> QED BY <2>1 DEF Doomed
<1>9. Book!StayOrGoBack(RowId \ {u})
  BY <1>6, <1>7 DEF Book!StayOrGoBack, Doomed
<1>10. Book!Cardinality(Book!Taken(PoolOfRow(u), m)) < Quota["pro"][PoolOfRow(u)]
  <2>1. PoolOfRow(u) = MeterOf[q]
    BY <1>1 DEF PoolOfRow, ReserveInv
  <2> QED BY <1>1, <2>1, AdmitRoom, TakenUnits, SameCount DEF Usage
<1>11. [id \in RowId |-> row[id].period]' = [[id \in RowId |-> row[id].period] EXCEPT ![u] = m]
  BY <1>1, <1>3, <1>6
<1>12. /\ [id \in RowId |-> UnitState(row[id])][u] = "free"
       /\ [id \in RowId |-> UnitState(row[id])]'[u] = "held"
  BY <1>5
<1> QED BY <1>8, <1>9, <1>10, <1>11, <1>12 DEF Book!Take, Doomed

\* An expiry is read by a reserve or a summary that begins.
LEMMA DoomedStays ==
  ASSUME TypeOK, view' \subseteq view,
         \A r \in Request : call'[r].pc = "admitted" => call'[r] = call[r]
  PROVE  Doomed' \subseteq Doomed
<1>1. \A r \in At({"admitted"})' : r \in At({"admitted"}) /\ call'[r] = call[r]
  BY DEF At
<1> QED BY <1>1 DEF Doomed

\* Steps of a request that is not reserving leave the expiries alone.
LEMMA DoomedSame ==
  ASSUME TypeOK, view' = view, NEW q \in Request, NEW c \in Pc \ {"admitted"},
         Move(q, c), call[q].pc # "admitted"
  PROVE  Doomed' = Doomed
<1>1. At({"admitted"})' = At({"admitted"}) /\ \A r \in At({"admitted"}) : call'[r] = call[r]
  BY DEF Move, At, TypeOK, Call
<1> QED BY <1>1 DEF Doomed

\* The expiry of rows that were read as expired gives them back.
LEMMA BookExpires ==
  ASSUME TypeOK, TypeOK', NEW ids \in SUBSET RowId, row' = Expired(ids), ids \subseteq Doomed,
         Doomed' \subseteq Doomed
  PROVE  Book!GiveBack
<1>1. \A id \in RowId : row[id] \in Row /\ row'[id] \in Row
  BY DEF TypeOK
<1>2. \A id \in RowId : /\ row'[id].period = row[id].period
                        /\ row'[id] = row[id] \/ (row'[id].status = "released" /\ id \in ids)
  BY <1>1 DEF Expired, Row
<1>3. \A r \in Row : r.status = "released" => UnitState(r) = "free"
  BY DEF UnitState, Open
<1> QED BY <1>1, <1>2, <1>3, BookGivesBack DEF StateOf

\* The release of an open row gives it back.
LEMMA BookReleases ==
  ASSUME TypeOK, TypeOK', NEW i \in RowId, SetStatus(i, "released"), row[i].status \in Open,
         Doomed' \subseteq Doomed
  PROVE  Book!GiveBack
<1>1. \A id \in RowId : row[id] \in Row /\ row'[id] \in Row
  BY DEF TypeOK
<1>2. /\ \A id \in RowId : id # i => row'[id] = row[id]
      /\ row'[i] = [row[i] EXCEPT !.status = "released"]
  BY DEF SetStatus, TypeOK
<1>3. row'[i].status = "released" /\ row'[i].period = row[i].period
  BY <1>1, <1>2 DEF Row
<1>4. UnitState(row[i]) = "held" /\ UnitState(row'[i]) = "free"
  BY <1>1, <1>3, UnitStates DEF Counted, Open
<1> QED BY <1>2, <1>3, <1>4, BookGivesBack DEF StateOf

\* Every step is a step of the book, or none.
LEMMA BookStep ==
  ASSUME TypeOK, TypeOK', ReserveInv, AdmittedFree, [Next]_vars
  PROVE  Book!Next
<1>0. /\ \A q \in Request : call[q].id \in RowId /\ call[q].stale \in SUBSET RowId
      /\ view \in SUBSET RowId
  BY DEF TypeOK, Call
<1>1. ASSUME NEW q \in Request, NEW p \in Plan, Arrive(q, p)
      PROVE  Book!Next
  <2>1. row' = row /\ view' = view /\ \A r \in Request : call'[r].pc = "admitted" => call'[r] = call[r]
    BY <1>1 DEF Arrive, TypeOK, Call
  <2> QED BY <2>1, DoomedStays, BookDooms DEF Book!Next
<1>2. ASSUME NEW q \in Request,
             \/ RejectDuplicate(q) \/ QueueRefused(q) \/ Crash(q)
             \/ ClaimUsage(q) \/ BlockDuplicate(q) \/ Rollback(q)
      PROVE  Book!Next
  <2>1. row' = row /\ view' = view
    BY <1>2 DEF RejectDuplicate, QueueRefused, Crash, ClaimUsage, BlockDuplicate, Rollback
  <2>2. PICK c \in Pc \ {"admitted"} : Move(q, c) \/ Return(q, c)
    BY <1>2 DEF RejectDuplicate, QueueRefused, Crash, ClaimUsage, BlockDuplicate, Rollback, Pc
  <2>3. \A r \in Request : call'[r].pc = "admitted" => call'[r] = call[r]
    BY <2>2 DEF Move, Return, TypeOK, Call
  <2> QED BY <2>1, <2>3, DoomedStays, BookDooms DEF Book!Next
<1>3. ASSUME NEW q \in Request, Examine(q)
      PROVE  Book!Next
  <2>1. /\ row' = row /\ view' = view /\ call'[q].stale = StaleRows
        /\ \A r \in Request \ {q} : call'[r] = call[r]
    BY <1>3 DEF Examine, TypeOK, Call
  <2>2. \A r \in At({"admitted"})' : r = q \/ (r \in At({"admitted"}) /\ call'[r] = call[r])
    BY <2>1 DEF At
  <2>3. \A id \in StaleRows : id \in RowId /\ row[id].status \in Open
    BY DEF StaleRows, Open
  <2> QED BY <2>1, <2>2, <2>3, BookDooms DEF Book!Next, Doomed
<1>4. ASSUME NEW q \in Request, RejectQuota(q)
      PROVE  Book!Next
  <2>1. /\ row' = Expired(call[q].stale) /\ view' = view /\ q \in At({"admitted"})
        /\ Return(q, "done")
    BY <1>4 DEF RejectQuota, At
  <2>2. \A r \in Request : call'[r].pc = "admitted" => call'[r] = call[r]
    BY <2>1 DEF Return, TypeOK, Call
  <2>3. call[q].stale \subseteq Doomed
    BY <2>1 DEF Doomed
  <2> QED BY <1>0, <2>1, <2>2, <2>3, DoomedStays, BookExpires DEF Book!Next
<1>5. ASSUME NEW q \in Request, Admit(q)
      PROVE  Book!Next
  <2>1. PICK u \in RowId : u = call[q].id
    BY <1>0
  <2>2. PICK m \in Period : m = period
    BY DEF TypeOK
  <2>3. Book!Take(u, m)
    BY <1>5, <2>1, <2>2, BookTakes
  <2> QED BY <2>3 DEF Book!Next
<1>6. ASSUME NEW q \in Request, NEW c \in BOOLEAN, FinalizeHeld(q, c)
      PROVE  Book!Next
  <2>1. view' = view /\ Move(q, "done") /\ call[q].pc = "holding" /\ "done" \in Pc \ {"admitted"}
    BY <1>6 DEF FinalizeHeld, Pc
  <2>2. Doomed' = Doomed
    BY <2>1, DoomedSame
  <2>3. CASE row' = row
    BY <2>2, <2>3, BookDooms DEF Book!Next
  <2>4. CASE row[call[q].id].status \in Open /\ SetStatus(call[q].id, IF c THEN "consumed" ELSE "released")
    BY <1>0, <2>2, <2>4, BookCharges, BookReleases DEF Book!Next
  <2> QED BY <1>6, <2>3, <2>4 DEF FinalizeHeld, IsOpen, Own
<1>7. ASSUME NEW q \in Request, QueueUsage(q)
      PROVE  Book!Next
  <2>1. view' = view /\ Move(q, "queued") /\ call[q].pc = "holding" /\ "queued" \in Pc \ {"admitted"}
    BY <1>7 DEF QueueUsage, Pc
  <2>2. Doomed' = Doomed
    BY <2>1, DoomedSame
  <2>3. PICK i \in RowId : i = call[q].id
    BY <1>0
  <2>4. \A id \in RowId : row[id] \in Row /\ row'[id] \in Row
    BY DEF TypeOK
  <2>5. /\ \A id \in RowId : id # i => row'[id] = row[id]
        /\ row'[i] = [row[i] EXCEPT !.status = "queued", !.job = q]
        /\ row[i].status = "reserved"
    BY <1>7, <2>3 DEF QueueUsage, TypeOK, Own
  <2>6. row'[i].status = "queued" /\ row'[i].period = row[i].period
    BY <2>4, <2>5 DEF Row
  <2>7. UnitState(row[i]) = "held" /\ UnitState(row'[i]) = "held"
    BY <2>4, <2>5, <2>6, UnitStates DEF Open
  <2> QED BY <2>2, <2>5, <2>6, <2>7, BookGivesBack DEF StateOf, Book!Next
<1>8. ASSUME NEW q \in Request, NEW c \in BOOLEAN, Settle(q, c)
      PROVE  Book!Next
  <2>1. view' = view /\ Move(q, "finished") /\ call[q].pc = "running" /\ "finished" \in Pc \ {"admitted"}
    BY <1>8 DEF Settle, Pc
  <2>2. Doomed' = Doomed
    BY <2>1, DoomedSame
  <2>3. row[call[q].id].status \in Open
    BY <2>1 DEF ReserveInv, ClaimHolds, At, Own, Open
  <2>4. SetStatus(call[q].id, IF c THEN "consumed" ELSE "released")
    BY <1>8 DEF Settle
  <2> QED BY <1>0, <2>2, <2>3, <2>4, BookCharges, BookReleases DEF Book!Next
<1>9. ASSUME NEW q \in Request, IgnoreDelivery(q)
      PROVE  Book!Next
  <2>1. /\ view' = view /\ Move(q, "finished") /\ call[q].pc # "admitted" /\ "finished" \in Pc \ {"admitted"}
        /\ SetStatus(call[q].id, "released") /\ row[call[q].id].status \in Open
    BY <1>9 DEF IgnoreDelivery, Pc, IsOpen, Own
  <2>2. Doomed' = Doomed
    BY <2>1, DoomedSame
  <2> QED BY <1>0, <2>1, <2>2, BookReleases DEF Book!Next
<1>10. ASSUME NEW i \in RowId, Age(i)
       PROVE  Book!Next
  <2>1. view' = view /\ call' = call
    BY <1>10 DEF Age
  <2>2. Doomed' = Doomed
    BY <2>1 DEF Doomed, At
  <2>4. \A id \in RowId : row[id] \in Row /\ row'[id] \in Row
    BY DEF TypeOK
  <2>5. /\ \A id \in RowId : id # i => row'[id] = row[id]
        /\ row'[i] = [row[i] EXCEPT !.aged = TRUE]
    BY <1>10 DEF Age, TypeOK
  <2>6. row'[i].status = row[i].status /\ row'[i].period = row[i].period
    BY <2>4, <2>5 DEF Row
  <2>7. UnitState(row'[i]) = UnitState(row[i])
    BY <2>6 DEF UnitState
  <2> QED BY <2>2, <2>5, <2>6, <2>7, BookGivesBack DEF StateOf, Book!Next
<1>11. CASE ViewSummary
  <2>1. row' = row /\ view' = StaleRows /\ call' = call
    BY <1>11 DEF ViewSummary
  <2>2. \A id \in StaleRows : id \in RowId /\ row[id].status \in Open
    BY DEF StaleRows, Open
  <2>3. At({"admitted"})' = At({"admitted"})
    BY <2>1 DEF At
  <2> QED BY <2>1, <2>2, <2>3, BookDooms DEF Book!Next, Doomed
<1>12. CASE CommitSummary
  <2>1. row' = Expired(view) /\ view' = {} /\ call' = call
    BY <1>12 DEF CommitSummary
  <2>2. view \subseteq Doomed /\ Doomed' \subseteq Doomed
    BY <2>1, DoomedStays DEF Doomed
  <2> QED BY <1>0, <2>1, <2>2, BookExpires DEF Book!Next
<1>13. CASE NextMonth \/ UNCHANGED vars
  <2>1. row' = row /\ view' = view /\ call' = call
    BY <1>13 DEF NextMonth, vars
  <2>2. Doomed' = Doomed
    BY <2>1 DEF Doomed, At
  <2> QED BY <2>1, <2>2, BookDooms DEF Book!Next
<1> QED
  BY <1>1, <1>2, <1>3, <1>4, <1>5, <1>6, <1>7, <1>8, <1>9, <1>10, <1>11, <1>12, <1>13
  DEF Next, Reserving, Holding, Delivering

\* Nothing is taken or doomed when the book is opened.
LEMMA BookOpens == Init => Book!Init
<1> SUFFICES ASSUME Init PROVE Book!Init
  OBVIOUS
<1>1. \A id \in RowId : row[id].status = "none" /\ row[id].period = 0
  BY DEF Init
<1>2. \A id \in RowId : UnitState(row[id]) = "free"
  BY <1>1 DEF UnitState, Open
<1>3. view = {} /\ At({"admitted"}) = {}
  BY DEF Init, At
<1>4. 0 \in Period
  BY ConstantsAssumption DEF Period
<1> QED BY <1>1, <1>2, <1>3, <1>4 DEF Book!Init

\* The interleaved reads, locks and expiries of billing.py keep the book: a unit is
\* taken only while its month has room, and one that was charged is given back only
\* where a reserve or a summary had read it as expired while it was held.
THEOREM KeepsTheBook == Spec => ImplementsBook
<1>1. Init => AdmittedFree
  BY DEF Init, AdmittedFree, At
<1>2. TypeOK /\ TypeOK' /\ ReserveInv /\ AdmittedFree /\ [Next]_vars => AdmittedFree'
  BY NextAdmittedFree
<1>3. TypeOK /\ TypeOK' /\ ReserveInv /\ AdmittedFree /\ [Next]_vars => [Book!Next]_Book!vars
  BY BookStep
<1> QED BY <1>1, <1>2, <1>3, BookOpens, TypeCorrect, ReserveInvariant, PTL DEF Spec, ImplementsBook, Book!Spec
=============================================================================
