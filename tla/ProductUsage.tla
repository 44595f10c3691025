---------------------------- MODULE ProductUsage ----------------------------
(***************************************************************************)
(* Monthly quota reservations of one billing account: the functions        *)
(* reserve_product_usage, finalize_product_usage, queue_product_usage and  *)
(* claim_product_usage of billing.py, run by API requests and by the       *)
(* Celery worker against one table of reservation rows in PostgreSQL       *)
(* (READ COMMITTED).                                                       *)
(*                                                                         *)
(* A row is identified by meter, the month hashed into its idempotency     *)
(* digest, and the client's key; a released row is re-used under the SAME  *)
(* identity by the next request with that key.  The 30-minute clock is the *)
(* flag "aged".  Quotas are enforced (billing enabled, or not the owner),  *)
(* and every caller reserves one unit.                                     *)
(***************************************************************************)
EXTENDS Integers, FiniteSets

CONSTANTS
  Request,      \* API requests; the job a request queues has its identity
  Key,          \* client-supplied idempotency keys
  MeterOf,      \* [Request -> Meter]
  KeyOf,        \* [Request -> Key]
  Quota,        \* [Plan -> [Meter -> Nat]], the plan catalog
  MaxPeriod,    \* bound: the last calendar month explored
  Celery,       \* TRUE: detections are queued (JOB_MODE=celery); FALSE: eager
  SlowCalls,    \* TRUE: a live request may keep a reservation over 30 minutes
  SummaryViews  \* TRUE: billing summaries are read while requests run

Meter  == {"detection", "rewrite"}
Plan   == {"free", "pro"}
Period == 0..MaxPeriod
RowId  == Meter \X Period \X Key

ASSUME ConstantsAssumption ==
  /\ IsFiniteSet(Request) /\ IsFiniteSet(Key)
  /\ MaxPeriod \in Nat
  /\ MeterOf \in [Request -> Meter]
  /\ KeyOf \in [Request -> Key]
  /\ Quota \in [Plan -> [Meter -> Nat]]
  /\ Celery \in BOOLEAN /\ SlowCalls \in BOOLEAN /\ SummaryViews \in BOOLEAN

\* config.py refuses to start unless every quota is positive and Pro's is no
\* smaller than Free's.
ASSUME QuotaAssumption ==
  \A m \in Meter : 1 <= Quota["free"][m] /\ Quota["free"][m] <= Quota["pro"][m]

NoJob   == "no job"
Open    == {"reserved", "queued"}        \* "running" is never committed: see Settle
Counted == Open \cup {"consumed"}
Status  == Counted \cup {"none", "released"}
Row     == [status : Status, period : Period, aged : BOOLEAN,
            job : Request \cup {NoJob}]

\* Where a request, and the job it queued, is.
Pc == {"idle", "waiting", "admitted", "holding", "hung", "queued", "running",
       "finished", "blocked", "done"}
Call == [pc : Pc, id : RowId, plan : Plan, seen : Period, used : Nat,
         stale : SUBSET RowId]

VARIABLES
  row,      \* the product_usage_reservations table
  period,   \* the current calendar month
  call,     \* requests in flight and the jobs they queued
  view      \* stale rows read by a billing summary that has not committed yet

vars == <<row, period, call, view>>

Init ==
  /\ row = [id \in RowId |-> [status |-> "none", period |-> 0, aged |-> FALSE,
                              job |-> NoJob]]
  /\ period = 0
  /\ call = [q \in Request |->
       [pc |-> "idle", id |-> <<MeterOf[q], 0, KeyOf[q]>>, plan |-> "free",
        seen |-> 0, used |-> 0, stale |-> {}]]
  /\ view = {}

-----------------------------------------------------------------------------
(* Reading and locking the table.                                          *)

CountedRows(m, p) ==
  {id \in RowId : id[1] = m /\ row[id].period = p /\ row[id].status \in Counted}

\* _meter_usage sums the committed rows: its session does not autoflush, so
\* the stale rows it has just marked released in memory still count.
Usage(m, p) == Cardinality(CountedRows(m, p))

IsOpen(r) == r.status \in Open

\* Fault: the expiry takes any row that is old, the consumed ones too.
StaleRowsOfAnyStatus == {id \in RowId : row[id].status # "released" /\ row[id].aged}
StaleRows == {id \in RowId : row[id].status = "reserved" /\ row[id].aged}

At(pcs) == {q \in Request : call[q].pc \in pcs}
Own(q)  == row[call[q].id]

\* SELECT ... FOR UPDATE on the billing account, held to the end of the reserve.
AccountLocked == At({"admitted"}) # {}

\* FOR UPDATE on a reservation row, held by a worker's open transaction and by
\* a request that waits for its own lock.
\* Fault: claim_product_usage reads without FOR UPDATE.
LockedRowsOfRequests == {call[q].id : q \in At({"hung"})}
LockedRows == {call[q].id : q \in At({"running", "hung"})}

Move(q, pc) == call' = [call EXCEPT ![q].pc = pc]
\* reserve_product_usage returns: its locals are gone.
Return(q, pc) ==
  call' = [call EXCEPT ![q] = [pc |-> pc, id |-> @.id, plan |-> "free",
                               seen |-> 0, used |-> 0, stale |-> {}]]
SetStatus(id, s) == row' = [row EXCEPT ![id].status = s]

\* The UPDATE of rows read as stale: by primary key, whatever they hold now.
Expired(ids) ==
  [id \in RowId |-> IF id \in ids THEN [row[id] EXCEPT !.status = "released"]
                                  ELSE row[id]]

-----------------------------------------------------------------------------
(* reserve_product_usage: three steps of one request.                      *)

\* The digest is taken, and the plan read, before the account lock is granted.
\* Webhooks and grace periods may have set the plan to either value by then.
Arrive(q, p) ==
  /\ call[q].pc = "idle"
  /\ call' = [call EXCEPT ![q].pc = "waiting",
                          ![q].id = <<MeterOf[q], period, KeyOf[q]>>,
                          ![q].plan = p]
  /\ UNCHANGED <<row, period, view>>

RejectDuplicate(q) ==
  /\ call[q].pc = "waiting" /\ ~AccountLocked
  /\ Own(q).status \in Counted
  /\ Return(q, "done")
  /\ UNCHANGED <<row, period, view>>

\* Fault: the account is read without FOR UPDATE.
ExamineUnlocked(q) ==
  /\ call[q].pc = "waiting"
  /\ Own(q).status \notin Counted
  /\ call' = [call EXCEPT ![q].pc = "admitted",
                          ![q].seen = period,
                          ![q].used = Usage(MeterOf[q], period),
                          ![q].stale = StaleRows]
  /\ UNCHANGED <<row, period, view>>
Examine(q) ==
  /\ call[q].pc = "waiting" /\ ~AccountLocked
  /\ Own(q).status \notin Counted
  /\ call' = [call EXCEPT ![q].pc = "admitted",
                          ![q].seen = period,
                          ![q].used = Usage(MeterOf[q], period),
                          ![q].stale = StaleRows]
  /\ UNCHANGED <<row, period, view>>

\* _quota_error commits the expiry of the stale rows before raising 402.
RejectQuota(q) ==
  /\ call[q].pc = "admitted"
  /\ call[q].used + 1 > Quota[call[q].plan][MeterOf[q]]
  /\ call[q].stale \cap LockedRows = {}
  /\ row' = Expired(call[q].stale)
  /\ Return(q, "done")
  /\ UNCHANGED <<period, view>>

\* The insert, or the reuse of a released row, with the expiries it commits.
TakeUnit(q) ==
  /\ (call[q].stale \cup {call[q].id}) \cap LockedRows = {}
  /\ row' = [Expired(call[q].stale) EXCEPT
               ![call[q].id] = [status |-> "reserved", period |-> period,
                                aged |-> FALSE, job |-> Own(q).job]]
  /\ Return(q, "holding")
  /\ UNCHANGED <<period, view>>

\* Fault: the check takes the larger plan's quota.
AdmitUnderPro(q) ==
  /\ call[q].pc = "admitted"
  /\ call[q].used + 1 <= Quota["pro"][MeterOf[q]]
  /\ TakeUnit(q)
Admit(q) ==
  /\ call[q].pc = "admitted"
  /\ call[q].used + 1 <= Quota[call[q].plan][MeterOf[q]]
  /\ TakeUnit(q)

-----------------------------------------------------------------------------
(* The holder: an eager detection or a rewrite finalizes its reservation   *)
(* itself, a queued detection hands it to its job.                         *)

Queues(q) == Celery /\ MeterOf[q] = "detection"

\* finalize_product_usage; a request that queues only ever gives up.
FinalizeHeld(q, consumed) ==
  /\ call[q].pc = "holding"
  /\ call[q].id \notin LockedRows
  /\ consumed => ~Queues(q)
  /\ IF IsOpen(Own(q)) THEN SetStatus(call[q].id, IF consumed THEN "consumed" ELSE "released")
                       ELSE UNCHANGED row
  /\ Move(q, "done")
  /\ UNCHANGED <<period, view>>

QueueUsage(q) ==
  /\ call[q].pc = "holding" /\ Queues(q)
  /\ call[q].id \notin LockedRows
  /\ Own(q).status = "reserved"
  /\ row' = [row EXCEPT ![call[q].id].status = "queued", ![call[q].id].job = q]
  /\ Move(q, "queued")
  /\ UNCHANGED <<period, view>>

\* queue_product_usage raises 409 with the row locked by the request's session;
\* the handler's release then waits for that lock in a second session.
QueueRefused(q) ==
  /\ call[q].pc = "holding" /\ Queues(q)
  /\ call[q].id \notin LockedRows
  /\ Own(q).status # "reserved"
  /\ Move(q, "hung")
  /\ UNCHANGED <<row, period, view>>

\* The API process dies: its transactions roll back, committed rows stay.
Crash(q) ==
  /\ call[q].pc \in {"waiting", "admitted", "holding", "hung"}
  /\ Return(q, "done")
  /\ UNCHANGED <<row, period, view>>

-----------------------------------------------------------------------------
(* The worker, for the message of the job that q queued.                   *)

\* Faults: the claim commits its status at once, or accepts any job.
ClaimUsageFlushed(q) ==
  /\ call[q].pc = "queued"
  /\ call[q].id \notin LockedRows
  /\ Own(q).status = "queued" /\ Own(q).job = q
  /\ SetStatus(call[q].id, "running")
  /\ Move(q, "running")
  /\ UNCHANGED <<period, view>>
ClaimUsageOfAnyJob(q) ==
  /\ call[q].pc = "queued"
  /\ call[q].id \notin LockedRows
  /\ Own(q).status = "queued"
  /\ Move(q, "running")
  /\ UNCHANGED <<row, period, view>>
ClaimUsage(q) ==
  /\ call[q].pc = "queued"
  /\ call[q].id \notin LockedRows
  /\ Own(q).status = "queued" /\ Own(q).job = q
  /\ Move(q, "running")
  /\ UNCHANGED <<row, period, view>>

\* The claim fails: "duplicate_blocked", and the message is acknowledged.
BlockDuplicate(q) ==
  /\ call[q].pc = "queued"
  /\ call[q].id \notin LockedRows
  /\ ~(Own(q).status = "queued" /\ Own(q).job = q)
  /\ Move(q, "blocked")
  /\ UNCHANGED <<row, period, view>>

\* Claim and finalize belong to one transaction: "running" is overwritten in
\* memory before anything is flushed, and only the final status is committed.
Settle(q, consumed) ==
  /\ call[q].pc = "running"
  /\ SetStatus(call[q].id, IF consumed THEN "consumed" ELSE "released")
  /\ Move(q, "finished")
  /\ UNCHANGED <<period, view>>

\* The worker dies (the message is delivered again), or its commit fails (the
\* task is acknowledged as failed): the claim is rolled back.
Rollback(q) ==
  /\ call[q].pc = "running"
  /\ \E pc \in {"queued", "blocked"} : Move(q, pc)
  /\ UNCHANGED <<row, period, view>>

\* A delivery for a job that is terminal, or deleted with its document, releases
\* the row the message names, whichever job holds it now.
IgnoreDelivery(q) ==
  /\ call[q].pc \in {"queued", "finished"}
  /\ call[q].id \notin LockedRows
  /\ IsOpen(Own(q))
  /\ SetStatus(call[q].id, "released")
  /\ Move(q, "finished")
  /\ UNCHANGED <<period, view>>

-----------------------------------------------------------------------------
(* billing_summary calls _meter_usage without the account lock.            *)

ViewSummary ==
  /\ SummaryViews /\ view = {} /\ StaleRows # {}
  /\ view' = StaleRows
  /\ UNCHANGED <<row, period, call>>

CommitSummary ==
  /\ view # {} /\ view \cap LockedRows = {}
  /\ row' = Expired(view)
  /\ view' = {}
  /\ UNCHANGED <<period, call>>

-----------------------------------------------------------------------------
(* Time and the billing account.                                           *)

\* A reservation turns 30 minutes old.  Its request is dead by then, unless
\* provider timeouts are configured above the expiry (SlowCalls).
Age(id) ==
  /\ IsOpen(row[id]) /\ ~row[id].aged
  /\ SlowCalls \/ \A q \in At({"holding"}) : call[q].id # id
  /\ row' = [row EXCEPT ![id].aged = TRUE]
  /\ UNCHANGED <<period, call, view>>

NextMonth ==
  /\ period < MaxPeriod
  /\ period' = period + 1
  /\ UNCHANGED <<row, call, view>>

Reserving(q)  == \/ \E p \in Plan : Arrive(q, p)
                 \/ RejectDuplicate(q) \/ Examine(q) \/ RejectQuota(q) \/ Admit(q)
Holding(q)    == (\E c \in BOOLEAN : FinalizeHeld(q, c)) \/ QueueUsage(q) \/ QueueRefused(q)
Delivering(q) == \/ ClaimUsage(q) \/ BlockDuplicate(q) \/ Rollback(q) \/ IgnoreDelivery(q)
                 \/ \E c \in BOOLEAN : Settle(q, c)

Next ==
  \/ \E q \in Request : Reserving(q) \/ Holding(q) \/ Delivering(q) \/ Crash(q)
  \/ \E id \in RowId : Age(id)
  \/ ViewSummary \/ CommitSummary \/ NextMonth

Spec == Init /\ [][Next]_vars

-----------------------------------------------------------------------------
TypeOK ==
  /\ row \in [RowId -> Row]
  /\ period \in Period
  /\ call \in [Request -> Call]
  /\ view \in SUBSET RowId

\* However requests, workers, expiry, plan changes and the turn of the month
\* interleave, no month ever holds more reserved, queued and consumed units of a
\* meter than the largest plan allows: what reserve_product_usage's count under
\* the account lock is for.
WithinQuota == \A m \in Meter, p \in Period : Usage(m, p) <= Quota["pro"][m]

\* Why WithinQuota holds.  One request at a time is between count and commit; its
\* count bounds the month it counted, and no unit lies in a month after that one,
\* so the unit it adds fits even if the month has turned since.
CountBounds ==
  \A q \in At({"admitted"}) :
    /\ \A r \in At({"admitted"}) : r = q
    /\ call[q].seen <= period
    /\ Usage(MeterOf[q], call[q].seen) <= call[q].used
    /\ \A id \in RowId : row[id].status \in Counted => row[id].period <= call[q].seen

\* A worker that has claimed a unit still finds it queued for its own job when it
\* settles it: the row lock keeps expiry, other deliveries and requests away.
ClaimHolds ==
  /\ \A q \in At({"running"}) : Own(q).status = "queued" /\ Own(q).job = q
  /\ \A id \in RowId : row[id].status = "queued" => Celery /\ id[1] = "detection"

\* The inductive strengthening of WithinQuota.
ReserveInv ==
  /\ CountBounds
  /\ ClaimHolds
  /\ \A id \in RowId : row[id].status \in Counted => row[id].period <= period
  /\ \A q \in Request : call[q].id[1] = MeterOf[q]

\* A request is admitted only while the month it is charged to has room under
\* the plan it was read with, even if the month or the plan turned after the
\* count was taken.
AdmitWithinPlan ==
  [][\A q \in Request :
       call[q].pc = "admitted" /\ call'[q].pc = "holding"
         => Usage(MeterOf[q], period)' <= Quota[call[q].plan][MeterOf[q]]]_vars

\* Only the worker that claimed a queued unit for the job the unit is bound to
\* can charge it: claim_product_usage compares the job and the row lock keeps
\* every other delivery out until the commit.
ChargedByItsJob ==
  [][\A id \in RowId :
       row[id].status = "queued" /\ row'[id].status = "consumed"
         => \E q \in At({"running"}) : call[q].id = id /\ row[id].job = q]_vars

-----------------------------------------------------------------------------
(* The quota book this table implements.                                   *)

UnitState(r) == CASE r.status = "consumed" -> "charged"
                  [] r.status \in Open     -> "held"
                  [] OTHER                 -> "free"
PoolOfRow(id) == id[1]

Book == INSTANCE QuotaBook WITH
  Unit <- RowId, Pool <- Meter, Month <- Period, PoolOf <- PoolOfRow, Limit <- Quota["pro"],
  state <- [id \in RowId |-> UnitState(row[id])],
  month <- [id \in RowId |-> row[id].period],
  doomed <- view \cup UNION {call[q].stale : q \in At({"admitted"})}

\* The interleaved reads, locks and expiries of billing.py are a quota book: a
\* month is never over-committed, and a unit once charged is never given back
\* (docs/BILLING.md:50, a replay of a consumed key stays refused) but for the
\* units that a summary or a reserve had read as expired while they were held.
ImplementsBook == Book!Spec
=============================================================================
