--------------------------- MODULE ProviderLedger ---------------------------
(***************************************************************************)
(* The ledger of paid provider calls, provider_usage.py: calls are          *)
(* reserved in batches before any outbound traffic, under one advisory lock *)
(* for the whole site and one per owner, then claimed, finalized or         *)
(* cancelled by whoever makes them.                                         *)
(*                                                                         *)
(* A batch is one run of reserve_provider_calls; what it asks for is a     *)
(* constant of the model, when it asks is not.  One tick of the clock is    *)
(* the unit in which the windows below are given.                          *)
(***************************************************************************)
EXTENDS Integers, FiniteSets

CONSTANTS
  Batch,       \* invocations of reserve_provider_calls
  Event,       \* rows of provider_usage_events
  BatchOf,     \* [Event -> Batch], the batch that reserves the row
  OwnerOf,     \* [Batch -> an owner]
  ProviderOf,  \* [Batch -> {"Pangram", "DeepSeek"}]
  ContentOf,   \* [Event -> the operation and the content hashed into its key]
  Ttl, Hour, Day, Retention, BreakerTime,      \* durations, in ticks
  MaxActive, PangramHour, PangramDay, OwnerHour, GlobalHour, GlobalDay,
  Threshold,   \* failures in a row that open the breaker
  MaxNow       \* bound: the last tick explored

Status == {"none", "reserved", "in_progress", "success", "failed", "outcome_unknown", "cancelled"}
Active == {"reserved", "in_progress"}
Failure == {"failed", "outcome_unknown"}
Final  == Failure \cup {"success"}
CountedStatus == Active \cup Final
Ended  == Final \cup {"cancelled"}
Time   == 0..MaxNow

\* config.py requires 1..365 days of retention and an hourly Pangram limit
\* within the daily one; the hour and the day are fixed in the code.
ASSUME LedgerAssumption ==
  /\ IsFiniteSet(Event) /\ BatchOf \in [Event -> Batch]
  /\ {Ttl, Hour, Day, Retention, BreakerTime, MaxNow} \subseteq Nat
  /\ {MaxActive, PangramHour, PangramDay, OwnerHour, GlobalHour, GlobalDay} \subseteq Nat
  /\ Threshold \in Nat \ {0}
  /\ Hour <= Day /\ Day <= Retention
  \* A batch names each operation once.
  /\ \A d, e \in Event : BatchOf[d] = BatchOf[e] /\ ContentOf[d] = ContentOf[e] => d = e

VARIABLES
  event,    \* the provider_usage_events table; a deleted row has row = FALSE and
            \* keeps its fields, which no query reads, as history
  batch,    \* [Batch -> [pc, at]]: at is the clock read before the lock is granted
  now

vars == <<event, batch, now>>

NoEvent == [row |-> FALSE, status |-> "none", created |-> 0, completed |-> 0]

Init ==
  /\ event = [e \in Event |-> NoEvent]
  /\ batch = [b \in Batch |-> [pc |-> "idle", at |-> 0]]
  /\ now = 0

-----------------------------------------------------------------------------
EventsOf(b) == {e \in Event : BatchOf[e] = b}
Owner(e)    == OwnerOf[BatchOf[e]]
Provider(e) == ProviderOf[BatchOf[e]]

Ever(statuses)   == {e \in Event : event[e].status \in statuses}
In(statuses)     == {e \in Ever(statuses) : event[e].row}
OfOwner(o)       == {e \in Event : Owner(e) = o}
OfProvider(o, p) == {e \in OfOwner(o) : Provider(e) = p}
Since(S, t)      == {e \in S : event[e].created >= t}

\* The site's and the owner's rolling budgets, and Pangram's own, seen from time t.
Fits(S, n, limit) == Cardinality(S) + n <= limit
WithinBudgets(b, t) ==
  LET n == Cardinality(EventsOf(b))
      o == OwnerOf[b]
      counted == In(CountedStatus)
      pangram == OfProvider(o, "Pangram")
  IN /\ Fits(Since(counted, t - Hour), n, GlobalHour)
     /\ Fits(Since(counted, t - Day), n, GlobalDay)
     /\ Fits(Since(counted \cap OfOwner(o), t - Hour), n, OwnerHour)
     /\ ProviderOf[b] = "Pangram" =>
          /\ Fits(Since(In(Active) \cap pangram, t - Ttl), n, MaxActive)
          /\ Fits(Since(counted \cap pangram, t - Hour), n, PangramHour)
          /\ Fits(Since(counted \cap pangram, t - Day), n, PangramDay)

\* The latest Threshold outcomes of an owner's calls to a provider, by completion
\* and then creation; ties may be read in any order.
Newer(e, f) ==
  \/ event[e].completed > event[f].completed
  \/ event[e].completed = event[f].completed /\ event[e].created > event[f].created
Latest(o, p) ==
  LET ended == In(Final) \cap OfProvider(o, p)
  IN {R \in SUBSET ended : Cardinality(R) = Threshold
                           /\ \A e \in ended \ R, f \in R : ~Newer(e, f)}
Trips(R) == /\ \A e \in R : event[e].status \in Failure
            /\ \E e \in R : event[e].completed + BreakerTime > now
BreakerOpen(b)   == \E R \in Latest(OwnerOf[b], ProviderOf[b]) : Trips(R)
BreakerClosed(b) == LET latest == Latest(OwnerOf[b], ProviderOf[b])
                    IN latest = {} \/ \E R \in latest : ~Trips(R)

\* A Pangram task may complete and still fail local validation, so a failed call
\* blocks a repeat of its content too.
Blocking(p) == IF p = "Pangram" THEN CountedStatus ELSE CountedStatus \ {"failed"}
\* Fault: a failed Pangram call does not block its content.
RepeatsUnlessFailed(b, t) ==
  \E e \in EventsOf(b), d \in OfProvider(OwnerOf[b], ProviderOf[b]) :
    /\ ContentOf[d] = ContentOf[e]
    /\ d \in In(CountedStatus \ {"failed"}) /\ event[d].created >= t - Day
Repeats(b, t) ==
  \E e \in EventsOf(b), d \in OfProvider(OwnerOf[b], ProviderOf[b]) :
    /\ ContentOf[d] = ContentOf[e]
    /\ d \in In(Blocking(ProviderOf[b])) /\ event[d].created >= t - Day

\* Rows created before t minus the retention period are deleted.
\* Fault: the retention takes the cutoff of the hourly count.
CleanedHourly(t) ==
  [e \in Event |-> [event[e] EXCEPT !.row = @ /\ event[e].created >= t - Hour]]
Cleaned(t) ==
  [e \in Event |-> [event[e] EXCEPT !.row = @ /\ event[e].created >= t - Retention]]

-----------------------------------------------------------------------------
(* reserve_provider_calls: the clock is read, then the locks are awaited.  *)

Ask(b) ==
  /\ batch[b].pc = "idle"
  /\ batch' = [batch EXCEPT ![b] = [pc |-> "asked", at |-> now]]
  /\ UNCHANGED <<event, now>>

\* The HTTPException rolls the transaction back, its clean-up included; the
\* caller may ask again.
Refuse(b) ==
  /\ batch[b].pc = "asked"
  /\ ~WithinBudgets(b, batch[b].at) \/ BreakerOpen(b) \/ Repeats(b, batch[b].at)
  /\ batch' = [batch EXCEPT ![b] = [pc |-> "idle", at |-> 0]]
  /\ UNCHANGED <<event, now>>

Reserve(b) ==
  /\ batch[b].pc = "asked"
  /\ WithinBudgets(b, batch[b].at) /\ BreakerClosed(b) /\ ~Repeats(b, batch[b].at)
  /\ event' = [e \in Event |->
                 IF BatchOf[e] = b
                   THEN [row |-> TRUE, status |-> "reserved", created |-> now, completed |-> 0]
                   ELSE Cleaned(batch[b].at)[e]]
  /\ batch' = [batch EXCEPT ![b] = [pc |-> "held", at |-> 0]]
  /\ UNCHANGED now

-----------------------------------------------------------------------------
(* The caller's side of a reserved row.                                    *)

\* The conditional UPDATE of claim_provider_call.
\* Fault: the row gets the status of a job.
ClaimAsJob(e) ==
  /\ e \in In({"reserved"})
  /\ event' = [event EXCEPT ![e].status = "running"]
  /\ UNCHANGED <<batch, now>>
Claim(e) ==
  /\ e \in In({"reserved"})
  /\ event' = [event EXCEPT ![e].status = "in_progress"]
  /\ UNCHANGED <<batch, now>>

\* finalize_provider_call and cancel_unused_reservations.  They read and write
\* without a row lock: a row has one caller here (AnalysisPipeline has two).  No
\* query counts a cancelled row; the model forgets its times.
Finalize(e, s) ==
  /\ e \in In(Active)
  /\ LET ended == IF s = "cancelled"
                    THEN [row |-> FALSE, status |-> s, created |-> 0, completed |-> 0]
                    ELSE [row |-> TRUE, status |-> s, created |-> event[e].created,
                          completed |-> now]
     IN event' = [event EXCEPT ![e] = ended]
  /\ UNCHANGED <<batch, now>>

\* The hourly task of the worker.
CleanUp ==
  /\ event' = Cleaned(now) /\ event' # event
  /\ UNCHANGED <<batch, now>>

Tick == now < MaxNow /\ now' = now + 1 /\ UNCHANGED <<event, batch>>

Next ==
  \/ \E b \in Batch : Ask(b) \/ Refuse(b) \/ Reserve(b)
  \/ \E e \in Event : Claim(e) \/ \E s \in Ended : Finalize(e, s)
  \/ CleanUp \/ Tick

Spec == Init /\ [][Next]_vars

-----------------------------------------------------------------------------
TypeOK ==
  /\ event \in [Event -> [row : BOOLEAN, status : Status,
                              created : Time, completed : Time]]
  /\ batch \in [Batch -> [pc : {"idle", "asked", "held"}, at : Time]]
  /\ now \in Time

\* No window of an hour or a day, wherever it starts, ever held more counted calls
\* than its budget: neither for the site, nor for an owner, nor for an owner's
\* Pangram detections.  The counts of reserve_provider_calls only look back from
\* a clock read before the lock; deletion after the retention period, late
\* completions and cancellations must not open a gap.
Between(S, t, span) == {e \in S : t <= event[e].created /\ event[e].created <= t + span}
WindowHolds(S, span, limit) ==
  \A t \in Time : Cardinality(Between(Ever(CountedStatus) \cap S, t, span)) <= limit
BudgetsHold ==
  /\ WindowHolds(Event, Hour, GlobalHour) /\ WindowHolds(Event, Day, GlobalDay)
  /\ \A b \in Batch :
       /\ WindowHolds(OfOwner(OwnerOf[b]), Hour, OwnerHour)
       /\ WindowHolds(OfProvider(OwnerOf[b], "Pangram"), Hour, PangramHour)
       /\ WindowHolds(OfProvider(OwnerOf[b], "Pangram"), Day, PangramDay)

\* Two calls an owner was allowed for the same content of the same operation were
\* allowed more than 24 hours apart, unless the first one was cancelled before it
\* was sent or, outside Pangram, failed.
NoRepeat ==
  \A d, e \in Event :
    /\ d # e /\ Owner(d) = Owner(e) /\ Provider(d) = Provider(e)
    /\ ContentOf[d] = ContentOf[e]
    /\ {event[d].status, event[e].status} \subseteq Blocking(Provider(e))
    => event[d].created > event[e].created + Day \/ event[e].created > event[d].created + Day
=============================================================================
