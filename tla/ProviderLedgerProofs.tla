------------------------- MODULE ProviderLedgerProofs -------------------------
(***************************************************************************)
(* The budgets and the 24-hour duplicate rule of ProviderLedger, for any   *)
(* batches, budgets and durations.  The argument: every step but Reserve   *)
(* only takes rows out of the counted ones and never moves a creation time *)
(* (class Drops), so no window grows; Reserve adds rows created now, and a *)
(* window that holds them holds no row older than the cutoff of the count, *)
(* which was taken from a clock read earlier.                              *)
(***************************************************************************)
EXTENDS ProviderLedger, FiniteSetTheorems, TLAPS

\* Nothing counted is from the future, what was deleted is more than a day old, and
\* no clock was read in the future.
PastOnly ==
  /\ \A e \in Ever(CountedStatus) :
       /\ event[e].created <= now
       /\ event[e].row \/ event[e].created < now - Day
  /\ \A b \in Batch : batch[b].pc = "asked" => batch[b].at <= now

IInv == TypeOK /\ PastOnly

\* A step that adds no counted row, leaves the creation time of every one it keeps
\* and deletes only old ones.
Drops ==
  \A e \in Event : event'[e].status \in CountedStatus =>
    /\ event[e].status \in CountedStatus
    /\ event'[e].status = "failed" \/ event[e].status # "failed"
    /\ event'[e].created = event[e].created
    /\ event'[e].row \/ ~event[e].row \/ event[e].created < now - Day

USE DEF Status, Active, Failure, Final, CountedStatus, Ended, Time

\* The clean-up rewrites nothing but the existence of old rows.
LEMMA CleanedRow ==
  ASSUME TypeOK, NEW t \in Int, NEW e \in Event
  PROVE  /\ Cleaned(t)[e] \in [row : BOOLEAN, status : Status, created : Time, completed : Time]
         /\ Cleaned(t)[e].status = event[e].status /\ Cleaned(t)[e].created = event[e].created
         /\ Cleaned(t)[e].row <=> event[e].row /\ event[e].created >= t - Retention
<1>1. event[e] \in [row : BOOLEAN, status : Status, created : Time, completed : Time]
  BY DEF TypeOK
<1>2. Cleaned(t)[e] = [event[e] EXCEPT !.row = event[e].row /\ event[e].created >= t - Retention]
  BY DEF Cleaned
<1>3. (event[e].row /\ event[e].created >= t - Retention) \in BOOLEAN
  BY <1>1, LedgerAssumption
<1> QED BY <1>1, <1>2, <1>3

\* Every step keeps the shape of the state.
LEMMA TypeStep == TypeOK /\ [Next]_vars => TypeOK'
<1> SUFFICES ASSUME TypeOK, [Next]_vars PROVE TypeOK'
  OBVIOUS
<1> USE LedgerAssumption DEF TypeOK
<1>1. ASSUME NEW b \in Batch, Ask(b) PROVE TypeOK'
  BY <1>1 DEF Ask
<1>2. ASSUME NEW b \in Batch, Refuse(b) PROVE TypeOK'
  BY <1>2 DEF Refuse
<1>3. ASSUME NEW b \in Batch, Reserve(b) PROVE TypeOK'
  <2>1. batch[b].at \in Int
    OBVIOUS
  <2>2. \A e \in Event : event'[e] \in [row : BOOLEAN, status : Status, created : Time, completed : Time]
    BY <1>3, <2>1, CleanedRow DEF Reserve
  <2>3. event' = [e \in Event |-> event'[e]] /\ batch' \in [Batch -> [pc : {"idle", "asked", "held"}, at : Time]]
    BY <1>3 DEF Reserve
  <2> QED BY <1>3, <2>2, <2>3 DEF Reserve
<1>4. ASSUME NEW e \in Event, Claim(e) PROVE TypeOK'
  BY <1>4 DEF Claim
<1>5. ASSUME NEW e \in Event, NEW s \in Ended, Finalize(e, s) PROVE TypeOK'
  <2>1. event'[e] \in [row : BOOLEAN, status : Status, created : Time, completed : Time]
    BY <1>5 DEF Finalize
  <2>2. UNCHANGED <<batch, now>> /\ \A d \in Event \ {e} : event'[d] = event[d]
    BY <1>5 DEF Finalize
  <2>3. event' = [d \in Event |-> event'[d]]
    BY <1>5 DEF Finalize
  <2> QED BY <2>1, <2>2, <2>3
<1>6. CASE CleanUp
  <2>1. now \in Int
    OBVIOUS
  <2>2. \A e \in Event : event'[e] \in [row : BOOLEAN, status : Status, created : Time, completed : Time]
    BY <1>6, <2>1, CleanedRow DEF CleanUp
  <2>3. event' = [e \in Event |-> event'[e]]
    BY <1>6 DEF CleanUp, Cleaned
  <2> QED BY <1>6, <2>2, <2>3 DEF CleanUp
<1>7. CASE Tick
  BY <1>7 DEF Tick
<1>8. CASE UNCHANGED vars
  BY <1>8 DEF vars
<1> QED BY <1>1, <1>2, <1>3, <1>4, <1>5, <1>6, <1>7, <1>8 DEF Next

\* The state keeps its shape: rows take known statuses and times up to the clock.
THEOREM TypeCorrect == Spec => []TypeOK
<1>1. Init => TypeOK
  BY LedgerAssumption DEF Init, TypeOK, NoEvent
<1> QED BY <1>1, TypeStep, PTL DEF Spec

\* Every step is a reservation or drops rows.
LEMMA StepKinds ==
  ASSUME TypeOK, [Next]_vars
  PROVE  Drops \/ \E b \in Batch : Reserve(b)
<1>1. ASSUME NEW b \in Batch, Ask(b) \/ Refuse(b) PROVE Drops
  BY <1>1 DEF Ask, Refuse, Drops
<1>2. ASSUME NEW e \in Event, Claim(e) PROVE Drops
  BY <1>2 DEF Claim, Drops, TypeOK, In, Ever
<1>3. ASSUME NEW e \in Event, NEW s \in Ended, Finalize(e, s) PROVE Drops
  <2>1. event[e].status \in Active /\ event[e].row
    BY <1>3 DEF Finalize, In, Ever
  <2>2. \A d \in Event \ {e} : event'[d] = event[d]
    BY <1>3 DEF Finalize, TypeOK
  <2>3. /\ event'[e].status = s
        /\ s # "cancelled" => event'[e].row /\ event'[e].created = event[e].created
    BY <1>3 DEF Finalize, TypeOK
  <2> QED BY <2>1, <2>2, <2>3 DEF Drops
<1>4. CASE CleanUp
  <2>1. now \in Int /\ Day <= Retention /\ {Day, Retention} \subseteq Nat
    BY LedgerAssumption DEF TypeOK
  <2>2. \A e \in Event : event[e].created \in Int /\ event[e].row \in BOOLEAN
    BY LedgerAssumption DEF TypeOK
  <2>3. ASSUME NEW e \in Event
        PROVE  /\ event'[e].status = event[e].status /\ event'[e].created = event[e].created
               /\ event'[e].row \/ ~event[e].row \/ event[e].created < now - Day
    <3>1. event'[e] = Cleaned(now)[e]
      BY <1>4 DEF CleanUp
    <3> QED BY <2>1, <2>2, <3>1, CleanedRow
  <2> QED BY <2>3 DEF Drops
<1>5. CASE Tick \/ UNCHANGED vars
  BY <1>5 DEF Tick, vars, Drops
<1> QED BY <1>1, <1>2, <1>3, <1>4, <1>5 DEF Next

\* The clock only goes forward.
LEMMA ClockStep ==
  ASSUME TypeOK, [Next]_vars
  PROVE  now <= now' /\ now \in Int /\ now' \in Int
BY LedgerAssumption DEF TypeOK, Next, vars, Ask, Refuse, Reserve, Claim, Finalize, CleanUp, Tick

\* A reservation writes its batch's rows as reserved now, and drops rows elsewhere.
LEMMA ReserveWrites ==
  ASSUME TypeOK, NEW b \in Batch, Reserve(b), NEW e \in Event
  PROVE  IF BatchOf[e] = b
           THEN event'[e].status = "reserved" /\ event'[e].created = now
           ELSE /\ event'[e].status = event[e].status
                /\ event'[e].created = event[e].created
                /\ event'[e].row \/ ~event[e].row \/ event[e].created < batch[b].at - Retention
<1>1. CASE BatchOf[e] = b
  BY <1>1 DEF Reserve
<1>2. CASE BatchOf[e] # b
  <2>1. event'[e] = Cleaned(batch[b].at)[e]
    BY <1>2 DEF Reserve
  <2>2. batch[b].at \in Int /\ event[e].created \in Int /\ Retention \in Int
    BY LedgerAssumption DEF TypeOK
  <2> QED BY <1>2, <2>1, <2>2, CleanedRow
<1> QED BY <1>1, <1>2

\* What is counted is in the past, and so is every clock a waiting batch has read.
LEMMA Past == Spec => []IInv
<1>1. Init => PastOnly
  BY LedgerAssumption DEF Init, PastOnly, Ever, NoEvent
<1>2. IInv /\ [Next]_vars => PastOnly'
  <2> SUFFICES ASSUME IInv, [Next]_vars PROVE PastOnly'
    OBVIOUS
  <2> USE DEF IInv
  <2>0. now <= now' /\ now \in Int /\ now' \in Int
    BY ClockStep
  <2>1. \A e \in Event : event'[e].status \in CountedStatus =>
          /\ event'[e].created <= now'
          /\ event'[e].row \/ event'[e].created < now' - Day
    <3>1. CASE Drops
      BY <2>0, <3>1, LedgerAssumption DEF Drops, PastOnly, Ever, TypeOK
    <3>2. ASSUME NEW b \in Batch, Reserve(b), NEW e \in Event, event'[e].status \in CountedStatus
          PROVE  /\ event'[e].created <= now'
                 /\ event'[e].row \/ event'[e].created < now' - Day
      <4>1. batch[b].at <= now /\ batch[b].at \in Int
        BY <3>2, LedgerAssumption DEF PastOnly, Reserve, TypeOK
      <4>2. CASE BatchOf[e] = b
        BY <2>0, <3>2, <4>2 DEF Reserve
      <4>3. CASE BatchOf[e] # b
        <5>1. /\ event'[e].status = event[e].status /\ event'[e].created = event[e].created
              /\ event'[e].row \/ ~event[e].row \/ event[e].created < batch[b].at - Retention
          BY <3>2, <4>3, ReserveWrites
        <5>2. /\ event[e].created <= now
              /\ event[e].row \/ event[e].created < now - Day
          BY <3>2, <5>1 DEF PastOnly, Ever
        <5>3. event[e].created \in Int /\ Day \in Nat /\ Retention \in Nat /\ Day <= Retention
          BY LedgerAssumption DEF TypeOK
        <5> QED BY <2>0, <4>1, <5>1, <5>2, <5>3
      <4> QED BY <4>2, <4>3
    <3> QED BY <3>1, <3>2, StepKinds
  <2>2. \A b \in Batch : batch'[b].pc = "asked" => batch'[b].at <= now'
    <3> SUFFICES ASSUME NEW b \in Batch, batch'[b].pc = "asked" PROVE batch'[b].at <= now'
      OBVIOUS
    <3>1. batch'[b].at = now \/ batch'[b] = batch[b]
      BY DEF Next, vars, Ask, Refuse, Reserve, Claim, Finalize, CleanUp, Tick, TypeOK
    <3> QED BY <2>0, <3>1 DEF PastOnly, TypeOK
  <2> QED BY <2>1, <2>2 DEF PastOnly, Ever
<1>3. IInv /\ [Next]_vars => TypeOK'
  BY TypeStep DEF IInv
<1> QED BY <1>1, <1>2, TypeCorrect, PTL DEF Spec, IInv

-----------------------------------------------------------------------------
\* Windows.

\* What the counts of a reservation guarantee about one budgeted set: the batch
\* has no call in it, or its own calls fit on top of what the clock it read sees.
Counted(b, S, span, limit) ==
  \/ EventsOf(b) \cap S = {}
  \/ Fits(Since(In(CountedStatus) \cap S, batch[b].at - span), Cardinality(EventsOf(b)), limit)

\* A smaller window of a finite set of rows has no more of them.
LEMMA SmallerWindow ==
  ASSUME NEW A \in SUBSET Event, NEW B \in SUBSET Event, A \subseteq B, NEW limit \in Nat,
         Cardinality(B) <= limit
  PROVE  Cardinality(A) <= limit
BY LedgerAssumption, FS_Subset, FS_CardinalityType

\* A step that drops rows keeps every budget.
LEMMA DropKeepsWindow ==
  ASSUME NEW S \in SUBSET Event, NEW span \in Nat, NEW limit \in Nat,
         Drops, WindowHolds(S, span, limit)
  PROVE  WindowHolds(S, span, limit)'
<1> SUFFICES ASSUME NEW t \in Time
             PROVE  Cardinality(Between(Ever(CountedStatus) \cap S, t, span)') <= limit
  BY DEF WindowHolds
<1> DEFINE A == Between(Ever(CountedStatus) \cap S, t, span)'
           B == Between(Ever(CountedStatus) \cap S, t, span)
<1>1. A \subseteq B /\ B \subseteq Event
  BY DEF Between, Ever, Drops
<1>2. Cardinality(B) <= limit
  BY DEF WindowHolds
<1> HIDE DEF A, B
<1>3. Cardinality(A) <= limit
  BY <1>1, <1>2, SmallerWindow
<1> QED BY <1>3 DEF A

\* A reservation keeps a budget it was counted against: a window that holds its
\* calls reaches no further back than the cutoff of the count.
LEMMA ReserveKeepsWindow ==
  ASSUME IInv, NEW b \in Batch, Reserve(b), NEW S \in SUBSET Event,
         NEW span \in Nat, span <= Day, NEW limit \in Nat,
         Counted(b, S, span, limit), WindowHolds(S, span, limit)
  PROVE  WindowHolds(S, span, limit)'
<1> SUFFICES ASSUME NEW t \in Time
             PROVE  Cardinality(Between(Ever(CountedStatus) \cap S, t, span)') <= limit
  BY DEF WindowHolds
<1> DEFINE A == Between(Ever(CountedStatus) \cap S, t, span)'
           B == Between(Ever(CountedStatus) \cap S, t, span)
           C == Since(In(CountedStatus) \cap S, batch[b].at - span)
           N == EventsOf(b)
<1>0. batch[b].at <= now /\ batch[b].at \in Int /\ now \in Int /\ t \in Int
  BY LedgerAssumption DEF IInv, TypeOK, PastOnly, Reserve
<1>1. A \in SUBSET Event /\ B \in SUBSET Event /\ C \in SUBSET Event /\ N \in SUBSET Event
  BY DEF Between, Ever, In, Since, EventsOf
<1>2. A \subseteq B \cup (N \cap S)
  BY ReserveWrites, LedgerAssumption DEF IInv, Between, Ever, EventsOf
<1>3. Cardinality(B) <= limit
  BY DEF WindowHolds
<1>4. CASE A \cap N = {}
  <2> HIDE DEF A, B, N
  <2> QED BY <1>1, <1>2, <1>3, <1>4, SmallerWindow DEF A
<1>5. CASE A \cap N # {}
  <2>1. now <= t + span
    BY <1>5, ReserveWrites DEF IInv, EventsOf, Between
  <2>2. B \subseteq C
    <3> SUFFICES ASSUME NEW e \in B PROVE e \in C
      OBVIOUS
    <3>1. event[e].created \in Int /\ t <= event[e].created
      BY LedgerAssumption DEF IInv, TypeOK, Between, Ever
    <3>2. event[e].created >= batch[b].at - span
      BY <3>1, <2>1, <1>0
    <3>3. event[e].row
      <4>1. event[e].row \/ event[e].created < now - Day
        BY DEF IInv, PastOnly, Between
      <4> QED BY <1>0, <2>1, <3>1, <4>1, LedgerAssumption
    <3> QED BY <3>2, <3>3 DEF Between, Since, In, Ever
  <2>3. Fits(C, Cardinality(N), limit)
    BY <1>2, <1>5 DEF Counted, Between, Ever
  <2> HIDE DEF A, B, C, N
  <2>4. IsFiniteSet(C) /\ IsFiniteSet(N) /\ IsFiniteSet(C \cup N) /\ A \subseteq C \cup N
    BY <1>1, <1>2, <2>2, LedgerAssumption, FS_Subset, FS_Union
  <2>5. /\ Cardinality(C \cup N) = Cardinality(C) + Cardinality(N) - Cardinality(C \cap N)
        /\ IsFiniteSet(C \cap N)
    BY <2>4, FS_Union, FS_Intersection
  <2>6. Cardinality(C) \in Nat /\ Cardinality(N) \in Nat /\ Cardinality(C \cap N) \in Nat
    BY <2>4, <2>5, FS_CardinalityType
  <2>7. Cardinality(C \cup N) <= limit
    BY <2>3, <2>5, <2>6 DEF Fits
  <2>8. Cardinality(A) <= limit
    BY <1>1, <2>4, <2>7, SmallerWindow
  <2> QED BY <2>8 DEF A
<1> QED BY <1>4, <1>5

\* Every budget was counted by a batch that is reserved.
LEMMA ReserveCounts ==
  ASSUME TypeOK, NEW b \in Batch, Reserve(b)
  PROVE  /\ Counted(b, Event, Hour, GlobalHour) /\ Counted(b, Event, Day, GlobalDay)
         /\ \A c \in Batch :
              /\ Counted(b, OfOwner(OwnerOf[c]), Hour, OwnerHour)
              /\ Counted(b, OfProvider(OwnerOf[c], "Pangram"), Hour, PangramHour)
              /\ Counted(b, OfProvider(OwnerOf[c], "Pangram"), Day, PangramDay)
<1>1. WithinBudgets(b, batch[b].at)
  BY DEF Reserve
<1>2. In(CountedStatus) \cap Event = In(CountedStatus)
  BY DEF In, Ever
<1>3. Counted(b, Event, Hour, GlobalHour) /\ Counted(b, Event, Day, GlobalDay)
  BY <1>1, <1>2 DEF WithinBudgets, Counted
<1>4. ASSUME NEW c \in Batch
      PROVE  /\ Counted(b, OfOwner(OwnerOf[c]), Hour, OwnerHour)
             /\ Counted(b, OfProvider(OwnerOf[c], "Pangram"), Hour, PangramHour)
             /\ Counted(b, OfProvider(OwnerOf[c], "Pangram"), Day, PangramDay)
  <2>1. CASE OwnerOf[c] = OwnerOf[b] /\ ProviderOf[b] = "Pangram"
    BY <1>1, <2>1 DEF WithinBudgets, Counted
  <2>2. CASE OwnerOf[c] = OwnerOf[b] /\ ProviderOf[b] # "Pangram"
    <3>1. EventsOf(b) \cap OfProvider(OwnerOf[c], "Pangram") = {}
      BY <2>2 DEF EventsOf, OfProvider, Provider
    <3> QED BY <1>1, <2>2, <3>1 DEF WithinBudgets, Counted
  <2>3. CASE OwnerOf[c] # OwnerOf[b]
    <3>1. EventsOf(b) \cap OfOwner(OwnerOf[c]) = {}
      BY <2>3 DEF EventsOf, OfOwner, Owner
    <3>2. EventsOf(b) \cap OfProvider(OwnerOf[c], "Pangram") = {}
      BY <3>1 DEF OfProvider
    <3> QED BY <3>1, <3>2 DEF Counted
  <2> QED BY <2>1, <2>2, <2>3
<1> QED BY <1>3, <1>4

\* No rolling window of an hour or a day ever holds more counted calls than its budget.
THEOREM BudgetsRespected == Spec => []BudgetsHold
<1>1. Init => BudgetsHold
  <2> SUFFICES ASSUME Init, NEW S \in SUBSET Event, NEW span \in Nat, NEW limit \in Nat
               PROVE  WindowHolds(S, span, limit)
    BY LedgerAssumption DEF BudgetsHold, OfOwner, OfProvider
  <2>1. Ever(CountedStatus) = {}
    BY DEF Init, NoEvent, Ever
  <2>2. \A t \in Time : Between(Ever(CountedStatus) \cap S, t, span) = {}
    BY <2>1 DEF Between
  <2> QED BY <2>2, FS_EmptySet DEF WindowHolds
<1>2. IInv /\ BudgetsHold /\ [Next]_vars => BudgetsHold'
  <2> SUFFICES ASSUME IInv, BudgetsHold, [Next]_vars PROVE BudgetsHold'
    OBVIOUS
  <2>0. /\ {Hour, Day, GlobalHour, GlobalDay, OwnerHour, PangramHour, PangramDay} \subseteq Nat
        /\ Event \in SUBSET Event
        /\ Hour <= Day /\ Day <= Day
        /\ \A o : OfOwner(o) \in SUBSET Event /\ OfProvider(o, "Pangram") \in SUBSET Event
    BY LedgerAssumption DEF OfOwner, OfProvider
  <2>1. CASE Drops
    BY <2>0, <2>1, DropKeepsWindow DEF BudgetsHold
  <2>2. ASSUME NEW b \in Batch, Reserve(b) PROVE BudgetsHold'
    <3>1. /\ WindowHolds(Event, Hour, GlobalHour)' /\ WindowHolds(Event, Day, GlobalDay)'
      BY <2>0, <2>2, ReserveCounts, ReserveKeepsWindow DEF BudgetsHold, IInv
    <3>2. ASSUME NEW c \in Batch
          PROVE  /\ WindowHolds(OfOwner(OwnerOf[c]), Hour, OwnerHour)'
                 /\ WindowHolds(OfProvider(OwnerOf[c], "Pangram"), Hour, PangramHour)'
                 /\ WindowHolds(OfProvider(OwnerOf[c], "Pangram"), Day, PangramDay)'
      BY <2>0, <2>2, ReserveCounts, ReserveKeepsWindow DEF BudgetsHold, IInv
    <3> QED BY <3>1, <3>2 DEF BudgetsHold
  <2> QED BY <2>1, <2>2, StepKinds DEF IInv
<1> QED BY <1>1, <1>2, Past, PTL DEF Spec

-----------------------------------------------------------------------------
\* An owner's content is not sent twice within a day of the first reservation.
THEOREM NoRepeats == Spec => []NoRepeat
<1>1. Init => NoRepeat
  BY DEF Init, NoEvent, NoRepeat, Blocking
<1>2. IInv /\ NoRepeat /\ [Next]_vars => NoRepeat'
  <2> SUFFICES ASSUME IInv, NoRepeat, [Next]_vars,
                      NEW d \in Event, NEW e \in Event,
                      d # e, Owner(d) = Owner(e), Provider(d) = Provider(e),
                      ContentOf[d] = ContentOf[e],
                      event'[d].status \in Blocking(Provider(e)),
                      event'[e].status \in Blocking(Provider(e))
               PROVE  \/ event'[d].created > event'[e].created + Day
                      \/ event'[e].created > event'[d].created + Day
    BY DEF NoRepeat
  <2>1. CASE Drops
    <3>1. /\ {event[d].status, event[e].status} \subseteq Blocking(Provider(e))
          /\ event'[d].created = event[d].created /\ event'[e].created = event[e].created
      BY <2>1 DEF Drops, Blocking
    <3> QED BY <3>1 DEF NoRepeat
  <2>2. ASSUME NEW b \in Batch, Reserve(b)
        PROVE  \/ event'[d].created > event'[e].created + Day
               \/ event'[e].created > event'[d].created + Day
    <3>0. batch[b].at <= now /\ batch[b].at \in Int /\ now \in Int /\ Day \in Int
      BY <2>2, LedgerAssumption DEF IInv, TypeOK, PastOnly, Reserve
    <3>1. ~(BatchOf[d] = b /\ BatchOf[e] = b)
      BY LedgerAssumption
    <3>2. ASSUME NEW f \in Event, NEW g \in Event, BatchOf[f] = b, BatchOf[g] # b,
                 Owner(f) = Owner(g), Provider(f) = Provider(g), ContentOf[f] = ContentOf[g],
                 event'[g].status \in Blocking(Provider(f))
          PROVE  event'[f].created > event'[g].created + Day
      <4>1. /\ event'[f].created = now
            /\ event'[g].status = event[g].status /\ event'[g].created = event[g].created
        BY <2>2, <3>2, ReserveWrites DEF IInv
      <4>2. event[g].row => ~(event[g].created >= batch[b].at - Day)
        BY <2>2, <3>2, <4>1
           DEF Reserve, Repeats, EventsOf, OfProvider, OfOwner, Owner, Provider, In, Ever
      <4>4. event[g].row \/ event[g].created < now - Day
        BY <3>2, <4>1 DEF IInv, PastOnly, Ever, Blocking
      <4>3. event[g].created \in Int
        BY LedgerAssumption DEF IInv, TypeOK
      <4> QED BY <3>0, <4>1, <4>2, <4>3, <4>4
    <3>3. CASE BatchOf[d] # b /\ BatchOf[e] # b
      <4>1. /\ event'[d].status = event[d].status /\ event'[d].created = event[d].created
            /\ event'[e].status = event[e].status /\ event'[e].created = event[e].created
        BY <2>2, <3>3, ReserveWrites DEF IInv
      <4> QED BY <4>1 DEF NoRepeat
    <3> QED BY <3>1, <3>2, <3>3
  <2> QED BY <2>1, <2>2, StepKinds DEF IInv
<1> QED BY <1>1, <1>2, Past, PTL DEF Spec
=============================================================================
