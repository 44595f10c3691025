------------------------- MODULE StripeBillingProofs -------------------------
(***************************************************************************)
(* Proofs about the billing account, for any requests and any changes at   *)
(* Stripe.  The types, the anchor of a grace period, the evidence for Pro  *)
(* and the agreement with Stripe rest on IInv: what Stripe has sent tells  *)
(* the story of each subscription, and the account rests on an event that  *)
(* no settled event outranks.  That one subscription at a time lives rests *)
(* on Orderly: as long as no ended attempt was opened again and nothing    *)
(* was left unpaid, only the newest attempt can be paid.                   *)
(***************************************************************************)
EXTENDS StripeBilling, TLAPS, WellFoundedInduction, FiniteSetTheorems

Paid(a)     == stripe[a].session \in {"complete", "complete, lapsed"}
Outranks(e) == OlderThan(e, account.at, account.rank)
Ended       == Replaceable \ {"none"}

\* Stripe: what was sent tells the story of each subscription.
Story(a) ==
  /\ stripe[a].status # "none" <=> Paid(a)
  /\ Paid(a) => \E e \in SubEvents(sent) :
       /\ e.of = a /\ e.status = stripe[a].status
       /\ \A f \in SubEvents(sent) : f.of = a => f.at <= e.at
Report(e) ==
  /\ e.at <= now
  /\ e.kind = "expired" => stripe[e.of].session = "expired"
  /\ e.kind # "expired" => Paid(e.of)
  /\ e.kind = "subscription" => e.status # "none"
Told == (\A a \in Attempt : Story(a)) /\ \A e \in sent : Report(e)

\* The account: the event it rests on, and what it has seen.
Entitled == account.plan = "pro" => account.status \in {"active", "past_due"}
RestsOn(e) ==
  /\ e.status = account.status /\ e.at = account.at /\ Rank(e) = account.rank
  /\ e.of = account.sub \/ account.status \in Replaceable
Books ==
  /\ Entitled
  /\ account.sub # 0 => Paid(account.sub)
  /\ account.status = "none" => account.at = 0
  /\ account.status # "none" => \E e \in Settled : RestsOn(e)
  /\ \A f \in Settled : Outranks(f)

IInv == TypeOK /\ Told /\ Books

\* Nothing that breaks OneLive has happened.
Regular == ~reopened /\ \A e \in sent : e.status # "unpaid"

\* What has ended at Stripe stays so.
Final(e) ==
  e.status \in Ended =>
    /\ stripe[e.of].status = e.status
    /\ \A f \in SubEvents(sent) : f.of = e.of => f.at <= e.at
Finals == \A e \in SubEvents(sent) : Final(e)

\* One attempt at a time.
Placed(a) ==
  /\ attempt[a].known <=> attempt[a].status \notin {"none", "creating"}
  /\ attempt[a].status = "none" => stripe[a].session = "none"
  /\ attempt[a].status = "creating" => ~Paid(a)
  /\ attempt[a].status = "expired" => stripe[a].session = "expired"
  /\ attempt[a].status = "open" => stripe[a].session \notin {"none", "complete, lapsed"}
  /\ attempt[a].status = "open" /\ Paid(a) =>
       \E e \in sent \ handled : e.kind = "completed" /\ e.of = a
  /\ attempt[a].status \in {"completed", "conflict", "closed"} => Paid(a)
  /\ attempt[a].status = "closed" =>
       /\ stripe[a].status \in Ended
       /\ \A f \in SubEvents(sent) : f.of = a => Outranks(f)
Calling(r) ==
  call[r].pc \in {"called", "answered"} =>
    /\ call[r].attempt \in Attempt /\ attempt[call[r].attempt].status # "none"
    /\ call[r].pc = "answered" => stripe[call[r].attempt].session # "none"
After(a, b) ==
  a < b /\ attempt[b].status # "none" => attempt[a].status \in {"expired", "closed"}
Attempts ==
  /\ \A a \in Attempt : \A b \in Attempt : After(a, b)
  /\ \A a \in Attempt : Placed(a)
  /\ \A r \in Request : Calling(r)

Orderly == Regular => Finals /\ Attempts

\* The grace period of a past-due account has an end.
Anchored == account.status = "past_due" => account.grace # 0

-----------------------------------------------------------------------------
(* The types.                                                              *)

Account == [plan : {"free", "pro"}, status : SubStatus, sub : 0..MaxAttempt,
            customer : 0..MaxAttempt, grace : 0..(MaxNow + Grace), at : 0..MaxNow,
            rank : {0, 20, 30, 40}]
Row     == [status : AttemptStatus, known : BOOLEAN]
Call    == [pc : {"idle", "read", "called", "answered"}, attempt : 0..MaxAttempt,
            plan : {"free", "pro"}, customer : 0..MaxAttempt]
Session == [session : {"none", "open", "complete", "expired", "complete, lapsed"},
            customer : 0..MaxAttempt, status : SubStatus]
USE BillingAssumption DEF BillingAssumption

\* The greatest of some attempts.
LEMMA Greatest ==
  ASSUME NEW S, S \subseteq Attempt, S # {}
  PROVE  Newest(S) \in S /\ \A b \in S : b <= Newest(S)
<1> DEFINE T == {m \in Nat : MaxAttempt - m \in S}
<1>1. PICK a \in S : TRUE
  OBVIOUS
<1>2. a \in 1..MaxAttempt /\ MaxAttempt - a \in Nat /\ MaxAttempt - (MaxAttempt - a) = a
  BY DEF Attempt
<1>3. T \subseteq Nat /\ T # {}
  BY <1>1, <1>2
<1> HIDE DEF T
<1>4. PICK m \in T : \A n \in T : ~(<<n, m>> \in OpToRel(<, Nat))
  BY <1>3, WFMin, NatLessThanWellFounded, Zenon
<1>5. \A n \in T : ~(n < m)
  BY <1>3, <1>4 DEF OpToRel
<1>6. MaxAttempt - m \in S /\ m \in Nat
  BY <1>3 DEF T
<1>7. ASSUME NEW b \in S PROVE b <= MaxAttempt - m
  <2>1. b \in 1..MaxAttempt
    BY DEF Attempt
  <2>2. MaxAttempt - b \in T
    BY <2>1 DEF T
  <2> QED BY <1>3, <1>5, <1>6, <2>1, <2>2
<1>8. \E x \in S : \A b \in S : b <= x
  BY <1>6, <1>7
<1> QED BY <1>8 DEF Newest

LEMMA NewestType == ASSUME NEW S, S \subseteq Attempt PROVE Newest(S) \in 0..MaxAttempt
<1>1. CASE S = {}
  BY <1>1 DEF Newest
<1>2. CASE S # {}
  <2>1. PICK a \in S : a = Newest(S)
    BY <1>2, Greatest
  <2> QED BY <2>1 DEF Attempt
<1> QED BY <1>1, <1>2

\* An event is ranked by what its subscription has come to.
LEMMA Ranked ==
  ASSUME NEW e \in Event
  PROVE  /\ Rank(e) \in {20, 30, 40}
         /\ Rank(e) = 40 <=> e.status \in Replaceable
BY DEF Rank, Event, SubStatus, Replaceable, Live

\* The account that an event makes is one.
LEMMA AppliedType ==
  ASSUME TypeOK, NEW e \in Event
  PROVE  /\ Applied(e) \in Account
         /\ Applied(e).status = e.status /\ Applied(e).sub = e.of
         /\ Applied(e).customer = stripe[e.of].customer
         /\ Applied(e).at = e.at /\ Applied(e).rank = Rank(e)
         /\ Applied(e).plan = "pro" => e.status \in {"active", "past_due"}
         /\ e.status = "past_due" => Applied(e).grace = Deadline
         /\ Deadline \in Nat
<1>1. Deadline \in 0..(MaxNow + Grace)
  <2>1. account.grace \in 0..(MaxNow + Grace) /\ now \in 1..MaxNow
    BY DEF TypeOK
  <2>2. CASE account.status = "past_due" /\ account.grace # 0
    BY <2>1, <2>2 DEF Deadline
  <2>3. CASE ~(account.status = "past_due" /\ account.grace # 0)
    <3>1. Deadline = now + Grace
      BY <2>3 DEF Deadline
    <3> QED BY <2>1, <3>1
  <2> QED BY <2>2, <2>3
<1>2. stripe[e.of].customer \in 0..MaxAttempt /\ e.of \in 0..MaxAttempt /\ e.at \in 0..MaxNow
      /\ e.status \in SubStatus
  <2>1. e.of \in Attempt /\ e.of \in 1..MaxAttempt /\ e.at \in 1..MaxNow /\ e.status \in SubStatus
    BY DEF Event, Attempt
  <2>2. stripe[e.of] \in Session
    BY <2>1 DEF TypeOK, Session
  <2>3. stripe[e.of].customer \in 0..MaxAttempt
    BY <2>2 DEF Session
  <2>4. e.of \in 0..MaxAttempt /\ e.at \in 0..MaxNow
    BY <2>1
  <2> QED BY <2>1, <2>3, <2>4
<1>3. Rank(e) \in {0, 20, 30, 40}
  BY Ranked
<1>4. PICK grace \in 0..(MaxNow + Grace) : grace = IF e.status = "past_due" THEN Deadline ELSE 0
  BY <1>1
<1>5. Applied(e) = [plan |-> IF e.status = "active" \/ (e.status = "past_due" /\ grace > now)
                             THEN "pro" ELSE "free",
                    status |-> e.status, sub |-> e.of, customer |-> stripe[e.of].customer,
                    grace |-> grace, at |-> e.at, rank |-> Rank(e)]
  BY <1>4 DEF Applied
<1> QED BY <1>1, <1>2, <1>3, <1>4, <1>5 DEF Account

LEMMA TypeInit == Init => TypeOK
<1> SUFFICES ASSUME Init PROVE TypeOK
  OBVIOUS
<1>1. account \in Account
  BY DEF Init, Account, SubStatus, Replaceable
<1>2. attempt \in [Attempt -> Row]
  BY DEF Init, Row, AttemptStatus
<1>3. call \in [Request -> Call]
  BY DEF Init, Idle, Call
<1>4. stripe \in [Attempt -> Session]
  BY DEF Init, Session, SubStatus, Replaceable
<1>5. /\ view \in BOOLEAN /\ refused \subseteq handled /\ handled \subseteq sent
      /\ sent \subseteq Event /\ reopened \in BOOLEAN
  BY DEF Init
<1>6. moves \in 0..MaxMoves /\ now \in 1..MaxNow
  <2>1. moves = 0 /\ now = 1
    BY DEF Init
  <2> QED BY <2>1
<1> QED BY <1>1, <1>2, <1>3, <1>4, <1>5, <1>6 DEF TypeOK, Account, Row, Call, Session

LEMMA TypeStep == TypeOK /\ [Next]_vars => TypeOK'
<1> SUFFICES ASSUME TypeOK, [Next]_vars PROVE TypeOK'
  OBVIOUS
<1>0. /\ account \in Account /\ attempt \in [Attempt -> Row] /\ call \in [Request -> Call]
      /\ view \in BOOLEAN /\ stripe \in [Attempt -> Session]
      /\ handled \subseteq sent /\ sent \subseteq Event /\ moves \in 0..MaxMoves
      /\ now \in 1..MaxNow /\ refused \subseteq handled /\ reopened \in BOOLEAN
  BY DEF TypeOK, Account, Row, Call, Session
<1>1. Newest(Created) \in 0..MaxAttempt /\ Created \subseteq Attempt
  BY NewestType DEF Created
<1>2. SUFFICES /\ account' \in Account /\ attempt' \in [Attempt -> Row]
               /\ call' \in [Request -> Call]
               /\ view' \in BOOLEAN /\ stripe' \in [Attempt -> Session]
               /\ handled' \subseteq sent' /\ sent' \subseteq Event /\ moves' \in 0..MaxMoves
               /\ now' \in 1..MaxNow /\ refused' \subseteq handled' /\ reopened' \in BOOLEAN
  BY DEF TypeOK, Account, Row, Call, Session
<1>3. ASSUME NEW r \in Request, ReadAccount(r) PROVE <1>2!1
  <2>1. call' \in [Request -> Call]
    BY <1>0, <1>3 DEF ReadAccount, Call, Account
  <2> QED BY <1>0, <1>3, <2>1 DEF ReadAccount, db, atStripe, log
<1>4. ASSUME NEW r \in Request, NoCheckout(r) PROVE <1>2!1
  <2>1. call' \in [Request -> Call]
    BY <1>0, <1>4 DEF NoCheckout, Call, Idle
  <2> QED BY <1>0, <1>4, <2>1 DEF NoCheckout, db, atStripe, log
<1>5. ASSUME NEW r \in Request, ResumeCheckout(r) PROVE <1>2!1
  <2>1. call' \in [Request -> Call]
    BY ZenonT(30), <1>0, <1>1, <1>5 DEF ResumeCheckout, Call
  <2> QED BY <1>0, <1>5, <2>1 DEF ResumeCheckout, db, atStripe, log
<1>6. ASSUME NEW r \in Request, NewCheckout(r) PROVE <1>2!1
  <2>1. PICK a \in 0..MaxAttempt : a = Newest(Created)
    BY <1>1
  <2>2. call' = [call EXCEPT ![r].pc = "called", ![r].attempt = a + 1] /\ a + 1 \in 0..MaxAttempt
    <3>1. call' = [call EXCEPT ![r].pc = "called", ![r].attempt = a + 1] /\ a < MaxAttempt
      BY <1>6, <2>1 DEF NewCheckout
    <3> QED BY <3>1
  <2>3. call' \in [Request -> Call]
    BY ZenonT(30), <1>0, <2>2 DEF Call
  <2>4. attempt' = [b \in Attempt |->
                      IF b = a + 1 THEN [status |-> "creating", known |-> FALSE]
                      ELSE IF b = a /\ Status(a) = "open"
                           THEN [attempt[a] EXCEPT !.status = "expired"]
                      ELSE attempt[b]]
    BY <1>6, <2>1 DEF NewCheckout
  <2>5. attempt' \in [Attempt -> Row]
    BY <1>0, <2>4 DEF Row, AttemptStatus
  <2> QED BY <1>0, <1>6, <2>3, <2>5 DEF NewCheckout, atStripe, log
<1>7. ASSUME NEW r \in Request, StripeAnswers(r) PROVE <1>2!1
  <2>1. PICK a \in 0..MaxAttempt, c \in 0..MaxAttempt : a = call[r].attempt /\ c = call[r].customer
    BY <1>0 DEF Call
  <2>2. call' \in [Request -> Call]
    BY <1>0, <1>7 DEF StripeAnswers, Call
  <2>3. stripe' = IF stripe[a].session # "none" THEN stripe
                  ELSE [stripe EXCEPT ![a].session = "open", ![a].customer = IF c # 0 THEN c ELSE a]
    BY <1>7, <2>1 DEF StripeAnswers
  <2>4. stripe' \in [Attempt -> Session]
    BY ZenonT(30), <1>0, <2>3 DEF Session
  <2> QED BY <1>0, <1>7, <2>2, <2>4 DEF StripeAnswers, db, log
<1>8. ASSUME NEW r \in Request, SaveCheckout(r) PROVE <1>2!1
  <2>1. PICK a : attempt' = [attempt EXCEPT ![a] = [status |-> "open", known |-> TRUE]]
    BY <1>8 DEF SaveCheckout
  <2>2. attempt' \in [Attempt -> Row]
    BY <1>0, <2>1 DEF Row, AttemptStatus
  <2> QED BY <1>0, <1>8, <2>2 DEF SaveCheckout, Call, Idle, atStripe, log
<1>9. ASSUME NEW r \in Request, CheckoutFails(r) PROVE <1>2!1
  BY <1>0, <1>9 DEF CheckoutFails, Call, Idle, db, atStripe, log
<1>10. ASSUME NEW e \in sent \ handled, HandleEvent(e) PROVE <1>2!1
  <2>0. e \in Event /\ e.of \in Attempt /\ e.of \in 0..MaxAttempt
    BY <1>0 DEF Event, Attempt
  <2>1. /\ UNCHANGED <<call, view, stripe, sent, moves, reopened, now>>
        /\ handled' \subseteq sent' /\ refused' \subseteq handled'
    BY <1>0, <1>10 DEF HandleEvent, atStripe
  <2>2. Unaltered => account' \in Account
    BY <1>0 DEF Unaltered, Account
  <2>3. SUFFICES account' \in Account /\ attempt' \in [Attempt -> Row]
    BY <1>0, <2>1
  <2>4. CASE CompleteCheckout(e)
    <3>1. PICK c \in 0..MaxAttempt : c = stripe[e.of].customer
      BY <1>0, <2>0 DEF Session
    <3>2. PICK sub \in 0..MaxAttempt : sub = e.of
      BY <2>0
    <3>3. account' = [account EXCEPT !.customer = c, !.sub = sub]
      BY <2>4, <3>1, <3>2 DEF CompleteCheckout
    <3>4. account' \in Account
      BY <1>0, <3>3 DEF Account
    <3>5. attempt' = [attempt EXCEPT ![e.of].status = "completed"]
      BY <2>4 DEF CompleteCheckout
    <3> QED BY <1>0, <3>4, <3>5 DEF Row, AttemptStatus
  <2>10. CASE ConflictingCheckout(e)
    <3>1. attempt' = [attempt EXCEPT ![e.of].status = "conflict"]
      BY <2>10 DEF ConflictingCheckout
    <3>2. account' \in Account
      BY <2>2, <2>10 DEF ConflictingCheckout
    <3> QED BY <1>0, <3>1, <3>2 DEF Row, AttemptStatus
  <2>5. CASE ExpireCheckout(e)
    BY <1>0, <2>5 DEF ExpireCheckout, Row, AttemptStatus
  <2>6. CASE MismatchedCheckout(e)
    BY <1>0, <2>2, <2>6 DEF MismatchedCheckout
  <2>7. CASE StaleEvent(e)
    BY <1>0, <2>7 DEF StaleEvent, db
  <2>8. CASE ConflictingEvent(e)
    BY <1>0, <2>2, <2>8 DEF ConflictingEvent
  <2>9. CASE ApplyEvent(e)
    <3>1. account' \in Account
      BY <2>0, <2>9, AppliedType DEF ApplyEvent
    <3>2. PICK done : \/ attempt' = [attempt EXCEPT ![done].status = "closed"]
                      \/ attempt' = attempt
      BY <2>9 DEF ApplyEvent, CloseAttempt
    <3>3. attempt' \in [Attempt -> Row]
      BY <1>0, <3>2 DEF Row, AttemptStatus
    <3> QED BY <3>1, <3>3
  <2>11. \/ CompleteCheckout(e) \/ ConflictingCheckout(e) \/ ExpireCheckout(e)
         \/ MismatchedCheckout(e) \/ StaleEvent(e) \/ ConflictingEvent(e) \/ ApplyEvent(e)
    BY <1>10 DEF HandleEvent
  <2> QED BY <2>4, <2>5, <2>6, <2>7, <2>8, <2>9, <2>10, <2>11
<1>11. ASSUME NEW a \in Attempt, Pay(a) PROVE <1>2!1
  <2>1. stripe' \in [Attempt -> Session]
    BY ZenonT(30), <1>0, <1>11 DEF Pay, Session, SubStatus, Live
  <2>2. CheckoutEvent("completed", a) \in Event /\ SubEvent(a, "active") \in Event
    BY <1>0 DEF CheckoutEvent, SubEvent, Event, SubStatus, Live, Replaceable
  <2> QED BY <1>0, <1>11, <2>1, <2>2 DEF Pay, db, log
<1>12. ASSUME NEW a \in Attempt, Lapse(a) PROVE <1>2!1
  <2>1. PICK session \in {"expired", "complete, lapsed"} :
          stripe' = [stripe EXCEPT ![a].session = session]
    BY <1>12 DEF Lapse
  <2>2. stripe' \in [Attempt -> Session]
    BY <1>0, <2>1 DEF Session
  <2>3. CheckoutEvent("expired", a) \in Event
    BY <1>0 DEF CheckoutEvent, Event, SubStatus, Replaceable
  <2> QED BY <1>0, <1>12, <2>2, <2>3 DEF Lapse, db, log
<1>13. ASSUME NEW a \in Attempt, NEW status \in SubStatus, Change(a, status) PROVE <1>2!1
  <2>1. stripe' \in [Attempt -> Session]
    BY <1>0, <1>13 DEF Change, Session
  <2>2. SubEvent(a, status) \in Event
    BY <1>0 DEF SubEvent, Event
  <2>3. moves' \in 0..MaxMoves
    BY <1>0, <1>13 DEF Change
  <2> QED BY <1>0, <1>13, <2>1, <2>2, <2>3 DEF Change, db, log
<1>14. CASE ViewAccount
  BY <1>0, <1>14 DEF ViewAccount, db, atStripe, log
<1>15. CASE CommitView
  BY <1>0, <1>15 DEF CommitView, Account, atStripe, log
<1>16. CASE Tick
  BY <1>0, <1>16 DEF Tick, db, atStripe, log
<1>17. CASE UNCHANGED vars
  BY <1>0, <1>17 DEF vars, db, atStripe, log
<1> QED BY <1>3, <1>4, <1>5, <1>6, <1>7, <1>8, <1>9, <1>10, <1>11, <1>12, <1>13, <1>14, <1>15,
           <1>16, <1>17 DEF Next

\* Every variable keeps its shape.
THEOREM TypeCorrect == Spec => []TypeOK
BY TypeInit, TypeStep, PTL DEF Spec

-----------------------------------------------------------------------------
(* How the account changes.                                                *)

Same == /\ account'.status = account.status /\ account'.grace = account.grace
        /\ account'.at = account.at /\ account'.rank = account.rank
        /\ account'.plan \in {account.plan, "free"}

\* An event is applied, a completed checkout names its customer and subscription, or
\* the plan falls to Free.
LEMMA AccountMoves ==
  ASSUME TypeOK, [Next]_vars
  PROVE  \/ /\ Same /\ account'.sub = account.sub /\ account'.customer = account.customer
         \/ \E e \in sent \ handled :
              /\ HandleEvent(e) /\ CompleteCheckout(e) /\ Same
              /\ ~Conflicts(e.of)
              /\ account'.sub = e.of /\ account'.customer = stripe[e.of].customer
         \/ \E e \in sent \ handled : HandleEvent(e) /\ ApplyEvent(e)
<1>1. account \in Account
  BY DEF TypeOK, Account
<1> DEFINE Still == Same /\ account'.sub = account.sub /\ account'.customer = account.customer
<1>2. account' = account => Still
  BY <1>1 DEF Same
<1>3. ASSUME NEW plan \in {account.plan, "free"}, account' = [account EXCEPT !.plan = plan]
      PROVE  Still
  BY <1>1, <1>3 DEF Same, Account
<1>4. Unaltered => Still
  <2> SUFFICES ASSUME Unaltered PROVE Still
    OBVIOUS
  <2>1. PICK plan \in {account.plan, "free"} : account' = [account EXCEPT !.plan = plan]
    BY <1>1 DEF Unaltered, Account
  <2> QED BY <1>3, <2>1
<1>5. ASSUME NEW e \in sent \ handled, HandleEvent(e)
      PROVE  \/ Still
             \/ /\ CompleteCheckout(e) /\ Same
                /\ ~Conflicts(e.of)
                /\ account'.sub = e.of /\ account'.customer = stripe[e.of].customer
             \/ ApplyEvent(e)
  <2>1. CASE CompleteCheckout(e)
    <3>1. account' = [account EXCEPT !.customer = stripe[e.of].customer, !.sub = e.of]
      BY <2>1 DEF CompleteCheckout
    <3> QED BY <1>1, <2>1, <3>1 DEF CompleteCheckout, Same, Account
  <2>6. CASE ConflictingCheckout(e)
    BY <1>4, <2>6 DEF ConflictingCheckout
  <2>2. CASE ExpireCheckout(e)
    BY <1>2, <2>2 DEF ExpireCheckout
  <2>3. CASE MismatchedCheckout(e)
    BY <1>4, <2>3 DEF MismatchedCheckout
  <2>4. CASE StaleEvent(e)
    BY <1>2, <2>4 DEF StaleEvent, db
  <2>5. CASE ConflictingEvent(e)
    BY <1>4, <2>5 DEF ConflictingEvent
  <2> QED BY <1>5, <2>1, <2>2, <2>3, <2>4, <2>5, <2>6 DEF HandleEvent
<1>6. CommitView => Still
  BY <1>3 DEF CommitView
<1>7. CASE \E e \in sent \ handled : HandleEvent(e)
  BY <1>5, <1>7
<1>8. CASE CommitView
  BY <1>6, <1>8
<1>9. CASE ~CommitView /\ ~(\E e \in sent \ handled : HandleEvent(e))
  <2>1. account' = account
    BY <1>9 DEF Next, vars, db, ReadAccount, NoCheckout, ResumeCheckout, NewCheckout, StripeAnswers,
                SaveCheckout, CheckoutFails, Pay, Lapse, Change, ViewAccount, Tick
  <2> QED BY <1>2, <2>1
<1> QED BY <1>7, <1>8, <1>9

LEMMA AnchoredStep ==
  ASSUME TypeOK, Anchored, [Next]_vars
  PROVE  Anchored' /\ (account.status = "past_due" /\ account'.status = "past_due"
                          => account'.grace = account.grace)
<1>1. CASE Same
  BY <1>1 DEF Same, Anchored
<1>2. ASSUME NEW e \in sent \ handled, ApplyEvent(e)
      PROVE  /\ Anchored'
             /\ account.status = "past_due" /\ account'.status = "past_due"
                          => account'.grace = account.grace
  <2>1. e \in Event /\ account.grace \in Nat /\ now \in Nat
    <3>1. account \in Account /\ now \in 1..MaxNow /\ sent \subseteq Event
      BY DEF TypeOK, Account
    <3>2. account.grace \in 0..(MaxNow + Grace)
      BY <3>1 DEF Account
    <3> QED BY <3>1, <3>2
  <2>2. /\ account'.status = e.status
        /\ e.status = "past_due" => account'.grace = Deadline
    BY <1>2, <2>1, AppliedType DEF ApplyEvent
  <2>3. Deadline # 0
    BY <2>1 DEF Deadline
  <2>4. account.status = "past_due" => Deadline = account.grace
    BY DEF Deadline, Anchored
  <2> QED BY <2>2, <2>3, <2>4 DEF Anchored
<1> QED BY <1>1, <1>2, AccountMoves

\* A grace period ends where it was set to end when the account fell past due.
THEOREM AnchorsGrace == Spec => GraceAnchored
<1>1. Init => Anchored
  BY DEF Init, Anchored
<1>2. TypeOK /\ Anchored /\ [Next]_vars => Anchored'
  BY AnchoredStep
<1>3. TypeOK /\ Anchored /\ [Next]_vars =>
        [account.status = "past_due" /\ account'.status = "past_due"
           => account'.grace = account.grace]_vars
  BY AnchoredStep
<1>4. Spec => []TypeOK
  BY TypeCorrect
<1> QED BY <1>1, <1>2, <1>3, <1>4, PTL DEF Spec, GraceAnchored

-----------------------------------------------------------------------------
(* What Stripe has sent.                                                   *)

\* What the proofs use of the types.
LEMMA Types ==
  ASSUME TypeOK
  PROVE  /\ account \in Account /\ attempt \in [Attempt -> Row] /\ call \in [Request -> Call]
         /\ stripe \in [Attempt -> Session] /\ sent \subseteq Event /\ handled \subseteq sent
         /\ now \in Nat
         /\ \A e \in Event : e.of \in Attempt /\ e.at \in Nat /\ e.at # 0
         /\ \A a \in Attempt : a \in Nat /\ a # 0
<1>1. /\ account \in Account /\ attempt \in [Attempt -> Row] /\ call \in [Request -> Call]
      /\ stripe \in [Attempt -> Session] /\ sent \subseteq Event /\ handled \subseteq sent
  BY DEF TypeOK, Account, Row, Session, Call
<1>2. now \in Nat
  <2>1. now \in 1..MaxNow
    BY DEF TypeOK
  <2> QED BY <2>1
<1>3. ASSUME NEW e \in Event PROVE e.of \in Attempt /\ e.at \in Nat /\ e.at # 0
  <2>1. e.of \in Attempt /\ e.at \in 1..MaxNow
    BY DEF Event
  <2> QED BY <2>1
<1>4. \A a \in Attempt : a \in Nat /\ a # 0
  BY DEF Attempt
<1> QED BY <1>1, <1>2, <1>3, <1>4

\* Stripe has sent nothing of a session that is paid now.
LEMMA PaidAfresh ==
  ASSUME TypeOK, Told, NEW a \in Attempt, Pay(a)
  PROVE  ~Paid(a) /\ \A e \in sent : e.of # a
<1>1. stripe[a].session = "open"
  BY DEF Pay
<1> QED BY <1>1 DEF Told, Report, Paid

\* A step adds to the story what has happened.
LEMMA ToldStep ==
  ASSUME TypeOK, Told, [Next]_vars
  PROVE  Told'
<1>0. /\ stripe \in [Attempt -> Session] /\ sent \subseteq Event /\ now \in Nat
      /\ call \in [Request -> Call]
      /\ \A e \in Event : e.of \in Attempt /\ e.at \in Nat
      /\ \A a \in Attempt : a \in Nat /\ a # 0
  BY Types
<1>1. CASE UNCHANGED <<stripe, sent, now>>
  <2>1. SubEvents(sent)' = SubEvents(sent) /\ \A a \in Attempt : (Paid(a)' <=> Paid(a))
    BY <1>1 DEF SubEvents, Paid
  <2>2. \A a \in Attempt : Story(a)'
    BY <1>1, <2>1 DEF Told, Story
  <2>3. \A e \in sent : Report(e)'
    BY <1>0, <1>1, <2>1 DEF Told, Report
  <2> QED BY <1>1, <2>1, <2>2, <2>3 DEF Told
<1>2. ASSUME NEW r \in Request, StripeAnswers(r) PROVE Told'
  <2>1. PICK a \in 0..MaxAttempt, c \in 0..MaxAttempt : a = call[r].attempt /\ c = call[r].customer
    BY <1>0, <1>2 DEF Call
  <2>2. /\ stripe' = IF stripe[a].session # "none" THEN stripe
                     ELSE [stripe EXCEPT ![a].session = "open",
                                         ![a].customer = IF c # 0 THEN c ELSE a]
        /\ UNCHANGED <<sent, now>>
    BY <1>2, <2>1 DEF StripeAnswers
  <2>3. CASE stripe[a].session # "none"
    BY <1>1, <2>2, <2>3
  <2>4. CASE stripe[a].session = "none" /\ a \in Attempt
    <3>1. /\ stripe'[a].session = "open" /\ stripe'[a].status = stripe[a].status
          /\ \A b \in Attempt : b # a => stripe'[b] = stripe[b]
      BY <1>0, <2>2, <2>4 DEF Session
    <3>2. ~Paid(a) /\ ~Paid(a)' /\ \A b \in Attempt : b # a => (Paid(b)' <=> Paid(b))
      BY <2>4, <3>1 DEF Paid
    <3>3. \A e \in sent : e.of # a /\ e.of \in Attempt
      BY <1>0, <2>4, <3>2 DEF Told, Report
    <3>4. SubEvents(sent)' = SubEvents(sent)
      BY <2>2 DEF SubEvents
    <3>5. \A b \in Attempt : Story(b)'
      BY <3>1, <3>2, <3>4 DEF Told, Story
    <3>6. \A e \in sent : Report(e)'
      BY <2>2, <3>1, <3>2, <3>3, <3>4 DEF Told, Report
    <3> QED BY <2>2, <3>5, <3>6 DEF Told
  <2>5. CASE a \notin Attempt
    <3>1. stripe' = stripe
      BY <1>0, <2>2, <2>5
    <3> QED BY <1>1, <2>2, <3>1
  <2> QED BY <2>3, <2>4, <2>5
<1>3. ASSUME NEW a \in Attempt, NEW g \in Event, NEW new \in SUBSET Event,
             g \in new, g.kind = "subscription", g.of = a, g.at = now, g.status # "none",
             \A d \in new : d = g \/ (d.kind = "completed" /\ d.of = a /\ d.at = now),
             sent' = sent \cup new, now' = now,
             Paid(a)', stripe'[a].status = g.status,
             \A b \in Attempt : b # a => stripe'[b] = stripe[b],
             \A e \in sent : e.of = a => e.kind # "expired"
      PROVE  Told'
  <2>1. SubEvents(sent)' = SubEvents(sent) \cup {g}
    BY <1>3 DEF SubEvents
  <2>2. \A f \in SubEvents(sent) : f \in sent /\ f.at <= now /\ f.of \in Attempt /\ f.at \in Nat
    BY <1>0 DEF Told, Report, SubEvents
  <2>3. \A b \in Attempt : b # a => (Paid(b)' <=> Paid(b))
    BY <1>3 DEF Paid
  <2>4. Story(a)'
    <3>1. \A f \in SubEvents(sent)' : f.at <= g.at
      BY <1>0, <1>3, <2>1, <2>2
    <3>2. g \in SubEvents(sent)' /\ g.of = a /\ g.status = stripe'[a].status
      BY <1>3, <2>1
    <3>3. stripe'[a].status # "none" /\ Paid(a)'
      BY <1>3
    <3> QED BY <3>1, <3>2, <3>3 DEF Story
  <2>5. ASSUME NEW b \in Attempt, b # a PROVE Story(b)'
    <3>1. Story(b) /\ stripe'[b] = stripe[b] /\ (Paid(b)' <=> Paid(b))
      BY <1>3, <2>3, <2>5 DEF Told
    <3>2. ASSUME Paid(b)
          PROVE  \E e \in SubEvents(sent)' : /\ e.of = b /\ e.status = stripe'[b].status
                                            /\ \A f \in SubEvents(sent)' : f.of = b => f.at <= e.at
      <4>1. PICK e \in SubEvents(sent) : /\ e.of = b /\ e.status = stripe[b].status
                                         /\ \A f \in SubEvents(sent) : f.of = b => f.at <= e.at
        BY <3>1, <3>2 DEF Story
      <4>2. g.of # b
        BY <1>3, <2>5
      <4> QED BY <2>1, <3>1, <4>1, <4>2
    <3> QED BY <3>1, <3>2 DEF Story
  <2>6. ASSUME NEW e \in sent PROVE Report(e)'
    <3>1. CASE e.of = a
      BY <1>0, <1>3, <2>1, <3>1 DEF Told, Report, SubEvents
    <3>2. CASE e.of # a
      BY <1>0, <1>3, <2>1, <2>3, <3>2 DEF Told, Report
    <3> QED BY <3>1, <3>2
  <2>7. ASSUME NEW d \in new PROVE Report(d)'
    <3>1. d.of = a /\ d.at = now /\ d.kind # "expired" /\ (d.kind = "subscription" => d = g)
      BY <1>3, <2>7
    <3>2. \A f \in SubEvents(sent)' : f.at <= d.at
      BY <1>0, <1>3, <2>1, <2>2, <3>1
    <3>3. d.at <= now' /\ Paid(a)'
      BY <1>0, <1>3, <3>1
    <3>4. d.kind = "subscription" => d.status # "none"
      BY <1>3, <3>1
    <3> QED BY <3>1, <3>2, <3>3, <3>4 DEF Report
  <2> QED BY <1>3, <2>4, <2>5, <2>6, <2>7 DEF Told
<1>4. ASSUME NEW a \in Attempt, Pay(a) PROVE Told'
  <2>1. ~Paid(a) /\ \A e \in sent : e.of # a
    BY <1>4, PaidAfresh
  <2>2. PICK d \in Event, g \in Event :
          d = CheckoutEvent("completed", a) /\ g = SubEvent(a, "active")
    BY DEF TypeOK, CheckoutEvent, SubEvent, Event, SubStatus, Live, Replaceable
  <2>3. /\ d.kind = "completed" /\ d.of = a /\ d.at = now
        /\ g.kind = "subscription" /\ g.of = a /\ g.at = now /\ g.status = "active"
    BY <2>2 DEF CheckoutEvent, SubEvent
  <2>4. /\ sent' = sent \cup {d, g} /\ now' = now
        /\ stripe'[a].session = "complete" /\ stripe'[a].status = "active"
        /\ \A b \in Attempt : b # a => stripe'[b] = stripe[b]
    BY <1>0, <1>4, <2>2 DEF Pay, Session
  <2>5. Paid(a)'
    BY <2>4 DEF Paid
  <2>7. PICK new \in SUBSET Event : new = {d, g}
    OBVIOUS
  <2>8. /\ g \in new /\ sent' = sent \cup new /\ g.status # "none"
        /\ \A x \in new : x = g \/ (x.kind = "completed" /\ x.of = a /\ x.at = now)
    BY <2>3, <2>4, <2>7
  <2>9. stripe'[a].status = g.status
    BY <2>3, <2>4
  <2> QED BY <1>3, <2>1, <2>3, <2>4, <2>5, <2>8, <2>9
<1>5. ASSUME NEW a \in Attempt, Lapse(a) PROVE Told'
  <2>1. PICK session \in {"expired", "complete, lapsed"} :
          /\ stripe' = [stripe EXCEPT ![a].session = session]
          /\ session = "expired" <=> stripe[a].session = "open"
    BY <1>5 DEF Lapse
  <2>2. /\ stripe'[a].session = session /\ stripe'[a].status = stripe[a].status
        /\ \A b \in Attempt : b # a => stripe'[b] = stripe[b]
    BY <1>0, <2>1 DEF Session
  <2>3. stripe[a].session \in {"open", "complete"} /\ now' = now
    BY <1>5 DEF Lapse
  <2>4. \A b \in Attempt : (Paid(b)' <=> Paid(b))
    <3>1. (Paid(a)' <=> Paid(a))
      <4>1. CASE session = "expired"
        <5>1. ~Paid(a) /\ ~Paid(a)'
          BY <2>1, <2>2, <4>1 DEF Paid
        <5> QED BY <5>1
      <4>2. CASE session = "complete, lapsed"
        <5>1. Paid(a) /\ Paid(a)'
          BY <2>1, <2>2, <2>3, <4>2 DEF Paid
        <5> QED BY <5>1
      <4> QED BY <2>1, <4>1, <4>2
    <3>2. \A b \in Attempt : b # a => (Paid(b)' <=> Paid(b))
      BY <2>2 DEF Paid
    <3> QED BY <3>1, <3>2
  <2>5. PICK d \in Event : d = CheckoutEvent("expired", a)
    BY DEF TypeOK, CheckoutEvent, Event, SubStatus, Replaceable
  <2>6. d.kind = "expired" /\ d.of = a /\ d.at = now
    BY <2>5 DEF CheckoutEvent
  <2>7. sent' = sent \/ (sent' = sent \cup {d} /\ session = "expired")
    BY <1>5, <2>1, <2>5 DEF Lapse
  <2>8. SubEvents(sent)' = SubEvents(sent)
    BY <2>6, <2>7 DEF SubEvents
  <2>9. \A b \in Attempt : Story(b)'
    <3>1. Story(a)'
      <4>1. Story(a) /\ (Paid(a)' <=> Paid(a))
        BY <2>4 DEF Told
      <4>2. stripe[a].session # "none"
        BY <2>3
      <4> QED BY <2>2, <2>8, <4>1, <4>2 DEF Story
    <3>2. ASSUME NEW b \in Attempt, b # a PROVE Story(b)'
      <4>1. Story(b) /\ stripe'[b] = stripe[b] /\ (Paid(b)' <=> Paid(b))
        BY <2>2, <2>4, <3>2 DEF Told
      <4> QED BY <2>8, <4>1 DEF Story
    <3> QED BY <3>1, <3>2
  <2>10. ASSUME NEW e \in sent PROVE Report(e)'
    <3>1. Report(e) /\ e.of \in Attempt
      BY <1>0 DEF Told
    <3>2. stripe'[e.of].status = stripe[e.of].status /\ (Paid(e.of)' <=> Paid(e.of))
      BY <2>2, <2>4, <3>1
    <3>3. e.kind = "expired" => stripe'[e.of].session = "expired"
      BY <2>2, <2>3, <3>1 DEF Report
    <3> QED BY <2>3, <2>8, <3>1, <3>2, <3>3 DEF Report
  <2>11. session = "expired" => Report(d)'
    BY <1>0, <2>2, <2>3, <2>6 DEF Report
  <2> QED BY <2>7, <2>8, <2>9, <2>10, <2>11 DEF Told
<1>6. ASSUME NEW a \in Attempt, NEW status \in SubStatus, Change(a, status) PROVE Told'
  <2>1. stripe[a].status # "none" /\ status # "none"
    <3>1. <<stripe[a].status, status>> \in Moves
      BY <1>6 DEF Change
    <3> QED BY <3>1 DEF Live
  <2>2. Paid(a)
    BY <2>1 DEF Told, Story
  <2>3. PICK g \in Event : g = SubEvent(a, status)
    BY DEF TypeOK, SubEvent, Event
  <2>4. /\ g.kind = "subscription" /\ g.of = a /\ g.at = now /\ g.status = status
        /\ sent' = sent \cup {g} /\ now' = now
        /\ stripe'[a].session = stripe[a].session /\ stripe'[a].status = status
        /\ \A b \in Attempt : b # a => stripe'[b] = stripe[b]
    BY <1>0, <1>6, <2>3 DEF Change, SubEvent, Session
  <2>5. Paid(a)'
    BY <2>2, <2>4 DEF Paid
  <2>6. \A e \in sent : e.of = a => e.kind # "expired"
    BY <2>2 DEF Told, Report, Paid
  <2>9. PICK new \in SUBSET Event : new = {g}
    OBVIOUS
  <2>10. /\ g \in new /\ sent' = sent \cup new /\ g.status # "none"
         /\ \A x \in new : x = g \/ (x.kind = "completed" /\ x.of = a /\ x.at = now)
    BY <2>1, <2>4, <2>9
  <2> QED BY <1>3, <2>1, <2>4, <2>5, <2>6, <2>9, <2>10
<1>7. CASE Tick
  <2>1. now' = now + 1 /\ UNCHANGED <<stripe, sent>>
    BY <1>7 DEF Tick, atStripe
  <2>2. \A e \in sent : e.at <= now'
    BY <1>0, <2>1 DEF Told, Report
  <2>3. \A e \in sent : Report(e)'
    BY <2>1, <2>2 DEF Told, Report, Paid, SubEvents
  <2> QED BY <2>1, <2>3 DEF Told, Story, Paid, SubEvents
<1>8. ASSUME NEW r \in Request, \/ ReadAccount(r) \/ NoCheckout(r) \/ ResumeCheckout(r)
                               \/ NewCheckout(r) \/ SaveCheckout(r) \/ CheckoutFails(r)
      PROVE  UNCHANGED <<stripe, sent, now>>
  BY <1>8 DEF atStripe, ReadAccount, NoCheckout, ResumeCheckout, NewCheckout, SaveCheckout,
              CheckoutFails
<1>9. ASSUME NEW e \in sent \ handled, HandleEvent(e) PROVE UNCHANGED <<stripe, sent, now>>
  BY <1>9 DEF HandleEvent, atStripe
<1>10. CASE ViewAccount \/ CommitView \/ UNCHANGED vars
  BY <1>1, <1>10 DEF vars, atStripe, ViewAccount, CommitView
<1> QED BY <1>1, <1>2, <1>4, <1>5, <1>6, <1>7, <1>8, <1>9, <1>10 DEF Next


\* A paid attempt stays paid.
LEMMA PaidStays ==
  ASSUME TypeOK, [Next]_vars, NEW b \in Attempt, Paid(b)
  PROVE  Paid(b)'
<1>0. stripe \in [Attempt -> Session] /\ stripe[b].session \notin {"none", "open"}
  BY Types DEF Paid
<1>1. CASE stripe'[b].session = stripe[b].session
  BY <1>1 DEF Paid
<1>2. ASSUME NEW r \in Request, StripeAnswers(r) PROVE stripe'[b] = stripe[b]
  <2>1. PICK a, c : stripe' = IF stripe[a].session # "none" THEN stripe
                              ELSE [stripe EXCEPT ![a].session = "open", ![a].customer = c]
    BY <1>2 DEF StripeAnswers
  <2> QED BY <1>0, <2>1
<1>3. ASSUME NEW a \in Attempt, Pay(a) PROVE stripe'[b] = stripe[b]
  BY <1>0, <1>3 DEF Pay
<1>4. ASSUME NEW a \in Attempt, Lapse(a) PROVE Paid(b)'
  <2>1. CASE a = b
    <3>1. stripe' = [stripe EXCEPT ![b].session = "complete, lapsed"]
      BY <1>0, <1>4, <2>1 DEF Lapse
    <3> QED BY <1>0, <3>1 DEF Paid, Session
  <2>2. CASE a # b
    <3>1. PICK session : stripe' = [stripe EXCEPT ![a].session = session]
      BY <1>4 DEF Lapse
    <3> QED BY <1>0, <1>1, <2>2, <3>1
  <2> QED BY <2>1, <2>2
<1>5. ASSUME NEW a \in Attempt, NEW status \in SubStatus, Change(a, status)
      PROVE  stripe'[b].session = stripe[b].session
  BY <1>0, <1>5 DEF Change, Session
<1>6. ASSUME NEW r \in Request, \/ ReadAccount(r) \/ NoCheckout(r) \/ ResumeCheckout(r)
                               \/ NewCheckout(r) \/ SaveCheckout(r) \/ CheckoutFails(r)
      PROVE  stripe' = stripe
  BY <1>6 DEF atStripe, ReadAccount, NoCheckout, ResumeCheckout, NewCheckout, SaveCheckout,
              CheckoutFails
<1>7. ASSUME NEW e \in sent \ handled, HandleEvent(e) PROVE stripe' = stripe
  BY <1>7 DEF HandleEvent, atStripe
<1>8. CASE ViewAccount \/ CommitView \/ Tick \/ UNCHANGED vars
  BY <1>1, <1>8 DEF vars, atStripe, ViewAccount, CommitView, Tick
<1> QED BY <1>1, <1>2, <1>3, <1>4, <1>5, <1>6, <1>7, <1>8 DEF Next

-----------------------------------------------------------------------------
(* The account.                                                            *)

\* What is older than the last event applied stays so.
LEMMA OutranksKept ==
  ASSUME TypeOK, [Next]_vars, NEW f \in Event, Outranks(f)
  PROVE  Outranks(f)'
<1>1. /\ account.at \in Nat /\ account.rank \in {0, 20, 30, 40} /\ f.at \in Nat
      /\ Rank(f) \in {20, 30, 40}
  <2>1. account \in Account /\ f.at \in Nat
    BY Types
  <2>2. account.at \in 0..MaxNow /\ account.rank \in {0, 20, 30, 40}
    BY <2>1 DEF Account
  <2> QED BY <2>1, <2>2, Ranked
<1>2. CASE Same
  BY <1>2 DEF Same, Outranks, OlderThan
<1>3. ASSUME NEW e \in sent \ handled, ApplyEvent(e) PROVE Outranks(f)'
  <2>1. e \in Event /\ e.at \in Nat /\ Rank(e) \in {20, 30, 40}
    BY Types, Ranked
  <2>2. account'.at = e.at /\ account'.rank = Rank(e)
    BY <1>3, <2>1, AppliedType DEF ApplyEvent
  <2>3. ~OlderThan(e, account.at, account.rank)
    BY <1>3 DEF ApplyEvent
  <2> QED BY <1>1, <2>1, <2>2, <2>3 DEF Outranks, OlderThan
<1> QED BY <1>2, <1>3, AccountMoves

\* What is settled stays so; what a step settles was stale or is applied.
LEMMA SettledStep ==
  ASSUME TypeOK, [Next]_vars
  PROVE  /\ Settled \subseteq Settled'
         /\ \A f \in Settled' \ Settled : /\ f \in sent \ handled /\ HandleEvent(f)
                                          /\ StaleEvent(f) \/ ApplyEvent(f)
<1>0. refused \subseteq handled
  BY DEF TypeOK
<1>1. CASE UNCHANGED <<handled, refused>>
  BY <1>1 DEF Settled, SubEvents
<1>2. CASE \E e \in sent \ handled : HandleEvent(e)
  <2>1. PICK e \in sent \ handled : HandleEvent(e)
    BY <1>2
  <2>2. handled' = handled \cup {e} /\ (refused' = refused \/ refused' = refused \cup {e})
    BY <2>1 DEF HandleEvent
  <2>3. Settled \subseteq Settled'
    BY <1>0, <2>1, <2>2 DEF Settled, SubEvents
  <2>4. ASSUME NEW f \in Settled', f \notin Settled
        PROVE  f \in sent \ handled /\ HandleEvent(f) /\ (StaleEvent(f) \/ ApplyEvent(f))
    <3>1. f = e /\ e \notin refused' /\ e.kind = "subscription"
      BY <1>0, <2>2, <2>4 DEF Settled, SubEvents
    <3>2. \/ CompleteCheckout(e) \/ ExpireCheckout(e) \/ StaleEvent(e) \/ ApplyEvent(e)
          \/ refused' = refused \cup {e}
      BY <2>1 DEF HandleEvent
    <3>3. ~CompleteCheckout(e) /\ ~ExpireCheckout(e)
      BY <3>1 DEF CompleteCheckout, ExpireCheckout, Ends
    <3> QED BY <2>1, <3>1, <3>2, <3>3
  <2> QED BY <2>3, <2>4
<1>3. CASE ~\E e \in sent \ handled : HandleEvent(e)
  <2>1. UNCHANGED <<handled, refused>>
    BY <1>3 DEF Next, vars, log, ReadAccount, NoCheckout, ResumeCheckout, NewCheckout, StripeAnswers,
           SaveCheckout, CheckoutFails, Pay, Lapse, Change, ViewAccount, CommitView, Tick
  <2> QED BY <1>1, <2>1
<1> QED BY <1>2, <1>3

LEMMA BooksStep ==
  ASSUME TypeOK, Told, Books, [Next]_vars
  PROVE  Books'
<1>0. /\ account \in Account /\ sent \subseteq Event /\ handled \subseteq sent
      /\ \A e \in Event : e.of \in Attempt /\ e.at \in Nat
      /\ \A a \in Attempt : a \in Nat /\ a # 0
  BY Types
<1> DEFINE Still    == Same /\ account'.sub = account.sub /\ account'.customer = account.customer
           Named(e) == /\ HandleEvent(e) /\ CompleteCheckout(e) /\ Same /\ ~Conflicts(e.of)
                       /\ account'.sub = e.of /\ account'.customer = stripe[e.of].customer
           Taken(e) == HandleEvent(e) /\ ApplyEvent(e)
<1>1. Still \/ (\E e \in sent \ handled : Named(e)) \/ (\E e \in sent \ handled : Taken(e))
  BY AccountMoves
<1>2. ASSUME NEW e \in sent \ handled, Taken(e)
      PROVE  /\ e \in Event /\ e.of \in Attempt /\ e.status # "none" /\ Paid(e.of)'
             /\ e \in Settled'
             /\ account'.status = e.status /\ account'.sub = e.of
             /\ account'.at = e.at /\ account'.rank = Rank(e)
             /\ account'.plan = "pro" => e.status \in {"active", "past_due"}
  <2>1. e \in Event /\ e.of \in Attempt /\ e.kind = "subscription" /\ account' = Applied(e)
    BY <1>0, <1>2 DEF ApplyEvent
  <2>2. e.status # "none" /\ Paid(e.of)
    BY <2>1 DEF Told, Report
  <2>3. Paid(e.of)'
    BY <2>1, <2>2, PaidStays
  <2>4. handled' = handled \cup {e} /\ e \notin refused
    BY <1>2 DEF TypeOK, HandleEvent
  <2>5. e \notin refused'
    <3>1. ~ConflictingCheckout(e) /\ ~MismatchedCheckout(e) /\ ~ConflictingEvent(e)
      BY <1>2, <2>1 DEF ConflictingCheckout, MismatchedCheckout, ConflictingEvent, ApplyEvent, Ends
    <3> QED BY <1>2, <2>4, <3>1 DEF HandleEvent
  <2>6. e \in Settled'
    BY <2>1, <2>4, <2>5 DEF Settled, SubEvents
  <2> QED BY <2>1, <2>2, <2>3, <2>6, AppliedType
<1>3. ASSUME NEW e \in sent \ handled, Named(e)
      PROVE  /\ e.of \in Attempt /\ Paid(e.of)' /\ Same /\ account'.sub = e.of
             /\ ~SubscriptionConflict(e.of)
  <2>1. e.of \in Attempt /\ e.kind = "completed"
    BY <1>0, <1>3 DEF CompleteCheckout, Ends
  <2>2. Paid(e.of)
    BY <2>1 DEF Told, Report
  <2> QED BY <1>3, <2>1, <2>2, PaidStays DEF Conflicts
<1> HIDE DEF Named, Taken
<1>4. Entitled'
  <2>1. CASE Same
    BY <2>1 DEF Same, Books, Entitled
  <2>2. ASSUME NEW e \in sent \ handled, Taken(e) PROVE Entitled'
    BY <1>2, <2>2 DEF Entitled
  <2> QED BY <1>1, <1>3, <2>1, <2>2
<1>5. account'.sub # 0 => Paid(account.sub)'
  <2>1. ASSUME NEW e \in sent \ handled, Taken(e) \/ Named(e) PROVE Paid(account.sub)'
    <3>1. account'.sub = e.of /\ Paid(e.of)'
      BY <1>2, <1>3, <2>1
    <3> QED BY <3>1 DEF Paid
  <2>2. ASSUME Still, account'.sub # 0 PROVE Paid(account.sub)'
    <3>1. PICK sub \in Attempt : sub = account.sub
      <4>1. account.sub \in 0..MaxAttempt
        BY <1>0 DEF Account
      <4> QED BY <2>2, <4>1 DEF Attempt
    <3>2. Paid(sub)'
      BY <2>2, <3>1, PaidStays DEF Books
    <3> QED BY <2>2, <3>1, <3>2 DEF Paid
  <2> QED BY <1>1, <2>1, <2>2
<1>6. account'.status = "none" => account'.at = 0
  BY <1>1, <1>2, <1>3 DEF Same, Books
<1>7. ASSUME account'.status # "none" PROVE \E e \in Settled' : RestsOn(e)'
  <2>1. ASSUME NEW e \in sent \ handled, Taken(e) PROVE \E f \in Settled' : RestsOn(f)'
    <3>1. RestsOn(e)'
      BY <1>2, <2>1 DEF RestsOn
    <3> QED BY <1>2, <2>1, <3>1
  <2>2. ASSUME Same, account'.sub = account.sub \/ account.status \in Replaceable
               \/ ~\E a \in Attempt : account.sub = a
        PROVE  \E f \in Settled' : RestsOn(f)'
    <3>1. PICK g \in Settled : RestsOn(g)
      BY <1>7, <2>2 DEF Same, Books
    <3>2. g \in Settled'
      BY <3>1, SettledStep
    <3>3. g.of \in Attempt
      BY <1>0 DEF Settled, SubEvents
    <3>4. RestsOn(g)'
      BY <2>2, <3>1, <3>3 DEF RestsOn, Same
    <3> QED BY <3>2, <3>4
  <2>3. ASSUME NEW e \in sent \ handled, Named(e)
        PROVE  \/ account'.sub = account.sub \/ account.status \in Replaceable
               \/ ~\E a \in Attempt : account.sub = a
    BY <1>0, <1>3, <2>3 DEF SubscriptionConflict
  <2> QED BY <1>1, <1>3, <2>1, <2>2, <2>3
<1>8. ASSUME NEW f \in Settled' PROVE Outranks(f)'
  <2>1. f \in Event
    <3>1. f \in sent
      BY <1>0, SettledStep DEF Settled, SubEvents
    <3> QED BY <1>0, <3>1
  <2>2. CASE f \in Settled
    BY <2>1, <2>2, OutranksKept DEF Books
  <2>3. CASE f \notin Settled
    <3>1. f \in sent \ handled /\ HandleEvent(f) /\ (StaleEvent(f) \/ ApplyEvent(f))
      BY <2>3, SettledStep
    <3>2. CASE StaleEvent(f)
      BY <2>1, <3>2, OutranksKept DEF StaleEvent, Outranks
    <3>3. CASE ApplyEvent(f)
      <4>1. account'.at = f.at /\ account'.rank = Rank(f)
        BY <1>2, <3>1, <3>3 DEF Taken
      <4>2. f.at \in Nat /\ Rank(f) \in {20, 30, 40}
        BY <1>0, <2>1, Ranked
      <4> QED BY <4>1, <4>2 DEF Outranks, OlderThan
    <3> QED BY <3>1, <3>2, <3>3
  <2> QED BY <2>2, <2>3
<1> QED BY <1>4, <1>5, <1>6, <1>7, <1>8 DEF Books

LEMMA InitIInv == Init => IInv
<1> SUFFICES ASSUME Init PROVE IInv
  OBVIOUS
<1>1. TypeOK
  BY TypeInit
<1>2. sent = {} /\ SubEvents(sent) = {} /\ Settled = {}
  BY DEF Init, Settled, SubEvents
<1>3. Told
  BY <1>2 DEF Init, Told, Story, Paid
<1>4. Books
  BY <1>2 DEF Init, Books, Entitled
<1> QED BY <1>1, <1>3, <1>4 DEF IInv

LEMMA IInvCorrect == Spec => []IInv
<1>1. IInv /\ [Next]_vars => IInv'
  BY TypeStep, ToldStep, BooksStep DEF IInv
<1> QED BY <1>1, InitIInv, PTL DEF Spec

\* Pro rests on a settled event of the account's subscription that no settled event of
\* any subscription outranks, whatever checkouts overlap and whatever the order of events.
THEOREM ProRestsOnEvidence == Spec => []ProHasEvidence
<1>1. ASSUME IInv PROVE ProHasEvidence
  <2> SUFFICES ASSUME account.plan = "pro"
               PROVE  \E e \in Settled :
                        /\ e.of = account.sub /\ e.status \in {"active", "past_due"}
                        /\ ~\E f \in Settled : f.at > e.at \/ (f.at = e.at /\ Rank(f) > Rank(e))
    BY DEF ProHasEvidence
  <2>0. TypeOK /\ Books
    BY <1>1 DEF IInv
  <2>1. account.status \in {"active", "past_due"}
    BY <2>0 DEF Books, Entitled
  <2>2. PICK e \in Settled : RestsOn(e)
    BY <2>0, <2>1 DEF Books
  <2>3. e.of = account.sub /\ e.status \in {"active", "past_due"}
    BY <2>1, <2>2 DEF RestsOn, Replaceable
  <2>4. ASSUME NEW f \in Settled, f.at > e.at \/ (f.at = e.at /\ Rank(f) > Rank(e))
        PROVE  FALSE
    <3>1. f \in Event /\ e \in Event /\ f.at \in Nat /\ e.at \in Nat
      BY <2>0, Types DEF Settled, SubEvents
    <3>2. Rank(f) \in {20, 30, 40} /\ Rank(e) \in {20, 30, 40}
      BY <3>1, Ranked
    <3>3. Outranks(f)
      BY <2>0 DEF Books
    <3> QED BY <2>2, <2>4, <3>1, <3>2, <3>3 DEF Outranks, OlderThan, RestsOn
  <2> QED BY <2>3, <2>4
<1> QED BY <1>1, IInvCorrect, PTL

\* When all events of the account's subscription are settled the account has the status
\* it has at Stripe, unless a settled event is not older than the newest of them.
THEOREM ConvergesToStripe == Spec => []Converges
<1>1. ASSUME IInv PROVE Converges
  <2> DEFINE mine == {e \in SubEvents(sent) : e.of = account.sub}
  <2> SUFFICES ASSUME account.sub # 0, mine \subseteq Settled,
                      account.status # stripe[account.sub].status
               PROVE  \E e \in mine, f \in Settled :
                        e # f /\ f.at >= e.at /\ \A g \in mine : g.at <= e.at
    BY DEF Converges
  <2>0. TypeOK /\ Told /\ Books
    BY <1>1 DEF IInv
  <2>1. PICK sub \in Attempt : sub = account.sub
    <3>1. account.sub \in 0..MaxAttempt
      BY <2>0, Types DEF Account
    <3> QED BY <3>1 DEF Attempt
  <2>2. Paid(sub)
    BY <2>0, <2>1 DEF Books
  <2>3. PICK e \in mine : e.status = stripe[sub].status /\ \A g \in mine : g.at <= e.at
    BY <2>0, <2>1, <2>2 DEF Told, Story
  <2>4. /\ e \in Settled /\ e \in Event /\ e.at \in Nat /\ e.at # 0 /\ Outranks(e)
        /\ Rank(e) \in {20, 30, 40}
    <3>1. e \in Settled /\ e \in Event
      BY <2>0, Types DEF SubEvents
    <3> QED BY <2>0, <3>1, Types, Ranked DEF Books
  <2>5. account.at \in Nat /\ account.at >= e.at
    <3>1. account.at \in 0..MaxNow
      BY <2>0, Types DEF Account
    <3> QED BY <2>4, <3>1 DEF Outranks, OlderThan
  <2>6. account.status # "none"
    BY <2>0, <2>4, <2>5 DEF Books
  <2>7. PICK f \in Settled : RestsOn(f)
    BY <2>0, <2>6 DEF Books
  <2>8. f.status = account.status /\ f.at = account.at
    BY <2>7 DEF RestsOn
  <2>9. e # f
    BY <2>1, <2>3, <2>8
  <2> QED BY <2>3, <2>5, <2>8, <2>9
<1> QED BY <1>1, IInvCorrect, PTL

-----------------------------------------------------------------------------
(* The attempts, as long as no ended one is opened again and nothing is    *)
(* left unpaid at Stripe.                                                  *)

\* When a later attempt was created, the subscription of an earlier one has ended and
\* the account has seen its end.
LEMMA Superseded ==
  ASSUME TypeOK, Told, Attempts, NEW a \in Attempt, NEW b \in Attempt, a < b, Paid(a),
         attempt[b].status # "none" \/ Paid(b)
  PROVE  /\ attempt[a].status = "closed" /\ stripe[a].status \in Ended
         /\ \A f \in SubEvents(sent) : f.of = a => Outranks(f)
<1>1. attempt[b].status # "none"
  BY DEF Attempts, Placed, Paid
<1>2. attempt[a].status \in {"expired", "closed"}
  BY <1>1 DEF Attempts, After, Placed
<1>3. attempt[a].status # "expired"
  BY DEF Attempts, Placed, Paid
<1> QED BY <1>2, <1>3 DEF Attempts, Placed

\* What is paid is the newest attempt.
LEMMA PayNewest ==
  ASSUME TypeOK, Told, Attempts, NEW a \in Attempt, Pay(a)
  PROVE  /\ attempt[a].status = "open" /\ ~Paid(a)
         /\ \A b \in Attempt : a < b => attempt[b].status = "none" /\ ~Paid(b)
         /\ \A e \in sent : e.of # a
<1>1. stripe[a].session = "open" /\ attempt[a].known /\ ~Paid(a)
  BY DEF Pay, Paid
<1>3. attempt[a].status \notin {"none", "creating", "expired", "completed", "conflict", "closed"}
  BY <1>1 DEF Attempts, After, Placed
<1>4. attempt[a] \in Row
  BY DEF TypeOK, Row
<1>5. attempt[a].status = "open"
  BY <1>3, <1>4 DEF Row, AttemptStatus
<1>6. ASSUME NEW b \in Attempt, a < b PROVE attempt[b].status = "none" /\ ~Paid(b)
  <2>1. attempt[b].status = "none"
    BY <1>5, <1>6 DEF Attempts, After
  <2> QED BY <2>1 DEF Attempts, Placed, Paid
<1>7. \A e \in sent : e.of # a
  BY <1>1 DEF Told, Report
<1> QED BY <1>1, <1>5, <1>6, <1>7

\* Stripe changes a subscription that lives.
LEMMA ChangesLive ==
  ASSUME TypeOK, Told, Regular, NEW a \in Attempt, NEW status \in SubStatus, Change(a, status)
  PROVE  stripe[a].status \in Live /\ Paid(a)
<1>1. stripe[a].status \in Live \cup {"unpaid"}
  <2>1. <<stripe[a].status, status>> \in Moves
    BY DEF Change
  <2> QED BY <2>1
<1>2. Paid(a)
  BY <1>1 DEF Told, Story, Live
<1>3. PICK e \in SubEvents(sent) : e.status = stripe[a].status
  BY <1>2 DEF Told, Story
<1>4. stripe[a].status # "unpaid"
  BY <1>3 DEF Regular, SubEvents
<1> QED BY <1>1, <1>2, <1>4

\* What has ended stays so.
LEMMA FinalsStep ==
  ASSUME TypeOK, Told, Finals, Regular, [Next]_vars
  PROVE  Finals'
<1>0. /\ stripe \in [Attempt -> Session] /\ sent \subseteq Event /\ now \in Nat
      /\ \A e \in Event : e.of \in Attempt /\ e.at \in Nat
  BY Types
<1>1. ASSUME SubEvents(sent)' = SubEvents(sent),
             \A b \in Attempt : stripe'[b].status = stripe[b].status
      PROVE  Finals'
  <2> SUFFICES ASSUME NEW e \in SubEvents(sent) PROVE Final(e)'
    BY <1>1 DEF Finals
  <2>1. Final(e) /\ e.of \in Attempt
    BY <1>0 DEF Finals, SubEvents
  <2> QED BY <1>1, <2>1 DEF Final
<1>2. CASE UNCHANGED <<stripe, sent>>
  BY <1>1, <1>2 DEF SubEvents
<1>3. ASSUME NEW r \in Request, StripeAnswers(r) PROVE Finals'
  <2>1. PICK a, c : stripe' = IF stripe[a].session # "none" THEN stripe
                              ELSE [stripe EXCEPT ![a].session = "open", ![a].customer = c]
    BY <1>3 DEF StripeAnswers
  <2>2. \A b \in Attempt : stripe'[b].status = stripe[b].status
    BY <1>0, <2>1 DEF Session
  <2>3. SubEvents(sent)' = SubEvents(sent)
    BY <1>3 DEF StripeAnswers, SubEvents
  <2> QED BY <1>1, <2>2, <2>3
<1>4. ASSUME NEW a \in Attempt, Lapse(a) PROVE Finals'
  <2>1. PICK session : stripe' = [stripe EXCEPT ![a].session = session]
    BY <1>4 DEF Lapse
  <2>2. \A b \in Attempt : stripe'[b].status = stripe[b].status
    BY <1>0, <2>1 DEF Session
  <2>3. PICK d : d = CheckoutEvent("expired", a)
    OBVIOUS
  <2>4. d.kind = "expired"
    BY <2>3 DEF CheckoutEvent
  <2>5. sent' = sent \/ sent' = sent \cup {d}
    BY <1>4, <2>3 DEF Lapse
  <2>6. SubEvents(sent)' = SubEvents(sent)
    BY <2>4, <2>5 DEF SubEvents
  <2> QED BY <1>1, <2>2, <2>6
\* A subscription that has not ended gets a new event, the newest.
<1>5. ASSUME NEW a \in Attempt, NEW g, g.of = a, g.at = now, g.status = stripe'[a].status,
             SubEvents(sent)' = SubEvents(sent) \cup {g},
             \A b \in Attempt : b # a => stripe'[b] = stripe[b],
             \A e \in SubEvents(sent) : e.of = a => e.status \notin Ended
      PROVE  Finals'
  <2>1. \A f \in SubEvents(sent) : f.at <= now /\ f.of \in Attempt
    BY <1>0 DEF Told, Report, SubEvents
  <2>2. Final(g)'
    BY <1>0, <1>5, <2>1 DEF Final
  <2>3. ASSUME NEW e \in SubEvents(sent) PROVE Final(e)'
    <3>1. Final(e) /\ e.of \in Attempt
      BY <2>1 DEF Finals
    <3>2. CASE e.of = a
      BY <1>5, <3>2 DEF Final
    <3>3. CASE e.of # a
      BY <1>5, <3>1, <3>3 DEF Final
    <3> QED BY <3>2, <3>3
  <2> QED BY <1>5, <2>2, <2>3 DEF Finals
<1>6. ASSUME NEW a \in Attempt, Pay(a) PROVE Finals'
  <2>1. \A e \in sent : e.of # a
    BY <1>6, PaidAfresh
  <2>2. PICK d, g : d = CheckoutEvent("completed", a) /\ g = SubEvent(a, "active")
    OBVIOUS
  <2>3. /\ d.kind = "completed" /\ g.kind = "subscription" /\ g.of = a /\ g.at = now
        /\ g.status = "active"
    BY <2>2 DEF CheckoutEvent, SubEvent
  <2>4. /\ sent' = sent \cup {d, g} /\ stripe'[a].status = "active"
        /\ \A b \in Attempt : b # a => stripe'[b] = stripe[b]
    BY <1>0, <1>6, <2>2 DEF Pay, Session
  <2>5. SubEvents(sent)' = SubEvents(sent) \cup {g}
    BY <2>3, <2>4 DEF SubEvents
  <2> QED BY <1>5, <2>1, <2>3, <2>4, <2>5 DEF SubEvents
<1>7. ASSUME NEW a \in Attempt, NEW status \in SubStatus, Change(a, status) PROVE Finals'
  <2>1. stripe[a].status \in Live
    BY <1>7, ChangesLive
  <2>2. PICK g : g = SubEvent(a, status)
    OBVIOUS
  <2>3. g.kind = "subscription" /\ g.of = a /\ g.at = now /\ g.status = status
    BY <2>2 DEF SubEvent
  <2>4. /\ sent' = sent \cup {g} /\ stripe'[a].status = status
        /\ \A b \in Attempt : b # a => stripe'[b] = stripe[b]
    BY <1>0, <1>7, <2>2 DEF Change, Session
  <2>5. SubEvents(sent)' = SubEvents(sent) \cup {g}
    BY <2>3, <2>4 DEF SubEvents
  <2>6. \A e \in SubEvents(sent) : e.of = a => e.status \notin Ended
    BY <2>1 DEF Finals, Final, Ended, Replaceable, Live
  <2> QED BY <1>5, <2>3, <2>4, <2>5, <2>6
<1>8. ASSUME NEW r \in Request, \/ ReadAccount(r) \/ NoCheckout(r) \/ ResumeCheckout(r)
                               \/ NewCheckout(r) \/ SaveCheckout(r) \/ CheckoutFails(r)
      PROVE  UNCHANGED <<stripe, sent>>
  BY <1>8 DEF atStripe, ReadAccount, NoCheckout, ResumeCheckout, NewCheckout, SaveCheckout,
              CheckoutFails
<1>9. ASSUME NEW e \in sent \ handled, HandleEvent(e) PROVE UNCHANGED <<stripe, sent>>
  BY <1>9 DEF HandleEvent, atStripe
<1>10. CASE ViewAccount \/ CommitView \/ Tick \/ UNCHANGED vars
  BY <1>2, <1>10 DEF vars, atStripe, ViewAccount, CommitView, Tick
<1> QED BY <1>2, <1>3, <1>4, <1>6, <1>7, <1>8, <1>9, <1>10 DEF Next

\* What a step leaves alone of an attempt keeps its place.
LEMMA PlacedKept ==
  ASSUME TypeOK, [Next]_vars, NEW b \in Attempt, Placed(b),
         attempt'[b] = attempt[b], stripe'[b] = stripe[b],
         attempt[b].status = "open" => \A e \in sent \ handled :
           e.kind = "completed" /\ e.of = b => e \in sent' \ handled',
         \A f \in SubEvents(sent)' : f.of = b => f \in SubEvents(sent)
  PROVE  Placed(b)'
<1>1. Paid(b)' <=> Paid(b)
  BY DEF Paid
<1>2. attempt[b].status = "open" /\ Paid(b) =>
        \E e \in sent' \ handled' : e.kind = "completed" /\ e.of = b
  BY DEF Placed
<1>3. attempt[b].status = "closed" => \A f \in SubEvents(sent)' : f.of = b => Outranks(f)'
  <2> SUFFICES ASSUME attempt[b].status = "closed", NEW f \in SubEvents(sent)', f.of = b
               PROVE  Outranks(f)'
    OBVIOUS
  <2>1. f \in SubEvents(sent) /\ f \in Event
    BY Types DEF SubEvents
  <2>2. Outranks(f)
    BY <2>1 DEF Placed
  <2> QED BY <2>1, <2>2, OutranksKept
<1> QED BY <1>1, <1>2, <1>3 DEF Placed

\* The newest attempt: none was created after it.
LEMMA NewestCreated ==
  ASSUME TypeOK
  PROVE  LET a == Newest(Created)
         IN /\ a \in 0..MaxAttempt
            /\ a # 0 => a \in Attempt /\ attempt[a].status # "none"
            /\ \A b \in Attempt : a < b => attempt[b].status = "none"
<1>1. CASE Created = {}
  BY <1>1 DEF Newest, Created
<1>2. CASE Created # {}
  <2>1. Created \subseteq Attempt
    BY DEF Created
  <2>2. PICK a : a = Newest(Created) /\ a \in Created /\ \A b \in Created : b <= a
    BY <1>2, <2>1, Greatest
  <2>3. a \in Attempt /\ a \in 1..MaxAttempt /\ attempt[a].status # "none"
    BY <2>2 DEF Created, Attempt
  <2>4. \A b \in Attempt : a < b => attempt[b].status = "none"
    <3>1. ASSUME NEW b \in Attempt, a < b, b \in Created PROVE FALSE
      <4>1. b <= a /\ b \in 1..MaxAttempt
        BY <2>2, <3>1 DEF Attempt
      <4> QED BY <2>3, <3>1, <4>1
    <3> QED BY <3>1 DEF Created
  <2> QED BY <2>2, <2>3, <2>4
<1> QED BY <1>1, <1>2

\* A step that moves one request, and takes no attempt or session back, keeps the others.
LEMMA CallingKept ==
  ASSUME NEW r \in Request, Calling(r)', NEW s \in Request, Calling(s),
         s # r => call'[s] = call[s],
         \A a \in Attempt : attempt[a].status # "none" => attempt'[a].status # "none",
         \A a \in Attempt : stripe[a].session # "none" => stripe'[a].session # "none"
  PROVE  Calling(s)'
<1>1. CASE s = r
  BY <1>1
<1>2. CASE s # r
  BY <1>2 DEF Calling
<1> QED BY <1>1, <1>2

\* Only the newest attempt can be paid.
LEMMA AttemptsStep ==
  ASSUME TypeOK, Told, Finals, Attempts, Regular, Regular', [Next]_vars
  PROVE  Attempts'
<1>0. /\ stripe \in [Attempt -> Session] /\ attempt \in [Attempt -> Row] /\ sent \subseteq Event
      /\ call \in [Request -> Call] /\ handled \subseteq sent
      /\ \A e \in Event : e.of \in Attempt
      /\ \A a \in Attempt : a \in Nat /\ a # 0
  BY Types
\* Nothing but a request moves.
<1>1. ASSUME UNCHANGED <<attempt, stripe, sent, handled>>,
             \A r \in Request : Calling(r)'
      PROVE  Attempts'
  <2>1. SubEvents(sent)' = SubEvents(sent)
    BY <1>1 DEF SubEvents
  <2>2. \A b \in Attempt : Placed(b)'
    BY <1>1, <2>1, PlacedKept DEF Attempts
  <2> QED BY <1>1, <2>2 DEF Attempts, After
<1>2. ASSUME NEW r \in Request, ReadAccount(r) \/ NoCheckout(r) \/ CheckoutFails(r)
      PROVE  Attempts'
  <2>1. UNCHANGED <<attempt, stripe, sent, handled>>
    BY <1>2 DEF ReadAccount, NoCheckout, CheckoutFails, db, atStripe, log
  <2>2. call'[r].pc \in {"idle", "read"}
    BY <1>0, <1>2 DEF ReadAccount, NoCheckout, CheckoutFails, Idle
  <2>3. Calling(r)' /\ \A s \in Request : s # r => call'[s] = call[s]
    BY <1>0, <1>2, <2>2 DEF ReadAccount, NoCheckout, CheckoutFails, Calling
  <2>4. \A s \in Request : Calling(s)'
    BY <2>1, <2>3, CallingKept DEF Attempts
  <2> QED BY <1>1, <2>1, <2>4
<1>3. ASSUME NEW r \in Request, ResumeCheckout(r) PROVE Attempts'
  <2>1. UNCHANGED <<attempt, stripe, sent, handled>>
    BY <1>3 DEF ResumeCheckout, db, atStripe, log
  <2>2. PICK a \in 0..MaxAttempt : a = Newest(Created)
    BY NewestCreated
  <2>3. /\ a # 0 /\ attempt[a].status = "creating"
        /\ call' = [call EXCEPT ![r].pc = "called", ![r].attempt = a]
    BY <1>3, <2>2 DEF ResumeCheckout, Status
  <2>4. a \in Attempt /\ call'[r].pc = "called" /\ call'[r].attempt = a
    BY <1>0, <2>3 DEF Attempt, Call
  <2>5. Calling(r)' /\ \A s \in Request : s # r => call'[s] = call[s]
    BY <1>0, <2>1, <2>3, <2>4 DEF Calling
  <2>6. \A s \in Request : Calling(s)'
    BY <2>1, <2>5, CallingKept DEF Attempts
  <2> QED BY <1>1, <2>1, <2>6
<1>4. ASSUME NEW r \in Request, NewCheckout(r) PROVE Attempts'
  <2>1. PICK a \in 0..MaxAttempt : a = Newest(Created)
    BY NewestCreated
  <2>2. /\ a # 0 => a \in Attempt /\ attempt[a].status # "none"
        /\ \A b \in Attempt : a < b => attempt[b].status = "none"
    BY <2>1, NewestCreated
  <2>3. /\ Over(a) /\ a < MaxAttempt
        /\ attempt' = [b \in Attempt |->
                         IF b = a + 1 THEN [status |-> "creating", known |-> FALSE]
                         ELSE IF b = a /\ Status(a) = "open"
                              THEN [attempt[a] EXCEPT !.status = "expired"]
                         ELSE attempt[b]]
        /\ call' = [call EXCEPT ![r].pc = "called", ![r].attempt = a + 1]
        /\ UNCHANGED <<account, stripe, sent, handled>>
    BY <1>4, <2>1 DEF NewCheckout, atStripe, log
  <2>4. a + 1 \in Attempt /\ a < a + 1 /\ a + 1 # a
    BY <2>3 DEF Attempt
  <2>5. attempt'[a + 1] = [status |-> "creating", known |-> FALSE]
    BY <2>3, <2>4
  <2>6. \A b \in Attempt : b # a /\ b # a + 1 => attempt'[b] = attempt[b]
    BY <2>3
  <2>7. a # 0 => /\ attempt'[a].status \in {"expired", "closed"}
                 /\ attempt[a].status \in {"expired", "closed"} => attempt'[a] = attempt[a]
                 /\ attempt[a].status \notin {"expired", "closed"} =>
                      /\ attempt[a].status = "open" /\ Lapsed(a)
                      /\ attempt'[a] = [attempt[a] EXCEPT !.status = "expired"]
    <3> SUFFICES ASSUME a # 0
                 PROVE  /\ attempt'[a].status \in {"expired", "closed"}
                        /\ attempt[a].status \in {"expired", "closed"} => attempt'[a] = attempt[a]
                        /\ attempt[a].status \notin {"expired", "closed"} =>
                             /\ attempt[a].status = "open" /\ Lapsed(a)
                             /\ attempt'[a] = [attempt[a] EXCEPT !.status = "expired"]
      OBVIOUS
    <3>1. a \in Attempt /\ attempt[a] \in Row /\ Status(a) = attempt[a].status
      BY <1>0, <2>2 DEF Status
    <3>2. attempt[a].status \in {"expired", "closed"} \/ (attempt[a].status = "open" /\ Lapsed(a))
      BY <2>2, <2>3, <3>1 DEF Over
    <3>3. attempt'[a] = IF attempt[a].status = "open" THEN [attempt[a] EXCEPT !.status = "expired"]
                        ELSE attempt[a]
      BY <2>3, <2>4, <3>1
    <3> QED BY <3>1, <3>2, <3>3 DEF Row
  <2>8. SubEvents(sent)' = SubEvents(sent)
    BY <2>3 DEF SubEvents
  <2>9. ASSUME NEW b \in Attempt PROVE Placed(b)'
    <3>1. CASE attempt'[b] = attempt[b]
      BY <2>3, <2>8, <3>1, PlacedKept DEF Attempts
    <3>2. CASE b = a + 1
      <4>1. attempt[b].status = "none" /\ stripe' = stripe
        BY <2>2, <2>3, <2>4, <3>2
      <4>2. stripe[b].session = "none"
        BY <4>1 DEF Attempts, Placed
      <4>3. ~Paid(b)'
        BY <4>1, <4>2 DEF Paid
      <4>4. attempt'[b].status = "creating" /\ attempt'[b].known = FALSE
        BY <2>5, <3>2
      <4> QED BY <4>3, <4>4 DEF Placed
    <3>3. CASE b = a /\ attempt'[b] # attempt[b]
      <4>1. /\ attempt[a].status = "open" /\ Lapsed(a) /\ a \in Attempt
            /\ attempt'[a] = [attempt[a] EXCEPT !.status = "expired"]
        BY <1>0, <2>7, <3>3
      <4>2. attempt[a].known /\ stripe[a].session = "expired"
        BY <4>1 DEF Attempts, Placed, Lapsed
      <4>3. attempt'[a].known /\ attempt'[a].status = "expired" /\ stripe'[a].session = "expired"
        BY <1>0, <2>3, <4>1, <4>2 DEF Row
      <4> QED BY <3>3, <4>3 DEF Placed
    <3> QED BY <2>6, <3>1, <3>2, <3>3
  <2>10. ASSUME NEW x \in Attempt, NEW y \in Attempt, x < y, attempt'[y].status # "none"
         PROVE  attempt'[x].status \in {"expired", "closed"}
    <3>1. x \in Nat /\ y \in Nat /\ x # 0 /\ a \in Nat
      BY <1>0
    <3>2. y <= a + 1
      <4>1. CASE a + 1 < y
        BY <2>2, <2>6, <2>10, <3>1, <4>1
      <4> QED BY <3>1, <4>1
    <3>3. CASE x = a
      BY <2>7, <3>1, <3>3
    <3>4. CASE x # a
      <4>1. x < a /\ x # a + 1 /\ a \in Attempt /\ attempt[a].status # "none"
        BY <2>2, <2>10, <3>1, <3>2, <3>4
      <4>2. attempt[x].status \in {"expired", "closed"}
        BY <4>1 DEF Attempts, After
      <4> QED BY <2>6, <3>4, <4>1, <4>2
    <3> QED BY <3>3, <3>4
  <2>11. \A s \in Request : Calling(s)'
    <3>1. call'[r].pc = "called" /\ call'[r].attempt = a + 1
      BY <1>0, <2>3 DEF Call
    <3>2. Calling(r)' /\ \A s \in Request : s # r => call'[s] = call[s]
      BY <1>0, <2>3, <2>4, <2>5, <3>1 DEF Calling
    <3>3. \A b \in Attempt : attempt[b].status # "none" => attempt'[b].status # "none"
      <4>1. \A b \in Attempt : b = a => a # 0
        BY <1>0
      <4> QED BY <2>5, <2>6, <2>7, <4>1
    <3> QED BY <2>3, <3>2, <3>3, CallingKept DEF Attempts
  <2> QED BY <2>9, <2>10, <2>11 DEF Attempts, After
<1>5. ASSUME NEW r \in Request, StripeAnswers(r) PROVE Attempts'
  <2>1. PICK a \in Attempt, c \in 0..MaxAttempt : a = call[r].attempt /\ c = call[r].customer
    BY <1>0, <1>5 DEF StripeAnswers, Attempts, Calling, Call
  <2>2. /\ stripe' = IF stripe[a].session # "none" THEN stripe
                     ELSE [stripe EXCEPT ![a].session = "open",
                                         ![a].customer = IF c # 0 THEN c ELSE a]
        /\ call' = [call EXCEPT ![r].pc = "answered"]
        /\ UNCHANGED <<attempt, sent, handled>>
    BY <1>5, <2>1 DEF StripeAnswers, db, log
  <2>3. attempt[a].status # "none"
    BY <1>5, <2>1 DEF StripeAnswers, Attempts, Calling
  <2>4. /\ stripe'[a].session # "none" /\ \A b \in Attempt : b # a => stripe'[b] = stripe[b]
        /\ stripe[a].session # "none" => stripe' = stripe
        /\ stripe[a].session = "none" => stripe'[a].session = "open"
    BY <1>0, <2>2 DEF Session
  <2>5. SubEvents(sent)' = SubEvents(sent)
    BY <2>2 DEF SubEvents
  <2>6. ASSUME NEW b \in Attempt PROVE Placed(b)'
    <3>1. CASE stripe'[b] = stripe[b]
      BY <2>2, <2>5, <3>1, PlacedKept DEF Attempts
    <3>2. CASE b = a /\ stripe[a].session = "none"
      <4>1. ~Paid(a) /\ ~Paid(a)' /\ Placed(a) /\ attempt[a] \in Row
        BY <1>0, <2>4, <3>2 DEF Paid, Attempts
      <4>2. attempt[a].status = "creating"
        BY <2>3, <3>2, <4>1 DEF Placed, Row, AttemptStatus
      <4> QED BY <2>2, <3>2, <4>1, <4>2 DEF Placed
    <3> QED BY <2>4, <3>1, <3>2
  <2>7. \A s \in Request : Calling(s)'
    <3>1. call'[r].pc = "answered" /\ call'[r].attempt = a
      BY <1>0, <2>1, <2>2 DEF Call
    <3>2. Calling(r)' /\ \A s \in Request : s # r => call'[s] = call[s]
      BY <1>0, <2>2, <2>3, <2>4, <3>1 DEF Calling
    <3>3. \A b \in Attempt : stripe[b].session # "none" => stripe'[b].session # "none"
      BY <2>4
    <3> QED BY <2>2, <3>2, <3>3, CallingKept DEF Attempts
  <2> QED BY <2>2, <2>6, <2>7 DEF Attempts, After
<1>6. ASSUME NEW r \in Request, SaveCheckout(r) PROVE Attempts'
  <2>1. PICK a \in Attempt : a = call[r].attempt
    BY <1>6 DEF SaveCheckout, Attempts, Calling
  <2>2. /\ attempt' = [attempt EXCEPT ![a] = [status |-> "open", known |-> TRUE]]
        /\ call' = [call EXCEPT ![r] = Idle] /\ ~Lapsed(a)
        /\ UNCHANGED <<stripe, sent, handled>>
    BY <1>6, <2>1 DEF SaveCheckout, atStripe, log
  <2>3. attempt[a].status \in {"creating", "open"} /\ stripe[a].session # "none" /\ Placed(a)
    <3>1. Status(a) \in {"creating", "open"}
      BY <1>6, <2>1 DEF SaveCheckout, Regular
    <3>2. Status(a) = attempt[a].status
      BY DEF Status, Attempt
    <3> QED BY <1>6, <2>1, <3>1, <3>2 DEF SaveCheckout, Attempts, Calling
  <2>4. /\ attempt'[a] = [status |-> "open", known |-> TRUE]
        /\ \A b \in Attempt : b # a => attempt'[b] = attempt[b]
    BY <1>0, <2>2
  <2>5. SubEvents(sent)' = SubEvents(sent)
    BY <2>2 DEF SubEvents
  <2>6. ASSUME NEW b \in Attempt PROVE Placed(b)'
    <3>1. CASE b # a
      BY <2>2, <2>4, <2>5, <3>1, PlacedKept DEF Attempts
    <3>2. CASE b = a /\ attempt[a].status = "open"
      <4>1. attempt[a].known /\ attempt[a] \in Row
        BY <1>0, <2>3, <3>2 DEF Placed
      <4>2. attempt'[b] = attempt[b]
        BY <2>4, <3>2, <4>1 DEF Row
      <4> QED BY <2>2, <2>5, <4>2, PlacedKept DEF Attempts
    <3>3. CASE b = a /\ attempt[a].status = "creating"
      <4>1. ~Paid(a) /\ (Paid(a)' <=> Paid(a))
        BY <2>2, <2>3, <3>3 DEF Placed, Paid
      <4>2. stripe'[a].session \notin {"none", "complete, lapsed"}
        BY <2>2, <2>3 DEF Lapsed
      <4>3. attempt'[b].status = "open" /\ attempt'[b].known = TRUE /\ ~Paid(b)'
        BY <2>4, <3>3, <4>1
      <4> QED BY <3>3, <4>2, <4>3 DEF Placed
    <3> QED BY <2>3, <3>1, <3>2, <3>3
  <2>7. \A x, y \in Attempt : After(x, y)'
    BY <2>3, <2>4 DEF Attempts, After
  <2>8. \A s \in Request : Calling(s)'
    <3>1. call'[r].pc = "idle" /\ \A s \in Request : s # r => call'[s] = call[s]
      BY <1>0, <2>2 DEF Idle
    <3>2. Calling(r)'
      BY <3>1 DEF Calling
    <3>3. \A b \in Attempt : attempt[b].status # "none" => attempt'[b].status # "none"
      BY <2>4
    <3> QED BY <2>2, <3>1, <3>2, <3>3, CallingKept DEF Attempts
  <2> QED BY <2>6, <2>7, <2>8 DEF Attempts
\* An event is handled: no attempt moves, or one.
<1>7. ASSUME NEW e \in sent \ handled, HandleEvent(e), attempt' = attempt,
             e.kind = "completed" => attempt[e.of].status # "open"
      PROVE  Attempts'
  <2>1. UNCHANGED <<call, stripe, sent>> /\ handled' = handled \cup {e}
    BY <1>7 DEF HandleEvent, atStripe
  <2>2. SubEvents(sent)' = SubEvents(sent)
    BY <2>1 DEF SubEvents
  <2>3. ASSUME NEW b \in Attempt PROVE Placed(b)'
    <3>1. attempt[b].status = "open" => \A f \in sent \ handled :
            f.kind = "completed" /\ f.of = b => f \in sent' \ handled'
      BY <1>7, <2>1
    <3> QED BY <1>7, <2>1, <2>2, <3>1, PlacedKept DEF Attempts
  <2> QED BY <1>7, <2>1, <2>3 DEF Attempts, After, Calling
<1>8. ASSUME NEW e \in sent \ handled, HandleEvent(e), NEW a \in Attempt,
             NEW status \in {"conflict", "completed", "expired", "closed"},
             attempt' = [attempt EXCEPT ![a].status = status],
             attempt[a].status \in {"open", "completed"}, e.kind = "completed" => e.of = a,
             Placed(a)'
      PROVE  Attempts'
  <2>1. UNCHANGED <<call, stripe, sent>> /\ handled' = handled \cup {e}
    BY <1>8 DEF HandleEvent, atStripe
  <2>2. SubEvents(sent)' = SubEvents(sent)
    BY <2>1 DEF SubEvents
  <2>3. attempt'[a].status = status /\ \A b \in Attempt : b # a => attempt'[b] = attempt[b]
    BY <1>0, <1>8 DEF Row
  <2>4. ASSUME NEW b \in Attempt PROVE Placed(b)'
    <3>1. CASE b = a
      BY <1>8, <3>1
    <3>2. CASE b # a
      <4>1. attempt[b].status = "open" => \A f \in sent \ handled :
              f.kind = "completed" /\ f.of = b => f \in sent' \ handled'
        BY <1>8, <2>1, <3>2
      <4> QED BY <2>1, <2>2, <2>3, <3>2, <4>1, PlacedKept DEF Attempts
    <3> QED BY <3>1, <3>2
  <2>5. ASSUME NEW x \in Attempt, NEW y \in Attempt, x < y, attempt'[y].status # "none"
        PROVE  attempt'[x].status \in {"expired", "closed"}
    <3>1. attempt[y].status # "none"
      BY <1>8, <2>3, <2>5
    <3>2. attempt[x].status \in {"expired", "closed"}
      BY <2>5, <3>1 DEF Attempts, After
    <3>3. x # a
      BY <1>8, <3>2
    <3> QED BY <2>3, <3>2, <3>3
  <2>6. ASSUME NEW s \in Request PROVE Calling(s)'
    <3>1. Calling(s) /\ call' = call /\ stripe' = stripe
      BY <2>1 DEF Attempts
    <3> QED BY <1>8, <2>3, <3>1 DEF Calling
  <2> QED BY <2>4, <2>5, <2>6 DEF Attempts, After
<1>9. ASSUME NEW e \in sent \ handled, HandleEvent(e),
             CompleteCheckout(e) \/ ConflictingCheckout(e)
      PROVE  Attempts'
  <2>1. PICK a \in Attempt : a = e.of
    BY <1>0
  <2>2. PICK status \in {"conflict", "completed"} : attempt' = [attempt EXCEPT ![a].status = status]
    BY <1>9, <2>1 DEF CompleteCheckout, ConflictingCheckout, Ends
  <2>3. e.kind = "completed" /\ attempt[a].known /\ attempt[a].status \in {"creating", "open"}
    BY <1>9, <2>1 DEF CompleteCheckout, ConflictingCheckout, Ends
  <2>4. attempt[a].status = "open" /\ Paid(a)
    BY <2>1, <2>3 DEF Attempts, Placed, Told, Report
  <2>5. attempt'[a].status = status /\ attempt'[a].known /\ stripe' = stripe
    BY <1>0, <1>9, <2>2, <2>3 DEF Row, HandleEvent, atStripe
  <2>6. Paid(a)'
    BY <2>4, <2>5 DEF Paid
  <2>7. Placed(a)'
    BY <2>2, <2>5, <2>6 DEF Placed
  <2> QED BY <1>8, <1>9, <2>1, <2>2, <2>4, <2>7
<1>10. ASSUME NEW e \in sent \ handled, HandleEvent(e), ExpireCheckout(e) PROVE Attempts'
  <2>1. PICK a \in Attempt : a = e.of
    BY <1>0
  <2>2. attempt' = [attempt EXCEPT ![a].status = "expired"]
    BY <1>10, <2>1 DEF ExpireCheckout, Ends
  <2>3. e.kind = "expired" /\ attempt[a].known /\ attempt[a].status \in {"creating", "open"}
    BY <1>10, <2>1 DEF ExpireCheckout, Ends
  <2>4. attempt[a].status = "open" /\ stripe[a].session = "expired"
    BY <2>1, <2>3 DEF Attempts, Placed, Told, Report
  <2>5. attempt'[a].status = "expired" /\ attempt'[a].known /\ stripe' = stripe
    BY <1>0, <1>10, <2>2, <2>3 DEF Row, HandleEvent, atStripe
  <2>6. Placed(a)'
    BY <2>4, <2>5 DEF Placed
  <2> QED BY <1>8, <1>10, <2>2, <2>3, <2>4, <2>6
<1>11. ASSUME NEW e \in sent \ handled, HandleEvent(e),
              MismatchedCheckout(e) \/ StaleEvent(e) \/ ConflictingEvent(e)
       PROVE  Attempts'
  <2>1. attempt' = attempt
    BY <1>11 DEF MismatchedCheckout, StaleEvent, ConflictingEvent, db
  <2>2. e.kind = "completed" => attempt[e.of].status # "open"
    <3>1. e.of \in Attempt
      BY <1>0
    <3>2. CASE MismatchedCheckout(e)
      BY <3>1, <3>2 DEF MismatchedCheckout, Ends, Attempts, Placed
    <3>3. CASE StaleEvent(e) \/ ConflictingEvent(e)
      BY <3>3 DEF StaleEvent, ConflictingEvent
    <3> QED BY <1>11, <3>2, <3>3
  <2> QED BY <1>7, <1>11, <2>1, <2>2
<1>12. ASSUME NEW e \in sent \ handled, HandleEvent(e), ApplyEvent(e) PROVE Attempts'
  <2>1. e \in Event /\ e.of \in Attempt /\ e.kind = "subscription" /\ e \in SubEvents(sent)
    BY <1>0, <1>12 DEF ApplyEvent, SubEvents
  <2>2. CASE attempt' = attempt
    BY <1>7, <1>12, <2>1, <2>2
  <2>3. CASE attempt' # attempt
    <3>1. PICK done : done = Newest({a \in Attempt : attempt[a].status = "completed"})
      OBVIOUS
    <3>2. /\ done # 0 /\ account'.status \in Replaceable
          /\ attempt' = [attempt EXCEPT ![done].status = "closed"]
      BY <1>12, <2>3, <3>1 DEF ApplyEvent, CloseAttempt
    <3>3. done \in Attempt /\ attempt[done].status = "completed"
      <4>1. {a \in Attempt : attempt[a].status = "completed"} # {}
        BY <3>1, <3>2 DEF Newest
      <4> QED BY <3>1, <4>1, Greatest
    <3>4. /\ e.status \in Ended /\ stripe[e.of].status = e.status /\ Paid(e.of)
          /\ \A f \in SubEvents(sent) : f.of = e.of => f.at <= e.at
      <4>1. account'.status = e.status
        BY <1>12, <2>1, AppliedType DEF ApplyEvent
      <4>2. Report(e)
        BY DEF Told
      <4>3. e.status \in Ended /\ Final(e)
        BY <2>1, <3>2, <4>1, <4>2 DEF Report, Ended, Finals
      <4> QED BY <2>1, <4>2, <4>3 DEF Report, Final
    <3>5. done = e.of
      <4>1. done \in Nat /\ e.of \in Nat
        BY <1>0, <2>1, <3>3
      <4>2. CASE done < e.of
        <5>1. attempt[e.of].status = "none"
          BY <2>1, <3>3, <4>2 DEF Attempts, After
        <5> QED BY <2>1, <3>4, <5>1 DEF Attempts, Placed, Paid
      <4>3. CASE e.of < done
        <5>1. Outranks(e)
          BY <2>1, <3>3, <3>4, <4>3, Superseded
        <5> QED BY <1>12, <5>1 DEF ApplyEvent, Outranks
      <4> QED BY <4>1, <4>2, <4>3
    <3>6. /\ attempt'[done].status = "closed" /\ attempt'[done].known
          /\ UNCHANGED <<stripe, sent>>
      <4>1. attempt[done].known
        BY <3>3 DEF Attempts, Placed
      <4> QED BY <1>0, <1>12, <3>2, <3>3, <4>1 DEF Row, HandleEvent, atStripe
    <3>7. ASSUME NEW f \in SubEvents(sent), f.of = done PROVE Outranks(f)'
      <4>1. f \in Event /\ f.at \in Nat /\ e.at \in Nat /\ f.at <= e.at
        BY <2>1, <3>4, <3>5, <3>7, Types DEF SubEvents
      <4>2. account'.at = e.at /\ account'.rank = 40 /\ Rank(f) \in {20, 30, 40}
        BY <1>12, <2>1, <3>4, <4>1, AppliedType, Ranked DEF ApplyEvent, Ended
      <4> QED BY <4>1, <4>2 DEF Outranks, OlderThan
    <3>8. SubEvents(sent)' = SubEvents(sent) /\ Paid(done)'
      BY <3>4, <3>5, <3>6 DEF SubEvents, Paid
    <3>9. Placed(done)'
      BY <3>4, <3>5, <3>6, <3>7, <3>8 DEF Placed
    <3> QED BY <1>8, <1>12, <2>1, <3>2, <3>3, <3>9
  <2> QED BY <2>2, <2>3
\* Stripe or the owner acts: of one attempt.
<1>13. ASSUME NEW a \in Attempt, UNCHANGED <<attempt, call, handled>>,
              \A b \in Attempt : b # a => stripe'[b] = stripe[b],
              \A f \in SubEvents(sent)' : f.of # a => f \in SubEvents(sent), sent \subseteq sent',
              stripe[a].session # "none", stripe'[a].session # "none",
              Placed(a)'
       PROVE  Attempts'
  <2>1. ASSUME NEW b \in Attempt, b # a PROVE Placed(b)'
    <3>1. \A f \in SubEvents(sent)' : f.of = b => f \in SubEvents(sent)
      BY <1>13, <2>1
    <3>2. \A e \in sent \ handled : e \in sent' \ handled'
      BY <1>13
    <3> QED BY <1>13, <2>1, <3>1, <3>2, PlacedKept DEF Attempts
  <2>2. ASSUME NEW s \in Request PROVE Calling(s)'
    <3>1. Calling(s)
      BY DEF Attempts
    <3> QED BY <1>13, <3>1 DEF Calling
  <2> QED BY <1>13, <2>1, <2>2 DEF Attempts, After
<1>14. ASSUME NEW a \in Attempt, Pay(a) PROVE Attempts'
  <2>1. attempt[a].status = "open" /\ \A e \in sent : e.of # a
    BY <1>14, PayNewest
  <2>2. PICK d, g : d = CheckoutEvent("completed", a) /\ g = SubEvent(a, "active")
    OBVIOUS
  <2>3. d.kind = "completed" /\ d.of = a /\ g.of = a
    BY <2>2 DEF CheckoutEvent, SubEvent
  <2>4. /\ sent' = sent \cup {d, g} /\ UNCHANGED <<attempt, call, handled>>
        /\ stripe[a].session = "open" /\ stripe'[a].session = "complete"
        /\ \A b \in Attempt : b # a => stripe'[b] = stripe[b]
    BY <1>0, <1>14, <2>2 DEF Pay, db, Session, log
  <2>5. attempt[a].known
    BY <1>14 DEF Pay
  <2>6. d \in sent' \ handled'
    BY <1>0, <2>1, <2>3, <2>4
  <2>7. Placed(a)'
    BY <2>1, <2>3, <2>4, <2>5, <2>6 DEF Placed
  <2>8. \A f \in SubEvents(sent)' : f.of # a => f \in SubEvents(sent)
    BY <2>3, <2>4 DEF SubEvents
  <2> QED BY <1>13, <2>4, <2>7, <2>8
<1>15. ASSUME NEW a \in Attempt, Lapse(a) PROVE Attempts'
  <2>1. PICK session \in {"expired", "complete, lapsed"} :
          /\ stripe' = [stripe EXCEPT ![a].session = session]
          /\ session = "expired" <=> stripe[a].session = "open"
    BY <1>15 DEF Lapse
  <2>2. /\ stripe'[a].session = session /\ stripe'[a].status = stripe[a].status
        /\ \A b \in Attempt : b # a => stripe'[b] = stripe[b]
    BY <1>0, <2>1 DEF Session
  <2>3. /\ stripe[a].session \in {"open", "complete"} /\ UNCHANGED <<attempt, call, handled>>
        /\ \A e \in sent \ handled : e.of # a
    BY <1>15 DEF Lapse, db, log
  <2>4. PICK d : d = CheckoutEvent("expired", a)
    OBVIOUS
  <2>5. d.kind = "expired"
    BY <2>4 DEF CheckoutEvent
  <2>6. sent' = sent \/ sent' = sent \cup {d}
    BY <1>15, <2>4 DEF Lapse
  <2>7. SubEvents(sent)' = SubEvents(sent) /\ sent \subseteq sent'
    BY <2>5, <2>6 DEF SubEvents
  <2>8. Placed(a) /\ attempt[a] \in Row
    BY <1>0 DEF Attempts
  <2>9. CASE stripe[a].session = "open"
    <3>1. /\ session = "expired" /\ ~Paid(a)
          /\ attempt[a].status \notin {"none", "expired", "completed", "conflict", "closed"}
      BY <2>1, <2>8, <2>9 DEF Placed, Paid
    <3>2. ~Paid(a)'
      BY <2>2, <3>1 DEF Paid
    <3>3. Placed(a)'
      BY <2>2, <2>3, <2>8, <3>1, <3>2 DEF Placed
    <3> QED BY <1>13, <2>2, <2>3, <2>7, <2>9, <3>1, <3>3
  <2>10. CASE stripe[a].session = "complete"
    <3>1. /\ session = "complete, lapsed" /\ Paid(a)
          /\ attempt[a].status \notin {"none", "expired", "creating", "open"}
      BY <2>1, <2>3, <2>8, <2>10 DEF Placed, Paid
    <3>2. Paid(a)'
      BY <2>2, <3>1 DEF Paid
    <3>3. ASSUME attempt[a].status = "closed", NEW f \in SubEvents(sent), f.of = a
          PROVE  Outranks(f)'
      <4>1. Outranks(f) /\ f \in Event
        BY <1>0, <2>8, <3>3 DEF Placed, SubEvents
      <4> QED BY <4>1, OutranksKept
    <3>4. Placed(a)'
      BY <2>2, <2>3, <2>7, <2>8, <3>1, <3>2, <3>3 DEF Placed
    <3> QED BY <1>13, <2>2, <2>3, <2>7, <2>10, <3>1, <3>4
  <2> QED BY <2>3, <2>9, <2>10
<1>16. ASSUME NEW a \in Attempt, NEW status \in SubStatus, Change(a, status) PROVE Attempts'
  <2>1. stripe[a].status \in Live
    BY <1>16, ChangesLive
  <2>2. Paid(a) /\ stripe[a].session # "none"
    BY <1>16, ChangesLive DEF Paid
  <2>3. PICK g : g = SubEvent(a, status)
    OBVIOUS
  <2>4. /\ g.of = a /\ sent' = sent \cup {g} /\ UNCHANGED <<attempt, call, handled>>
        /\ stripe'[a].session = stripe[a].session
        /\ \A b \in Attempt : b # a => stripe'[b] = stripe[b]
    BY <1>0, <1>16, <2>3 DEF Change, SubEvent, Session, db, log
  <2>5. Placed(a) /\ Paid(a)'
    BY <2>2, <2>4 DEF Attempts, Paid
  <2>6. attempt[a].status # "closed"
    BY <2>1, <2>5 DEF Placed, Live, Ended, Replaceable
  <2>7. Placed(a)'
    BY <2>2, <2>4, <2>5, <2>6 DEF Placed
  <2>8. \A f \in SubEvents(sent)' : f.of # a => f \in SubEvents(sent)
    BY <2>4 DEF SubEvents
  <2> QED BY <1>13, <2>2, <2>4, <2>7, <2>8
<1>17. CASE ViewAccount \/ CommitView \/ Tick \/ UNCHANGED vars
  <2>1. UNCHANGED <<attempt, stripe, sent, handled, call>>
    BY <1>17 DEF ViewAccount, CommitView, Tick, vars, db, atStripe, log
  <2>2. \A r \in Request : Calling(r)'
    BY <2>1 DEF Attempts, Calling
  <2> QED BY <1>1, <2>1, <2>2
<1>18. ASSUME NEW e \in sent \ handled, HandleEvent(e) PROVE Attempts'
  BY <1>9, <1>10, <1>11, <1>12, <1>18 DEF HandleEvent
<1> QED BY <1>2, <1>3, <1>4, <1>5, <1>6, <1>14, <1>15, <1>16, <1>17, <1>18 DEF Next

LEMMA OrderlyStep ==
  ASSUME TypeOK, Told, Orderly, [Next]_vars
  PROVE  Orderly'
<1> SUFFICES ASSUME Regular' PROVE Finals' /\ Attempts'
  BY DEF Orderly
<1>1. Regular
  <2>1. sent \subseteq sent'
    BY DEF Next, vars, atStripe, ReadAccount, NoCheckout, ResumeCheckout, NewCheckout, StripeAnswers,
           SaveCheckout, CheckoutFails, HandleEvent, Pay, Lapse, Change, ViewAccount, CommitView, Tick
  <2>2. reopened => reopened'
    BY DEF Next, vars, ReadAccount, NoCheckout, ResumeCheckout, NewCheckout, StripeAnswers,
           SaveCheckout, CheckoutFails, HandleEvent, Pay, Lapse, Change, ViewAccount, CommitView, Tick
  <2> QED BY <2>1, <2>2 DEF Regular
<1> QED BY <1>1, FinalsStep, AttemptsStep DEF Orderly

LEMMA InitOrderly == Init => Orderly
<1> SUFFICES ASSUME Init PROVE Orderly
  OBVIOUS
<1>1. \A a \in Attempt : Placed(a) /\ \A b \in Attempt : After(a, b)
  BY DEF Init, Placed, After, Paid
<1>2. \A r \in Request : Calling(r)
  BY DEF Init, Calling, Idle
<1>3. Finals
  BY DEF Init, Finals, SubEvents
<1> QED BY <1>1, <1>2, <1>3 DEF Orderly, Attempts

\* The owner pays for one subscription at most, however many requests overlap, until an
\* ended attempt is opened again or a subscription is left unpaid.
THEOREM LivesOnce == Spec => []OneLive
<1>1. ASSUME TypeOK, Told, Orderly PROVE OneLive
  <2> SUFFICES ASSUME Regular
               PROVE  Cardinality({a \in Attempt : stripe[a].status \in Live}) <= 1
    BY DEF OneLive, Regular
  <2>0. Finals /\ Attempts
    BY <1>1 DEF Orderly
  <2> DEFINE live == {a \in Attempt : stripe[a].status \in Live}
  <2>1. ASSUME NEW a \in live, NEW b \in live, a < b PROVE FALSE
    <3>1. Paid(a) /\ Paid(b)
      BY <1>1 DEF Told, Story, Live
    <3>2. stripe[a].status \in Ended
      BY <1>1, <2>0, <2>1, <3>1, Superseded
    <3> QED BY <3>2 DEF Live, Ended, Replaceable
  <2>2. \A a \in live : a \in Nat
    BY <1>1, Types
  <2>3. \A a, b \in live : a = b
    BY <2>1, <2>2
  <2>4. CASE live = {}
    BY <2>4, FS_EmptySet
  <2>5. CASE live # {}
    <3>1. PICK a : live = {a}
      BY <2>3, <2>5
    <3>2. Cardinality(live) = 1
      BY <3>1, FS_Singleton
    <3> QED BY <3>2
  <2> QED BY <2>4, <2>5
<1>2. IInv /\ Orderly /\ [Next]_vars => Orderly'
  BY OrderlyStep DEF IInv
<1>3. IInv /\ Orderly => OneLive
  BY <1>1 DEF IInv
<1> QED BY <1>2, <1>3, IInvCorrect, InitOrderly, PTL DEF Spec
=============================================================================
