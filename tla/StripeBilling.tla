---------------------------- MODULE StripeBilling ----------------------------
(***************************************************************************)
(* The billing account of one owner and what Stripe does (billing.py):     *)
(* checkout attempts, webhook events in any order, grace periods.          *)
(*                                                                         *)
(* Attempts are numbered in the order of their creation; the Stripe        *)
(* session of an attempt, and the subscription and the customer a payment  *)
(* of it creates, have its number, 0 stands for none.  Every object that   *)
(* Stripe makes carries the account's id in its metadata.  An event is     *)
(* known by its id: the transaction that applies it records it, a further  *)
(* delivery finds it processed, and one that fails is delivered again.     *)
(***************************************************************************)
EXTENDS Integers, FiniteSets

CONSTANTS
  Request,     \* concurrent requests for a checkout
  Moves,       \* how Stripe changes a subscription: a set of <<status, status>>
  Grace,       \* BILLING_PAST_DUE_GRACE_DAYS in ticks
  MaxAttempt,  \* bound: checkout attempts
  MaxMoves,    \* bound: changes of a subscription after its creation
  MaxNow       \* bound: the last tick explored

\* "repriced" is an active subscription to another Price.
Replaceable == {"none", "unpaid", "canceled"}
Live        == {"active", "repriced", "past_due"}
SubStatus   == Replaceable \cup Live
Attempt     == 1..MaxAttempt
AttemptStatus == {"none", "creating", "open", "completed", "expired", "conflict", "closed"}

BillingAssumption ==
  /\ Moves \subseteq (Live \cup {"unpaid"}) \X (SubStatus \ {"none"})
  /\ Grace \in Nat \ {0} /\ MaxAttempt \in Nat /\ MaxMoves \in Nat /\ MaxNow \in Nat \ {0}
ASSUME BillingAssumption

VARIABLES
  account,  \* [plan, status, sub, customer, grace, at, rank]; at and rank are those
            \* of the last subscription event applied
  attempt,  \* [Attempt -> [status, known]], known: provider_session_id is stored
  call,     \* [Request -> [pc, attempt, plan, customer]]: a checkout in progress
  view,     \* TRUE: an account read in grace that had ended is still to be written
  stripe,   \* [Attempt -> [session, customer, status]], at Stripe
  sent,     \* the events Stripe has made: [kind, of, status, at]
  handled,  \* those of them recorded as processed
  refused,  \* those of them recorded with an error_code: of a conflict or a mismatch
  reopened, \* history: an answer was saved over an attempt that a webhook had ended
  moves,
  now

db     == <<account, attempt>>
atStripe == <<stripe, sent, moves>>
log    == <<handled, refused>>
vars   == <<db, call, view, atStripe, log, reopened, now>>

Idle == [pc |-> "idle", attempt |-> 0, plan |-> "free", customer |-> 0]

Init ==
  /\ account = [plan |-> "free", status |-> "none", sub |-> 0, customer |-> 0,
                grace |-> 0, at |-> 0, rank |-> 0]
  /\ attempt = [a \in Attempt |-> [status |-> "none", known |-> FALSE]]
  /\ call = [r \in Request |-> Idle]
  /\ view = FALSE
  /\ stripe = [a \in Attempt |-> [session |-> "none", customer |-> 0, status |-> "none"]]
  /\ sent = {} /\ handled = {} /\ refused = {} /\ reopened = FALSE /\ moves = 0
  /\ now = 1

Created == {a \in Attempt : attempt[a].status # "none"}
Newest(S) == IF S = {} THEN 0 ELSE CHOOSE a \in S : \A b \in S : b <= a
GraceOver(acc) == acc.status = "past_due" /\ acc.grace # 0 /\ acc.grace <= now

-----------------------------------------------------------------------------
(* create_checkout_session: the account is read, then the newest attempt   *)
(* under the account's lock; Stripe is called with no lock at all.         *)

ReadAccount(r) ==
  /\ call[r].pc = "idle"
  /\ call' = [call EXCEPT ![r] = [pc |-> "read", attempt |-> 0,
                                  plan |-> IF GraceOver(account) THEN "free" ELSE account.plan,
                                  customer |-> account.customer]]
  /\ UNCHANGED <<db, view, atStripe, log, reopened, now>>

\* An open session has passed its expires_at.
Lapsed(a) == stripe[a].session \in {"expired", "complete, lapsed"}
Status(a) == IF a = 0 THEN "none" ELSE attempt[a].status
IsPro(r)  == call[r].plan = "pro" /\ call[r].customer # 0

\* A new attempt may follow the newest one.
\* Fault: a completed attempt does not stand in the way.
OverOrCompleted(a) ==
  Status(a) \in {"none", "expired", "closed", "completed"} \/ (Status(a) = "open" /\ Lapsed(a))
Over(a) ==
  Status(a) \in {"none", "expired", "closed"} \/ (Status(a) = "open" /\ Lapsed(a))

\* The portal, the URL of an open session, or a conflict: nothing changes.
NoCheckout(r) ==
  /\ call[r].pc = "read"
  /\ IsPro(r) \/ (~Over(Newest(Created)) /\ Status(Newest(Created)) # "creating")
  /\ call' = [call EXCEPT ![r] = Idle]
  /\ UNCHANGED <<db, view, atStripe, log, reopened, now>>

ResumeCheckout(r) ==
  /\ call[r].pc = "read" /\ ~IsPro(r) /\ Status(Newest(Created)) = "creating"
  /\ call' = [call EXCEPT ![r].pc = "called", ![r].attempt = Newest(Created)]
  /\ UNCHANGED <<db, view, atStripe, log, reopened, now>>

NewCheckout(r) ==
  LET a == Newest(Created)
  IN /\ call[r].pc = "read" /\ ~IsPro(r) /\ Over(a) /\ a < MaxAttempt
     /\ attempt' = [b \in Attempt |->
                      IF b = a + 1 THEN [status |-> "creating", known |-> FALSE]
                      ELSE IF b = a /\ Status(a) = "open" THEN [attempt[a] EXCEPT !.status = "expired"]
                      ELSE attempt[b]]
     /\ call' = [call EXCEPT ![r].pc = "called", ![r].attempt = a + 1]
     /\ UNCHANGED <<account, view, atStripe, log, reopened, now>>

\* The idempotency key names the attempt: a repeated call gets the same session.
StripeAnswers(r) ==
  /\ call[r].pc = "called"
  /\ LET a == call[r].attempt
     IN stripe' = IF stripe[a].session # "none" THEN stripe
                  ELSE [stripe EXCEPT ![a].session = "open", ![a].customer =
                          IF call[r].customer # 0 THEN call[r].customer ELSE a]
  /\ call' = [call EXCEPT ![r].pc = "answered"]
  /\ UNCHANGED <<db, view, sent, moves, log, reopened, now>>

\* The attempt is locked and opened, whatever a webhook has made of it.
SaveCheckout(r) ==
  /\ call[r].pc = "answered" /\ ~Lapsed(call[r].attempt)
  /\ attempt' = [attempt EXCEPT ![call[r].attempt] = [status |-> "open", known |-> TRUE]]
  /\ reopened' = (reopened \/ Status(call[r].attempt) \notin {"creating", "open"})
  /\ call' = [call EXCEPT ![r] = Idle]
  /\ UNCHANGED <<account, view, atStripe, log, now>>

\* Stripe or the connection fails, or the session has expired.
CheckoutFails(r) ==
  /\ call[r].pc \in {"called", "answered"}
  /\ call' = [call EXCEPT ![r] = Idle]
  /\ UNCHANGED <<db, view, atStripe, log, reopened, now>>

-----------------------------------------------------------------------------
(* ensure_billing_account, for the readers of the account: a grace period  *)
(* that has ended is written when their transaction commits.               *)

ViewAccount ==
  /\ ~view /\ account.plan = "pro" /\ GraceOver(account)
  /\ view' = TRUE
  /\ UNCHANGED <<db, call, atStripe, log, reopened, now>>

CommitView ==
  /\ view /\ view' = FALSE
  /\ account' = [account EXCEPT !.plan = "free"]
  /\ UNCHANGED <<attempt, call, atStripe, log, reopened, now>>

-----------------------------------------------------------------------------
(* process_stripe_event, under the account's lock.                         *)

CheckoutEvent(kind, a) == [kind |-> kind, of |-> a, status |-> "none", at |-> now]
SubEvent(a, status)    == [kind |-> "subscription", of |-> a, status |-> status, at |-> now]

\* Fault: "active" is not known to the ranking.
RankWithoutActive(e) == CASE e.status \in Replaceable -> 40
                          [] e.status = "past_due"    -> 30
                          [] OTHER                    -> 35
Rank(e) == CASE e.status \in Replaceable -> 40
             [] e.status = "past_due"    -> 30
             [] OTHER                    -> 20

\* Fault: within a second, the event that arrives last wins.
OlderBySecond(e, at, rank) == e.at < at
OlderThan(e, at, rank) == e.at < at \/ (e.at = at /\ Rank(e) <= rank)

CustomerConflict(a) == account.customer \notin {0, stripe[a].customer}
SubscriptionConflict(a) == account.sub \notin {0, a} /\ account.status \notin Replaceable

\* What a recorded conflict leaves: the account as its readers see it.
Unaltered == account' = [account EXCEPT !.plan = IF GraceOver(account) THEN "free" ELSE @]

\* The session is stored, and its attempt is not over.
Ends(e, kind) ==
  e.kind = kind /\ attempt[e.of].known /\ attempt[e.of].status \in {"creating", "open"}
Conflicts(a) == CustomerConflict(a) \/ SubscriptionConflict(a)

CompleteCheckout(e) ==
  /\ Ends(e, "completed") /\ ~Conflicts(e.of)
  /\ attempt' = [attempt EXCEPT ![e.of].status = "completed"]
  /\ account' = [account EXCEPT !.customer = stripe[e.of].customer, !.sub = e.of]

ConflictingCheckout(e) ==
  /\ Ends(e, "completed") /\ Conflicts(e.of)
  /\ attempt' = [attempt EXCEPT ![e.of].status = "conflict"]
  /\ Unaltered

ExpireCheckout(e) ==
  /\ Ends(e, "expired")
  /\ attempt' = [attempt EXCEPT ![e.of].status = "expired"]
  /\ UNCHANGED account

MismatchedCheckout(e) ==
  /\ e.kind \in {"completed", "expired"} /\ ~Ends(e, e.kind)
  /\ Unaltered
  /\ UNCHANGED attempt

StaleEvent(e) ==
  /\ e.kind = "subscription" /\ OlderThan(e, account.at, account.rank)
  /\ UNCHANGED db

ConflictingEvent(e) ==
  /\ e.kind = "subscription" /\ ~OlderThan(e, account.at, account.rank)
  /\ Conflicts(e.of)
  /\ Unaltered
  /\ UNCHANGED attempt

\* Fault: every past-due event starts the grace period afresh.
DeadlineAfresh == now + Grace
Deadline == IF account.status = "past_due" /\ account.grace # 0 THEN account.grace ELSE now + Grace

\* The account an event makes.
\* Fault: the time of its arrival is kept.
AppliedNow(e) ==
  LET grace == IF e.status = "past_due" THEN Deadline ELSE 0
  IN [plan |-> IF e.status = "active" \/ (e.status = "past_due" /\ grace > now) THEN "pro" ELSE "free",
      status |-> e.status, sub |-> e.of, customer |-> stripe[e.of].customer,
      grace |-> grace, at |-> now, rank |-> Rank(e)]
Applied(e) ==
  LET grace == IF e.status = "past_due" THEN Deadline ELSE 0
  IN [plan |-> IF e.status = "active" \/ (e.status = "past_due" /\ grace > now) THEN "pro" ELSE "free",
      status |-> e.status, sub |-> e.of, customer |-> stripe[e.of].customer,
      grace |-> grace, at |-> e.at, rank |-> Rank(e)]

\* A terminal event closes the newest completed attempt.
CloseAttempt ==
  LET done == Newest({a \in Attempt : attempt[a].status = "completed"})
  IN attempt' = IF account'.plan = "free" /\ account'.status \in Replaceable /\ done # 0
                  THEN [attempt EXCEPT ![done].status = "closed"] ELSE attempt

ApplyEvent(e) ==
  /\ e.kind = "subscription" /\ ~OlderThan(e, account.at, account.rank)
  /\ ~Conflicts(e.of)
  /\ account' = Applied(e)
  /\ CloseAttempt

HandleEvent(e) ==
  /\ \/ /\ CompleteCheckout(e) \/ ExpireCheckout(e) \/ StaleEvent(e) \/ ApplyEvent(e)
        /\ UNCHANGED refused
     \/ /\ ConflictingCheckout(e) \/ MismatchedCheckout(e) \/ ConflictingEvent(e)
        /\ refused' = refused \cup {e}
  /\ handled' = handled \cup {e}
  /\ UNCHANGED <<call, view, atStripe, reopened, now>>

-----------------------------------------------------------------------------
(* Stripe and the owner.  A session can be paid once its URL was returned. *)

Pay(a) ==
  /\ stripe[a].session = "open" /\ attempt[a].known
  /\ stripe' = [stripe EXCEPT ![a].session = "complete", ![a].status = "active"]
  /\ sent' = sent \cup {CheckoutEvent("completed", a), SubEvent(a, "active")}
  /\ UNCHANGED <<db, call, view, moves, log, reopened, now>>

\* The lifetime of a session (a day) ends.  Stripe delivers an event within it.
Lapse(a) ==
  /\ stripe[a].session \in {"open", "complete"} /\ \A e \in sent \ handled : e.of # a
  /\ stripe' = [stripe EXCEPT ![a].session = IF @ = "open" THEN "expired" ELSE "complete, lapsed"]
  /\ sent' = sent \cup (IF stripe[a].session = "open" THEN {CheckoutEvent("expired", a)} ELSE {})
  /\ UNCHANGED <<db, call, view, moves, log, reopened, now>>

Change(a, status) ==
  /\ moves < MaxMoves /\ moves' = moves + 1
  /\ <<stripe[a].status, status>> \in Moves
  /\ stripe' = [stripe EXCEPT ![a].status = status]
  /\ sent' = sent \cup {SubEvent(a, status)}
  /\ UNCHANGED <<db, call, view, log, reopened, now>>

Tick ==
  /\ now < MaxNow /\ now' = now + 1
  /\ UNCHANGED <<db, call, view, atStripe, log, reopened>>

Next ==
  \/ \E r \in Request : \/ ReadAccount(r) \/ NoCheckout(r) \/ ResumeCheckout(r) \/ NewCheckout(r)
                        \/ StripeAnswers(r) \/ SaveCheckout(r) \/ CheckoutFails(r)
  \/ \E e \in sent \ handled : HandleEvent(e)
  \/ \E a \in Attempt : Pay(a) \/ Lapse(a) \/ \E status \in SubStatus : Change(a, status)
  \/ ViewAccount \/ CommitView \/ Tick

Spec == Init /\ [][Next]_vars

-----------------------------------------------------------------------------
Event == [kind : {"completed", "expired", "subscription"}, of : Attempt,
          status : SubStatus, at : 1..MaxNow]
TypeOK ==
  /\ account \in [plan : {"free", "pro"}, status : SubStatus, sub : 0..MaxAttempt,
                  customer : 0..MaxAttempt, grace : 0..(MaxNow + Grace), at : 0..MaxNow,
                  rank : {0, 20, 30, 40}]
  /\ attempt \in [Attempt -> [status : AttemptStatus, known : BOOLEAN]]
  /\ call \in [Request -> [pc : {"idle", "read", "called", "answered"}, attempt : 0..MaxAttempt,
                           plan : {"free", "pro"}, customer : 0..MaxAttempt]]
  /\ view \in BOOLEAN
  /\ stripe \in [Attempt -> [session : {"none", "open", "complete", "expired", "complete, lapsed"},
                             customer : 0..MaxAttempt, status : SubStatus]]
  /\ refused \subseteq handled /\ handled \subseteq sent /\ sent \subseteq Event
  /\ reopened \in BOOLEAN
  /\ moves \in 0..MaxMoves /\ now \in 1..MaxNow

SubEvents(E) == {e \in E : e.kind = "subscription"}
\* What was processed and not refused as a conflict.
Settled == SubEvents(handled \ refused)

\* docs/BILLING.md:84 "Older subscription events cannot overwrite a newer materialized
\* state": whatever the order of delivery and whatever checkouts overlap, Pro rests on an
\* event of the account's subscription, and no event that was processed, of whatever
\* subscription, outranks it, unless it was refused as a conflict.
ProHasEvidence ==
  account.plan = "pro" =>
    \E e \in Settled :
      /\ e.of = account.sub /\ e.status \in {"active", "past_due"}
      /\ ~\E f \in Settled : f.at > e.at \/ (f.at = e.at /\ Rank(f) > Rank(e))

\* Once the events of the account's subscription are all processed, in whatever order, and
\* none was refused, the account has the status that the subscription has at Stripe.
\* All subscriptions share one time stamp of the account, so that an event hides one of
\* its own second, and a processed event of another subscription an older one.
Converges ==
  LET mine == {e \in SubEvents(sent) : e.of = account.sub}
  IN account.sub # 0 /\ mine \subseteq Settled =>
       \/ account.status = stripe[account.sub].status
       \/ \E e \in mine, f \in Settled :
            e # f /\ f.at >= e.at /\ \A g \in mine : g.at <= e.at

\* The owner never pays for two subscriptions at once, however many requests overlap:
\* while one lives, checkout does not start another.  Two things break it: an answer
\* that is saved over a completed attempt (CompletedWaits), and a subscription that
\* Stripe leaves unpaid, which frees its attempt although it has not ended.
OneLive ==
  \/ reopened
  \/ \E e \in sent : e.status = "unpaid"
  \/ Cardinality({a \in Attempt : stripe[a].status \in Live}) <= 1

\* The grace period is anchored where the account enters past_due: repeated or
\* reordered updates do not extend it.
GraceAnchored ==
  [][account.status = "past_due" /\ account'.status = "past_due"
       => account'.grace = account.grace]_vars

\* docs/BILLING.md:86 "a completed ... attempt must reconcile before another
\* subscription can be created", and only the end of its subscription closes it.
CompletedWaits ==
  [][\A a \in Attempt :
       attempt[a].status = "completed" /\ attempt'[a].status # "completed"
         => attempt'[a].status = "closed" /\ stripe[a].status \in Replaceable]_vars
=============================================================================
