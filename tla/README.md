# Paperlight: verification project

TLA+ models of Paperlight: a FastAPI application and a Celery worker over one
PostgreSQL database, with paid calls to Pangram (AI-writing detection) and DeepSeek
(rewriting), product quotas sold through Stripe, and a Next.js workspace in the browser.
The models are translated from the code under `src/`; `PROJECT.json` gives, for
every definition, the lines it stands for.

## 1. The system

| Component | Code | State it keeps | Operations | What makes it hard |
|---|---|---|---|---|
| Product quota | `billing.py` 57-484 | `billing_accounts`, `product_usage_reservations` | reserve, finalize, queue, claim, expire, summary | concurrent requests, retries with one key, slow and dead requests, month and plan changes |
| Provider ledger | `provider_usage.py` | `provider_usage_events` | reserve (budgets, breaker, duplicates), claim, finalize, cancel, clean up | clocks read before locks, rolling windows, late outcomes, retention |
| Analysis pipeline | `main.py` 425-525, `celery_app.py` | jobs, analysis runs, the broker's messages | request, commit, publish, run, settle, delete | three transactions per task, redelivery, crashes, deletion under a running call |
| Documents and patches | `main.py` 345-422, 528-995, `service.py`, `storage.py`, `billing.py` 253-308 | documents, versions, rewrite sessions, patches, stored objects | create, save, restore, propose, refine, accept, reject, batch, export, delete, retention | decisions that overlap provider calls, stale bases, deletion, files outside the transaction, capacity |
| Rewrite chat | `main.py` 733-902 | row locks, the event loop | message | a lock held across an await |
| Stripe billing | `billing.py` 487-981 | accounts, checkout attempts, webhook events | checkout, portal, webhook | reordered, repeated and late events, a slow checkout against its webhook |
| Accounts | `accounts.py`, `security.py`, `request_limits.py` | members, sessions, limiter windows | register, recover, change password, delete, log in, log out | sessions that must die with a password, requests in flight when an account goes |
| Provider clients | `providers/*.py` | none | submit, poll, retry, validate | answers that never come, no repeat of a paid POST |
| Span mapping, text rules | `detectors.py` 421-608, `text.py`, `lib/text.ts` | none | map ranges, protect tokens | offsets at boundaries |
| Workspace | `Workspace.tsx`, `app/page.tsx`, `lib/api.ts` | draft, dialog, page, request keys | edit, save, navigate, export, ask, decide, restore, delete | calls that fail or lose their answer, another device, a refresh nobody awaits |

Interactions. A detection or rewrite request first takes a unit of *product quota*
(its own transaction), then reserves its calls in the *provider ledger* (another),
then does the work, in the handler (eager mode) or through a job that the worker
runs (Celery mode); the work finalizes the ledger rows as answers come in and
settles the unit at the end. Deleting a document removes its versions, patches,
jobs and analyses at any moment of this. Webhooks change the plan that the quota
reads, and with it the capacity for documents. Deleting an account removes its documents
and sessions. The workspace calls the API and holds the idempotency keys that quota
reservations are found by. Nothing else is shared between the components.

What makes each correct, in a sentence:
* quota: no month ever holds more units in use than the plan in force allowed when
  they were taken, and a unit is charged only by the job it was queued for;
* ledger: no rolling window exceeds its budget, no content is paid for twice a day;
* pipeline: one POST per analysis, a charge if and only if the success is saved,
  nothing left in between for ever;
* documents: a patch changes only the text it was written for, decisions are final,
  an export of AI-assisted text says so;
* Stripe: the account ends in the state of the newest event, one subscription at a
  time;
* accounts: no more of them than allowed, one of two changes made with one credential
  wins, capacity holds, no file is left of nobody;
* workspace: no edit vanishes that was not given up, no repeat in its session is paid for.

`PROJECT.json` lists, under `hazards`, each place where these could go wrong.

## 2. Modules and plan

Done, each module with the proofs about it (section 6):

1. `ProductUsage` (detailed), `QuotaBook` (abstract), `MCProductUsage`,
   `ProductUsageProofs`
2. `ProviderLedger`, `MCProviderLedger`, `ProviderLedgerProofs`
3. `AnalysisPipeline`, `MCAnalysisPipeline`, `AnalysisPipelineProofs`: composes the
   statuses of 1 and 2 with jobs, messages, workers and deletion
4. `DocumentReview`, `MCDocumentReview`, `DocumentReviewProofs`: versions, sessions,
   patches, decisions and deletion, with the row lock of a rewrite message and the event
   loop
5. `StripeBilling`, `MCStripeBilling`, `StripeBillingProofs`: attempts, webhook events,
   grace periods, and Stripe itself
6. `SpanMapping` (pure operators), `ProviderClient`, `MCProviderClient`,
   `ProviderClientProofs`: one call to Pangram or DeepSeek from its first request to what
   it returns
7. `Accounts`, `MCAccounts`, `AccountsProofs`: members, sessions, credentials, capacity,
   and documents with their originals from creation to deletion
8. `Workspace`, `MCWorkspace`, `WorkspaceProofs`: the browser, with the answers of the API

What a module leaves to another is named there: `Accounts` reduces a subscription to
five states of `StripeBilling`; `Workspace` takes the answers of documents and patches
from the same handlers as `DocumentReview`, with one client instead of several, and
that a key is charged once from `ProductUsage`.

Left for later: an abstract `Subscription` that `StripeBilling` implements, and the
protected tokens of `text.py`.

## 3. What each module models

### ProductUsage

One account and one meter limit at a time. `row` is the reservation table, by row
identity (`RowId`: the digest of period, meter and request key); `period` the month;
`call` the requests with what each of them has read so far; `view` a billing summary
between its read and its commit. Requests go through `Arrive` (the digest is
computed, with the month of that moment), `Examine` (under the account lock:
expiry of stale rows, count), `Admit`/`RejectQuota`/`RejectDuplicate` and then
`FinalizeHeld`, or `QueueUsage` and the worker's `ClaimUsage`, `Settle`, `Rollback`,
`IgnoreDelivery`. `Age` lets an open row pass the expiry limit, only for requests
that are dead unless `SlowCalls`; `NextMonth`, plan changes and crashes happen at
any time. The worker's status `running` is never visible outside its transaction and
is therefore a place (`call.pc`) with a row lock, not a row status.

`QuotaBook` is what the table promises: units are taken, charged or given back, a
month at a time, never beyond the limit. Given back may be a unit that is held, and one
that somebody saw held long enough to expire it: the expiry is written later, whatever
became of the unit since (section 5), and the book calls such a unit `doomed` from that
read on. `ImplementsBook` says that nothing else frees a unit.

### ProviderLedger

`event` is the ledger (a deleted row keeps its fields as history), `batch` the callers
of `reserve_provider_calls` between reading the clock (`Ask`) and being granted the
locks (`Reserve`, `Refuse`), `now` the clock in ticks. A refusal rolls its clean-up
back. `Newer`, `Latest`, `Trips` are the breaker; ties in the order are broken either
way. Cancelled rows are counted by no query and lose their times in the model.
SQLite, which takes no advisory lock, is not modelled: production requires PostgreSQL.

### AnalysisPipeline

Per request: the committed status of its quota row (`product`), ledger row
(`provider`) and job; where its handler is (`api`); the messages the broker holds.
Per worker: where its task is. The task's outer transaction holds the quota row's
lock from `ClaimUnit` to its end and publishes its writes only in `CommitTask`; the
ledger is written on the way by `ClaimCall` and by `ReadCall`/`WriteCall`, which are
two steps because the code reads and writes the row without a lock. A crash discards
the outer transaction and nothing else. `posts` counts the requests to Pangram.
The day of the duplicate rule does not pass here, and budgets are left to
`ProviderLedger`: any request may be refused.

### DocumentReview

One document. `text` is the sequence of its versions, each the set of patches whose
revisions it contains; `session` and `patch` are the two tables; `req` holds the
requests that take more than one step and what they have read, `loop` which request
blocks the event loop of a process. Handlers under the document's lock are one step
(`Save`, `RestoreVersion`, `DecideBatch`). `Accept` reads the patch first
(`ReadPatch`), then locks and reads the document; `Reject` never locks. A message
(`Message`) keeps its session's row locked until `Propose` or `NoProposal`; a second
one waits for the row inside its database call (`WaitForSession`), on its event loop.
The first pass holds no lock and compares the version when it stores its batch.
Deletion is two steps because its statements take the locks of patches, then of
sessions, then of the document; a database deadlock with it has either victim
(`Conflict`, `NoProposal`, `FailDelete`). `took` is history: which version the
acceptance of a patch created.

### StripeBilling

One account. An attempt's number also names the session, the customer and the
subscription that come of it. A checkout request reads the account (`ReadAccount`),
finds the newest attempt under the account's lock (`ResumeCheckout`, `NewCheckout`),
calls Stripe without a lock and then opens the attempt (`SaveCheckout`). Events are
handled in any order, each in one transaction under the account's lock; a repeated
delivery is a step that changes nothing and a failed one is not yet handled. `refused`
are the events recorded with an `error_code`: a mismatch or a conflict with the
customer or the live subscription of the account. `Settled` are the subscription events
that were processed and not refused; the evidence for Pro and the agreement with Stripe
are about these. `Pay`, `Lapse`, `Change` are Stripe's; what Stripe may do to a subscription is
the constant `Moves`. `ViewAccount`/`CommitView` are the readers that end a
grace period. One assumption about Stripe bounds the model: an event arrives before
the session it is about has lapsed (a day). `reopened` is history: an answer was saved over
an attempt that a webhook had ended, which is what `stripe_completed` finds.

`OneLive` holds until that happens or Stripe leaves a subscription unpaid. Both break it in
the code. After the first, a request that read the account before the payment goes on
when the session has lapsed and sells a second subscription. An unpaid subscription
closes its attempt, so that another may be sold, and can be paid later.

### ProviderClient

One call, of one of three kinds: a detection, a rewrite message, a first pass. `http`
is the request that `request_json_with_retry` is making (`Send`, `Answer`, with the
sleep between two attempts in ticks), `pc` which request it is, or where the call is
between two. Each `...Done` action is what the caller makes of a request that is
over. `sent` counts the paid requests, `task` is Pangram's task, which ends in its own
time (`TaskEnds`) or never, `left` what remains of the polling deadline; a poll may use
up any part of it. `usage` is the status of the two ledger rows of a rewrite, with the
cancellation of the unused one in the handler's `finally` clause (`End`). `read` keeps
what the provider wrote, `result` what the caller gets. Both are data, reduced to
what the checks tell apart: a row of a draft is its passage, whether it is well
formed, whether it keeps the protected tokens and whether it changes anything; the
fields of a report other than its text and its windows are one flag, `sound`.

Providers are external: an answer has any status, with or without `Retry-After`, a
timed out or unreadable one may or may not have made a task, and a body is good or
bad in the ways the code distinguishes. One of these is a body that is JSON but no
object, after which the use of a sent completion is never observed; see the hazards.
Another is one that Python cannot read on with (nested too deep, a number that is
infinite): the exception is not the adapter's own, and the call fails without the
reference of its task (`FailsUnexpectedly`). After a 5xx of any kind, one that is never
retried (501, 520) too, a task may or may not have been made.
The local mock providers call nobody and are not modelled.

### SpanMapping

How Pangram's windows over the text it analysed become spans of the paragraphs it was
sent: `BoundaryMap` with Python's rounding, `Remap` and `RemapSafe` with what makes the
code raise, `Spans`. A text is a sequence of characters (`Char`) in which all white
space is alike. The list of the characters that are not white space, which the code
pairs in both texts, is given by how many there are up to a boundary (`ContentCount`)
and by where the k-th of them stands (`ContentAt`): the gap that a boundary lies in, and
its first and last boundary (`GapStart`, `GapEnd`), follow from the count. The
reference, `MarkedByProvider` and `MarkedHere`, counts the characters that are not white
space and knows nothing of boundaries.

### Accounts

`account` and `session` are tables; a session stores an identity, which `session_identity`
computes from the user's id and a fingerprint of the password hash. A credential is a
version number, because every change hashes with a new salt. A call authenticates and commits
(`Authenticate`), then its handler works whatever becomes of the session. A login has
three steps because the account is read twice and the session inserted later. The row of a
user is locked from `LockUser` on, by recovery, password change and deletion; the row of
a billing account from `Count` on, after `EnsureAccount` has read the plan. If the account
was deleted between the two there is no row to lock and the request goes on, as in the
code. `PutOriginal` and the removals empty or fill the object store before the database
commits; `Crash` strikes there. `CleanUp` is the retention, which any listing of
documents and each start runs. `Checkout` and `Webhook` are the five states of
`StripeBilling` on which a deletion and the capacity depend. The limiters, the sign-in
of the deployment's owner, session expiry, consent and audit records are left out.

### Workspace

`page` is what is mounted, with the document, version and draft it shows; `dialog` the
open dialog; `job` the operation that `run` lets through, with what its click captured and
the call it is at; `late` the refreshes that `onDeleted` started. `Show` is the effect that
resets the draft when another document or version is put on the page. The editor is closed while
an operation runs or a dialog is open. A text is the set of edits it holds, `owed` is
history: the edits typed and not given up, by discarding, confirming a deletion, restoring
another device's version, or reloading against the browser's warning. A call fails by being
refused, by not arriving, or by being carried out with its answer lost (`Call(FALSE)`),
and another device may restore or delete; `MaxTrouble` bounds the last two.

Messages are asked for in a rewrite session, which is of one version and is begun by a call
of its own (`createSession`); sessions and patches have ids, of which `MaxIds` bounds the
number. A message refines the patch on the page or goes on in the session that the page
knows; opening another version or document, a save and a first pass reset what the page
knows. A paid call is taken up (`Admitted`: a unit is reserved, and a message holds the row
of its session), waits for the provider, and is then carried out (`CarriedOut`): a message
leaves its patch in place of the one it refines, a first pass a batch beside whatever waits.
The page may give up on it before or after it was taken up (`GiveUp`), and it then begins,
ends or fails whenever it does (`adrift`), even after the page has gone.
`key` holds the names of the operations whose request key has a unit at the server, reserved
or charged, under the name that `Workspace.tsx:221`, `:254` and `:276` give them.
`product_request_key` (`billing.py:243`) takes the browser's key as it is. `paid` and `once`
are history, and know nothing of names or keys: what was asked for (a version, or a session
and the patch that is refined) and charged without an answer seen, and whether anything was
charged a second time. The expiry of a unit that a crash left reserved is modelled in
`ProductUsage` and not here. Other calls than the paid ones are carried out while the page
waits for them or never.

Not modelled: the billing and account panels (they open over the workspace and
change nothing in it), the creation form, an ended session, selection and scope. All
messages carry one instruction. A proposal for an older version than the current one can
only be refused and is dropped. A reload drops the operation under way.

## 4. Runs

| Run | Expect | Shows |
|---|---|---|
| `quota_retry` | pass | with retries, plan and month changes, crashes, slow calls and summaries: `WithinQuota`, its inductive strengthening `ReserveInv`, `AdmitWithinPlan`, `ChargedByItsJob`, and that the table implements `QuotaBook` |
| `ledger` | pass | `BudgetsHold`, `NoRepeat` |
| `pipeline` | pass | `OnePost`, `ChargedForResult`, `SettledWithJob`, `CallStaysCounted` with everything that can fail |
| `pipeline_live` | pass | `QueuedSettles` |
| `review` | pass | `AppliedToBase`, `OnePending`, `NothingOutlives` with three overlapping requests on two processes |
| `review_export` | violation | an acceptance is overwritten by a decision that read the patch before it; the export says nothing |
| `review_chat` | violation | two messages to one session stop their event loop |
| `stripe` | pass | `ProHasEvidence`, `Converges`, `OneLive`, `GraceAnchored` under every order of events, with overlapping checkouts and unpaid subscriptions |
| `stripe_completed` | violation | the slower of two overlapping checkouts reopens the paid attempt |
| `provider` | pass | `OneSubmission`, `UsageSettled`, `ApprovedOnly`, `CallsEnd` for every answer of the provider; `MarksTheSameText` for every report of the instance |
| `accounts` | pass | `AccountCap`, `OneWinner`, `WithinCapacity`, `FilesBelong`, and `LeftoversGo`, for every three requests of ten kinds |
| `workspace` | pass | `DraftHolds`, `PaidOnce` whatever fails, is lost, is given up or overlaps |

The longest is `quota_retry` (0.8 million states, two to three minutes on two cores);
`workspace`, `accounts`, `stripe` and `pipeline` take one to two minutes, the others less. Direct consumption, by the eager
handler and by rewrites, is not in the scenarios of `quota_retry`, whose requests are
queued; the proofs of section 6 cover it.

Bounds. `ProductUsage`: three requests, two sharing a key, so that one row is
released, taken again and re-queued while a third competes for the second unit of
Pro (quotas 1 and 2); two months, so that every read can fall on either side of the
change. `ProviderLedger`: four calls of two owners; a tick is longer than an hour and
the day is one tick, so that rows can be inside the hour, inside the day, and past
both; two ticks after the first let the content of a call be sent again.
`AnalysisPipeline`: two requests for the same content and two workers are the least
that overlap; three deliveries let a message be handed out while two others are
lost or running. `DocumentReview`: three requests let a decision overlap a message and
another decision; three patches make a batch of two next to a single proposal; three
versions are a base, its successor and one restored or saved after it. `StripeBilling`:
two requests, which may overlap at every step; two attempts, so that an old subscription
can disturb a new one; three changes of state, enough to fall past due, be left unpaid and
be paid again, or to end and begin anew; two seconds, so that events are reordered and tied
and a grace period of one tick begins and ends. With three seconds (12 million states), and
with three attempts and two changes (4 million), it passes too. `ProviderClient`: two paragraphs, one with a
space inside it, and seven texts that keep, shrink, grow or drop white space, join the
paragraphs, or change a character, each with every window and every pair of quotes of
it; a `Retry-After` below, at and one above its limit of two ticks; three ticks of
polling, so that polls end early, at and after the deadline; two passages, with drafts
and verdicts of up to two rows that repeat, swap, miss or invent an id. `Accounts`: all
triples of the ten requests, so that any two may race while a third prepares or disturbs
them; a member who holds a place and a name, one free place, a newcomer of the same name
and two of others; three documents, of which the plans allow one or two; sizes that fill a plan
exactly and overfill it. `Workspace`: two documents and one edit; the first
has room for one more version and for three sessions and patches, so that a message is
repeated, refined and begun anew in another session, or a batch comes to wait beside a patch;
the second has room for two more versions, a save and one restored after it, and its messages
are refused; one lost answer, call given up or act of another device. With a third version of the
first document and only the first of the other the run passes too. More of any kind
repeats these situations.

Deadlock is not checked: the models are finite scenarios that end.

Fairness is assumed in four runs. In `review_chat` every request that its locks and
its event loop let run goes on, so that only the deadlock can stop it. In `provider`
the handler runs on and httpx ends each request, with an answer or an error (its read
timeout is per chunk, so that an answer which drips in for ever is assumed away);
Pangram's task owes nothing and may stay pending. In `accounts` handlers run on,
retention periods end, and somebody lists documents or the API starts again now and then.
In `pipeline_live`: weakly fair
handlers (the event loop
runs them) and weakly fair workers (a worker takes a message it can take and goes on;
the provider answers or times out, since polling has a deadline). Crashes and
redeliveries are not fair. The run excludes what the code does not recover from: the
death of the API between commit and publication, a message acknowledged for a killed
child process, and the deletion of the document. Each of these leaves a unit queued
for ever, because queued rows do not expire by age; see the hazards.

## 5. Findings

* `review_export`: `Reject` and `Propose` write a patch's status by its key, over an
  acceptance; the export looks only at the statuses, against
  `docs/PUBLIC_LAUNCH.md:33`.
* `review_chat`: the lock that serializes messages is waited for on the event loop that
  has to release it, against the comment at `main.py:743`.
* `stripe_completed`: the answer of a checkout is saved over the webhook's status,
  against `docs/BILLING.md:86`.

Seen in variants that are not among the runs:

* A queued unit is released by a late delivery of an earlier job of its row
  (`celery_app.py:47`, `billing.py:376`), or by a billing summary that read the row as
  stale and commits after it was queued (`billing.py:211`), although
  `docs/BILLING.md:52` says that queued units are bound to their job and that only
  unqueued ones expire. Both are steps of `ProductUsage`; the second is the only reason for the
  `doomed` units of `QuotaBook`; the quota and the charges hold with them.
* After a worker's death and the deletion of the document, the redelivered task records the
  call that was under way as cancelled; another document with the same content
  is then sent within the day, against `docs/SECURITY.md:36`.
* A checkout that commits between the look for attempts and the commit of an account's
  deletion (`accounts.py:202`) goes with the billing row (`ON DELETE CASCADE`), although the
  comment at `accounts.py:200` says that payment records are not erased.
* After a downgrade with more documents than Free allows even saves are refused (402),
  although `docs/BILLING.md:48` says that editing stays available.
* A creation in flight when its account is deleted leaves a document, and a new billing row,
  until the retention removes the document (`LeftoversGo`). An original that was put before a crash
  stays in the store for good (`lost`).
* A login verifies the password against one read of the account (`accounts.py:80`) and takes
  the identity from a second one (`security.py:123`): after a change of the password in
  between, the login with the old password has a session for the new one. Both reads are steps
  of `Accounts`; no property claims that a session follows the password.
* The refresh after a deletion is not awaited (`Workspace.tsx:346`, `page.tsx:119`): the author
  may cancel the dialog that is still open and type, and the refresh then replaces the page.
  `DraftHolds` leaves edits typed in that time out.
* The workspace is not remounted for another document and a deletion does not close its dialog:
  after the refresh the same dialog asks about, and its button deletes, the document shown next.
* A message whose answer was lost is repeated under its first key only in the same session.
  After another document was opened (`Workspace.tsx:99`) or a first pass was made
  (`Workspace.tsx:283`) the page no longer knows the session; the repeat begins a new one,
  has another name and another key (`Workspace.tsx:254`), and is charged beside the first.
  `PaidOnce` says that each session's message is charged once and does not cover it. A repeat in
  the next month is charged as well, since the month is part of the digest (`billing.py:304`).
* A message asked for with a dirty draft while a patch is shown is named after that patch
  (`Workspace.tsx:254`), and its repeat, after the save, is named `first` and has another key.
  It is not charged twice all the same: the save began a session, in which the server refuses
  a second first message while the patch of the first waits, and the row of the session keeps
  the two from overlapping (`main.py:746`, `main.py:777`). `PaidOnce` counts requests, not
  names, so it says this too. It ends with the rejection of the patch.
* A number such as `Infinity` in the report of a task that succeeded raises `OverflowError`
  (`detectors.py:363`, `detectors.py:381`), and the failure that is stored names no task
  (`detectors.py:735`), although the detection was made and is billed. `OneSubmission`
  allows it, by the code `provider_failed`.
* All subscriptions of an account share one time stamp of the last event
  (`billing.py:842`), so the end of an unpaid subscription that is
  newer than the start of its successor, or of the same second, hides that start, and the successor stays Free
  until its next event. `Converges` leaves this case out. Such an end also closes the attempt of the
  successor (`billing.py:934`), since it looks for the newest completed one of the account.

## 6. Proofs

`tlapm` checks all of it. A theorem holds for every value of the constants that satisfies
the assumptions of its module; the run that checks the property shows it on one instance.
Every inductive invariant below was checked by TLC on a small instance before it was proved.

| Theorem | Property | Rests on |
|---|---|---|
| `ProductUsageProofs` | | |
| `ReserveInvariant`, `QuotaRespected` | `ReserveInv`, `WithinQuota` | the count under the lock |
| `AdmissionsFit`, `ChargesBelongToJobs` | `AdmitWithinPlan`, `ChargedByItsJob` | `ReserveInv` |
| `KeepsTheBook` | `ImplementsBook` | a refinement mapping, step by step |
| `ProviderLedgerProofs` | | |
| `BudgetsRespected`, `NoRepeats` | `BudgetsHold`, `NoRepeat` | `PastOnly` |
| `AnalysisPipelineProofs` | | |
| `PostsOnce`, `ChargesResults`, `SettlesWithJob`, `CountsCalls` | `OnePost`, `ChargedForResult`, `SettledWithJob`, `CallStaysCounted` | `Stage`, `Task`, `OneHolder` |
| `DocumentReviewProofs` | | |
| `AppliesToBase`, `PendsOnce`, `DeletesAll` | `AppliedToBase`, `OnePending`, `NothingOutlives` | `Rows`, `Fresh`, `Requests`, `Single` |
| `StripeBillingProofs` | | |
| `AnchorsGrace` | `GraceAnchored` | `Anchored` |
| `ProRestsOnEvidence`, `ConvergesToStripe` | `ProHasEvidence`, `Converges` | `Told`, `Books` |
| `LivesOnce` | `OneLive` | `Told`, `Orderly` |
| `ProviderClientProofs` | | |
| `SubmitsOnce`, `SettlesUsage`, `ReturnsApproved` | `OneSubmission`, `UsageSettled`, `ApprovedOnly` | `Wire`, `Detects`, `Rewrites`, `Pending` |
| `MapKeeps`, `ReportMaps` | of every two texts, of every report | counts of characters |
| `MarksWhatPangramMarked` | `MarksTheSameText` | `MapKeeps`, `SpansMark`, `ReportMaps` |
| `AccountsProofs` | | |
| `CapsAccounts`, `OneWins`, `FilesBelongTo` | `AccountCap`, `OneWinner`, `FilesBelong` | `Members`, `Files` |
| `KeepsCapacity` | `WithinCapacity` | `Quota` |
| `WorkspaceProofs` | | |
| `HoldsDrafts` | `DraftHolds` | `Safe \/ AtRisk`, `Clicked` |
| `PaysOnce` | `PaidOnce` | `Booked` |

Each of these modules proves its `TypeOK` too (`TypeCorrect`). Why the properties are not
inductive, and what makes them so:

* `ProductUsage`: a request that has counted the rows and not yet inserted its own relies
  on nobody adding one meanwhile. `ReserveInv` says that such a request holds the account
  lock and that what it counted is still an upper bound. Steps are sorted into those that
  only take rows out of the count (`Shrinks`, `Releases`) and the few that can add one.
  For the refinement each step is shown to be a step of `QuotaBook` or none; a unit is
  doomed while a summary or a request that read it as stale has not written its expiry.
* `ProviderLedger`: counted rows are not from the future, deleted ones are more than a
  day old, a waiting caller's clock is in the past (`PastOnly`). Every step other than
  `Reserve` drops rows (`Drops`), and a window that contains the new rows reaches no
  further back than the cutoff they were counted from.
* `AnalysisPipeline`: before its message is out only its handler touches a request's rows
  (`Stage`); afterwards a worker that claimed the quota row holds its lock to the end of
  its transaction, so that one of them at most is on the way to the provider
  (`OneHolder`); what a worker knows of the rows (`Task`) survives what other
  deliveries, crashes and deletions do to them.
* `DocumentReview`: a session never changes until it is deleted, so that a patch keeps the
  base it was proposed on. A message at the provider holds its session's lock, which keeps
  other messages and the deletion out. Decisions hold no such lock, but only take patches
  out of the pending ones (`Calmer`).
* `StripeBilling`: nothing is assumed of the requests or of what Stripe does. `Told` says
  what the events that were sent tell of each subscription. `Books` says that the account
  rests on a settled event (of its own subscription, unless that may be replaced), and that
  no settled event outranks it. `Orderly` holds of `Regular` states, in which no answer was
  saved over an ended attempt and nothing was left unpaid: all attempts before the newest are
  expired or closed (`After`), a closed one has ended at Stripe with no event to come that the
  account would not find old (`Placed`), what has ended stays so (`Finals`). `Regular` is
  monotone, so a step only has to be followed from one such state to another.
* `ProviderClient`: for every place a call may be at, what it has sent, whether Pangram
  may hold its task, and which reservations are settled. `ApprovedOnly` is about data: the
  changed rows stand at increasing places of the draft (`Changed`), and the items of a
  verdict answer for the passages one to one, because there are as many.
  `MarksTheSameText` holds of whatever Pangram reports, so its proof is about the operators
  of `SpanMapping` and the invariant adds only that no other action writes such a result.
  Everything is said by counts of characters that are not white space. A range has the
  k-th of them if k is above the count at its start and not above the one at its end
  (`Between`). A boundary keeps its count when it is mapped, because a rounded share of a
  gap stays inside the gap (`RoundKeeps`, `MapKeeps`), and keeps its order with the others;
  so the moved windows mark the same characters (`MarksMove`), quote the same content
  (`WindowSame`) and stay apart (`WindowsApart`), and a window with a character in it stays
  non-empty (`WindowHolds`). In the joined text each paragraph stands at its offset with
  white space between two (`Document`), the count at its offset is the number of characters
  of the paragraphs before (`Numbering`), and so the spans mark what the windows do
  (`SpansMark`). The only checks of a valid report that can still fail are those for a
  window with no character in it (`ReportMaps`).
* `Accounts`: one request registers at a time, and the account it will insert is nobody's;
  the row of a user is locked by one request, so that what it has verified cannot change
  under it (`Members`). What a request
  removes has a row and, once it says so, no original; what it has put in the store is of
  an id of its own (`Files`). Who has counted the documents of a member holds the row of
  its billing account to the commit, unless the member is being deleted, and a save the
  row of its document, so that what was counted still fits (`Room`): what another step can
  take is documents, never a lock or room (`Undisturbed`). The bytes of a member are a sum
  over a set, a fold in one order: that the order does not matter, and that less is left of
  fewer documents, is proved from a smallest set for which it fails (`SumsAny`,
  `SizeShrinks`).
* `Workspace`: an edit is `Safe` in a version of a stored document, or `AtRisk`: in the
  draft on the screen, with no answer under way that would replace it, and the operation
  that runs, if any, saves this very draft, leaves it alone, or deletes its document. That a
  request is not charged twice rests on the key for an analysis or a first pass (`Keyed`),
  and for a message on the server as well (`Spent`): the patch it refined waits no more, or
  its session has one that waits, or its version is superseded. `Booked` adds that a call
  that runs under a held key has its unit and is not charged yet (`Unpaid`), that no two run
  in one session or under one held key (`Distinct`), and that patches have ids that were given
  (`Current`), so that a superseded patch never waits again.

Assumptions are the constants' types, finiteness where something is counted, and what
`config.py` enforces at start (quotas positive and ordered, retention of at least a day);
`MaxDeliveries` is at least one, since a broker delivers a message at least once; "none"
is no request, patch or session; `Drafts` and `Verdicts` are sets of sequences, and
`Reports` of records with a text and a sequence of windows whose bounds are integers
(`_integer`), in range or not. TLC evaluates them in the runs.

The least or greatest element of a set of numbers (the newest attempt, the places of the
changed rows, the size of a smallest counterexample) is found by the well-founded order of
the natural numbers (`WFMin`), which needs no induction. A recursive function (`Offset`,
`DocumentText`, `Changed`, the numbers of `MarkedHere`) is shown to exist, up to each length,
in the same way, and then reasoned about by its equation. Other facts are the library's,
about finite sets and cardinality.

Only model-checked are `QueuedSettles`, `CallsEnd` and `LeftoversGo`: liveness under
fairness is out of the prover's reach. Every safety property of a passing run is a theorem.

The three expected violations have no theorem.

## 7. Not modelled

The login limiter and the body limit (sequential, in the memory of one process), the sign-in
of the deployment's owner, session expiry, entitlements, the local mock providers, word counts
and the splitting into paragraphs, DOCX parsing and layout, prompts, UI rendering, audit
records, product events, start-up checks and migrations (their bounds appear as
assumptions), the benchmark and the operator scripts, which share no state with the
running system. Two sequences that the code does not recover from are in the models and in
no property, because no document promises anything else: a document deleted while its task
reads it keeps its unit queued (`celery_app.py:51`), and a detection that is queued for longer
than the time limit of its reservation runs beside a newer one (`provider_usage.py:110`).
