-------------------------- MODULE AnalysisPipeline --------------------------
(***************************************************************************)
(* One paid detection from the HTTP request to the charge: the handler of  *)
(* POST /documents/{id}/analyses (main.py), the Celery task that runs it   *)
(* (celery_app.py) or, in eager mode, the handler itself, the broker       *)
(* between them, the deletion of the document under it, and crashes.       *)
(*                                                                         *)
(* A request makes one job, one row of product quota (ProductUsage) and    *)
(* one row of the provider ledger (ProviderLedger); here each row is its   *)
(* status.  Everything happens within the 24 hours of the duplicate rule.  *)
(* Refusals for budgets or quota are left to the other two modules: any    *)
(* request may be refused.                                                 *)
(***************************************************************************)
EXTENDS Integers, FiniteSets

CONSTANTS
  Request, Doc, Content, Worker,
  DocOf,          \* [Request -> Doc]
  ContentOf,      \* [Doc -> Content], the detection_content_fingerprint
  Modes,          \* the values of JOB_MODE explored, of {"eager", "celery"}
  Deletable,      \* the documents their owner may delete
  ApiMayDie,      \* the API process may die between two of its commits
  TaskMayBeLost,  \* a killed worker child acknowledges its message, or not
  MaxDeliveries   \* bound: times the broker hands one message out

PipelineAssumption ==
  /\ DocOf \in [Request -> Doc] /\ ContentOf \in [Doc -> Content]
  /\ Modes \subseteq {"eager", "celery"} /\ Deletable \subseteq Doc
  /\ MaxDeliveries \in Nat \ {0} /\ "none" \notin Request
ASSUME PipelineAssumption

Open    == {"reserved", "queued"}                     \* statuses of a quota row
Active  == {"reserved", "in_progress"}                \* of a ledger row
Answers == {"success", "failed", "outcome_unknown"}   \* what a call can end as

VARIABLES
  mode,      \* JOB_MODE of the deployment
  document,  \* the documents that exist
  product,   \* [Request -> committed status of its quota row]
  provider,  \* [Request -> status of its ledger row]
  job,       \* [Request -> committed status of its job; "deleted" with its document]
  api,       \* [Request -> where its handler is]
  queue,     \* [Request -> copies of its message the broker holds]
  sent,      \* [Request -> copies the broker has handed out or still holds]
  worker,    \* [Worker -> [pc, req, mark, next]]: mark is the ledger status it is to
             \* write and next what it does then
  posts      \* history: [Request -> POST /task requests made for it]

rows == <<product, provider, job>>
broker == <<queue, sent>>
vars == <<mode, document, rows, api, broker, worker, posts>>

NoTask == [pc |-> "idle", req |-> "none", mark |-> "none", next |-> "none"]

Init ==
  /\ mode \in Modes
  /\ document = Doc
  /\ product = [q \in Request |-> "none"]
  /\ provider = [q \in Request |-> "none"]
  /\ job = [q \in Request |-> "none"]
  /\ api = [q \in Request |-> "idle"]
  /\ queue = [q \in Request |-> 0] /\ sent = [q \in Request |-> 0]
  /\ worker = [w \in Worker |-> NoTask]
  /\ posts = [q \in Request |-> 0]

Content_(q) == ContentOf[DocOf[q]]
Exists(q)   == DocOf[q] \in document
Settle(q, consumed) ==
  product' = IF product[q] \in Open
               THEN [product EXCEPT ![q] = IF consumed THEN "consumed" ELSE "released"]
               ELSE product

-----------------------------------------------------------------------------
(* The handler, up to the point where a worker or itself makes the call.   *)

To(q, pc) == api' = [api EXCEPT ![q] = pc]

\* require_entitlement, get_owned_document, reserve_product_usage.
ReserveUnit(q) ==
  /\ api[q] = "idle" /\ Exists(q)
  /\ product' = [product EXCEPT ![q] = "reserved"]
  /\ To(q, "unit")
  /\ UNCHANGED <<mode, document, provider, job, broker, worker, posts>>

\* The same content may not be sent again, unless the other call was cancelled.
Submitted(q) ==
  \E r \in Request : Content_(r) = Content_(q) /\ provider[r] \in Active \cup Answers
ReserveCall(q) ==
  /\ api[q] = "unit" /\ ~Submitted(q)
  /\ provider' = [provider EXCEPT ![q] = "reserved"]
  /\ To(q, "reserved")
  /\ UNCHANGED <<mode, document, product, job, broker, worker, posts>>

RefuseCall(q) ==
  /\ api[q] = "unit"
  /\ Settle(q, FALSE)
  /\ To(q, "over")
  /\ UNCHANGED <<mode, document, provider, job, broker, worker, posts>>

\* One transaction makes the job and queues the quota row.
\* Fault: the job is named as the frontend shows it.
CommitJobPending(q) ==
  /\ api[q] = "reserved" /\ Exists(q)
  /\ product' = [product EXCEPT ![q] = "queued"]
  /\ job' = [job EXCEPT ![q] = "pending"]
  /\ To(q, "committed")
  /\ UNCHANGED <<mode, document, provider, broker, worker, posts>>
CommitJob(q) ==
  /\ api[q] = "reserved" /\ Exists(q)
  /\ IF mode = "celery"
       THEN /\ product' = [product EXCEPT ![q] = "queued"]
            /\ job' = [job EXCEPT ![q] = "queued"]
       ELSE /\ job' = [job EXCEPT ![q] = "running"]
            /\ UNCHANGED product
  /\ To(q, "committed")
  /\ UNCHANGED <<mode, document, provider, broker, worker, posts>>

\* The document is gone and the foreign key of the analysis refuses the commit.
\* Only the celery branch gives both rows back: the eager commit is outside its try.
CommitFails(q) ==
  /\ api[q] = "reserved" /\ ~Exists(q)
  /\ IF mode = "celery"
       THEN Settle(q, FALSE) /\ provider' = [provider EXCEPT ![q] = "cancelled"]
       ELSE UNCHANGED <<product, provider>>
  /\ To(q, "over")
  /\ UNCHANGED <<mode, document, job, broker, worker, posts>>

Publish(q) ==
  /\ api[q] = "committed" /\ mode = "celery"
  /\ queue' = [queue EXCEPT ![q] = 1] /\ sent' = [sent EXCEPT ![q] = 1]
  /\ To(q, "over")
  /\ UNCHANGED <<mode, document, rows, worker, posts>>

\* The process dies, or the broker refuses the message outside of any try.
ApiDies(q) ==
  /\ ApiMayDie /\ api[q] \notin {"idle", "over"}
  /\ To(q, "over")
  /\ UNCHANGED <<mode, document, rows, broker, worker, posts>>

-----------------------------------------------------------------------------
(* Eager mode: the handler makes the call.                                 *)

EagerPost(q) ==
  /\ api[q] = "committed" /\ mode = "eager"
  /\ posts' = [posts EXCEPT ![q] = @ + 1]
  /\ To(q, "called")
  /\ UNCHANGED <<mode, document, rows, broker, worker>>

\* run_detection refuses before it sends anything (HTTPException); the job's
\* failure is committed last, and lost if the job is deleted.
EagerRefused(q) ==
  /\ api[q] = "committed" /\ mode = "eager"
  /\ Settle(q, FALSE)
  /\ provider' = [provider EXCEPT ![q] = "cancelled"]
  /\ job' = [job EXCEPT ![q] = IF @ = "deleted" THEN @ ELSE "failed"]
  /\ To(q, "over")
  /\ UNCHANGED <<mode, document, broker, worker, posts>>

\* Any other exception: both rows are settled and the job stays as it is.
EagerInterrupted(q) ==
  /\ api[q] \in {"committed", "called"} /\ mode = "eager"
  /\ Settle(q, FALSE)
  /\ provider' = [provider EXCEPT ![q] = "outcome_unknown"]
  /\ To(q, "over")
  /\ UNCHANGED <<mode, document, job, broker, worker, posts>>

\* The ledger row is final in a transaction of its own.
EagerAnswer(q, a) ==
  /\ api[q] = "called"
  /\ provider' = [provider EXCEPT ![q] = a]
  /\ To(q, "answered")
  /\ UNCHANGED <<mode, document, product, job, broker, worker, posts>>

EagerSave(q) ==
  /\ api[q] = "answered"
  /\ IF job[q] = "deleted"
       THEN Settle(q, FALSE) /\ To(q, "over") /\ UNCHANGED job
       ELSE job' = [job EXCEPT ![q] = "completed"] /\ To(q, "saved") /\ UNCHANGED product
  /\ UNCHANGED <<mode, document, provider, broker, worker, posts>>

EagerCharge(q) ==
  /\ api[q] = "saved"
  /\ Settle(q, provider[q] = "success")
  /\ To(q, "over")
  /\ UNCHANGED <<mode, document, provider, job, broker, worker, posts>>

-----------------------------------------------------------------------------
(* The Celery task.  Its outer transaction commits at the end; the ledger  *)
(* row is written in transactions of its own on the way.                   *)

At(w, pc, q) == worker[w].pc = pc /\ worker[w].req = q
Go(w, pc)    == worker' = [worker EXCEPT ![w].pc = pc]
Done(w)      == worker' = [worker EXCEPT ![w] = NoTask]

\* finalize_provider_call or cancel_unused_reservations, then go on with next.
FinalizeCall(w, q, status, next) ==
  worker' = [worker EXCEPT ![w] = [pc |-> "finalize", req |-> q, mark |-> status, next |-> next]]

\* The claimed quota row is locked from its claim to the end of the transaction.
Holds(w) == \/ worker[w].pc \in {"claimed", "document", "call", "waiting"}
            \/ worker[w].pc \in {"finalize", "write"} /\ worker[w].next # "release"
            \/ worker[w].pc \in {"rollback", "fail", "save", "charge"}
RowLocked(q) == \E w \in Worker : worker[w].req = q /\ Holds(w)

Take(w, q) ==
  /\ worker[w].pc = "idle" /\ queue[q] > 0
  /\ queue' = [queue EXCEPT ![q] = @ - 1]
  /\ worker' = [worker EXCEPT ![w] = [NoTask EXCEPT !.pc = "start", !.req = q]]
  /\ UNCHANGED <<mode, document, rows, api, sent, posts>>

\* A terminal or deleted job is ignored: both rows are given up.
Start(w, q) ==
  /\ At(w, "start", q)
  /\ IF job[q] = "queued" THEN Go(w, "claim") ELSE FinalizeCall(w, q, "cancelled", "release")
  /\ UNCHANGED <<mode, document, rows, api, broker, posts>>

\* claim_product_usage, once the row is free.
\* Fault: the row is read without its lock.
ClaimUnitUnlocked(w, q) ==
  /\ At(w, "claim", q)
  /\ IF product[q] = "queued" THEN Go(w, "claimed") ELSE Done(w)
  /\ UNCHANGED <<mode, document, rows, api, broker, posts>>
ClaimUnit(w, q) ==
  /\ At(w, "claim", q) /\ ~RowLocked(q)
  /\ IF product[q] = "queued" THEN Go(w, "claimed") ELSE Done(w)
  /\ UNCHANGED <<mode, document, rows, api, broker, posts>>

\* The document may be gone since the job was read.  The job went with it, so that
\* the transaction that gives the unit back updates no job, fails and rolls back.
ReadDocument(w, q) ==
  /\ At(w, "claimed", q)
  /\ IF Exists(q) THEN Go(w, "document") ELSE FinalizeCall(w, q, "cancelled", "rollback")
  /\ UNCHANGED <<mode, document, rows, api, broker, posts>>

\* get_version raises if the version is gone by now; claim_provider_call lets only
\* one delivery through.
\* Fault: a row that is in progress is claimed again.
ClaimCallAgain(w, q) ==
  /\ At(w, "document", q)
  /\ \/ ~Exists(q) /\ Done(w) /\ UNCHANGED provider
     \/ /\ Exists(q) /\ provider[q] \in Active
        /\ provider' = [provider EXCEPT ![q] = "in_progress"] /\ Go(w, "call")
     \/ /\ Exists(q) /\ provider[q] \notin Active
        /\ FinalizeCall(w, q, "outcome_unknown", "fail") /\ UNCHANGED provider
  /\ UNCHANGED <<mode, document, product, job, api, broker, posts>>
ClaimCall(w, q) ==
  /\ At(w, "document", q)
  /\ \/ ~Exists(q) /\ Done(w) /\ UNCHANGED provider
     \/ /\ Exists(q) /\ provider[q] = "reserved"
        /\ provider' = [provider EXCEPT ![q] = "in_progress"] /\ Go(w, "call")
     \/ /\ Exists(q) /\ provider[q] # "reserved"
        /\ FinalizeCall(w, q, "outcome_unknown", "fail") /\ UNCHANGED provider
  /\ UNCHANGED <<mode, document, product, job, api, broker, posts>>

Post(w, q) ==
  /\ At(w, "call", q)
  /\ posts' = [posts EXCEPT ![q] = @ + 1]
  /\ Go(w, "waiting")
  /\ UNCHANGED <<mode, document, rows, api, broker>>

\* run_detection raised, before it sent anything or after.
Interrupted(w, q) ==
  /\ At(w, "call", q) \/ At(w, "waiting", q)
  /\ FinalizeCall(w, q, "outcome_unknown", "fail")
  /\ UNCHANGED <<mode, document, rows, api, broker, posts>>

Answer(w, q, a) ==
  /\ At(w, "waiting", q)
  /\ FinalizeCall(w, q, a, IF a = "success" THEN "charge" ELSE "save")
  /\ UNCHANGED <<mode, document, rows, api, broker, posts>>

\* The ledger row is read and, if it was active, written: nothing locks it between.
ReadCall(w, q) ==
  /\ At(w, "finalize", q)
  /\ worker' = [worker EXCEPT ![w].pc = "write",
                              ![w].mark = IF provider[q] \in Active THEN @ ELSE "none"]
  /\ UNCHANGED <<mode, document, rows, api, broker, posts>>

WriteCall(w, q) ==
  /\ At(w, "write", q)
  /\ provider' = [provider EXCEPT ![q] = IF worker[w].mark = "none" THEN @ ELSE worker[w].mark]
  /\ worker' = [worker EXCEPT ![w] = [NoTask EXCEPT !.pc = worker[w].next, !.req = q]]
  /\ UNCHANGED <<mode, document, product, job, api, broker, posts>>

\* The ignored delivery waits for the quota row and releases it.
Release(w, q) ==
  /\ At(w, "release", q) /\ ~RowLocked(q)
  /\ Settle(q, FALSE)
  /\ Done(w)
  /\ UNCHANGED <<mode, document, provider, job, api, broker, posts>>

\* The final commit settles the unit with the job, or, if the job was deleted,
\* fails with both.
\* Fault: the charge does not depend on the answer.
ChargeAnyAnswer(w, q) ==
  /\ worker[w].req = q /\ worker[w].pc \in {"rollback", "fail", "save", "charge"}
  /\ IF job[q] = "deleted" THEN UNCHANGED <<product, job>>
     ELSE /\ job' = [job EXCEPT ![q] = IF worker[w].pc = "fail" THEN "failed" ELSE "completed"]
          /\ Settle(q, worker[w].pc # "fail")
  /\ Done(w)
  /\ UNCHANGED <<mode, document, provider, api, broker, posts>>
\* Fault: a failed job leaves its unit queued.
KeepUnitOfFailed(w, q) ==
  /\ worker[w].req = q /\ worker[w].pc \in {"rollback", "fail", "save", "charge"}
  /\ IF job[q] = "deleted" THEN UNCHANGED <<product, job>>
     ELSE /\ job' = [job EXCEPT ![q] = IF worker[w].pc = "fail" THEN "failed" ELSE "completed"]
          /\ IF worker[w].pc = "fail" THEN UNCHANGED product ELSE Settle(q, worker[w].pc = "charge")
  /\ Done(w)
  /\ UNCHANGED <<mode, document, provider, api, broker, posts>>
CommitTask(w, q) ==
  /\ worker[w].req = q /\ worker[w].pc \in {"rollback", "fail", "save", "charge"}
  /\ IF job[q] = "deleted" THEN UNCHANGED <<product, job>>
     ELSE /\ job' = [job EXCEPT ![q] = IF worker[w].pc = "fail" THEN "failed" ELSE "completed"]
          /\ Settle(q, worker[w].pc = "charge")
  /\ Done(w)
  /\ UNCHANGED <<mode, document, provider, api, broker, posts>>

-----------------------------------------------------------------------------
(* What happens around them.                                               *)

\* The owner deletes the document, or its retention ends: jobs and analyses go too.
DeleteDocument(d) ==
  /\ d \in document \cap Deletable
  /\ document' = document \ {d}
  /\ job' = [q \in Request |-> IF DocOf[q] = d /\ job[q] # "none" THEN "deleted" ELSE job[q]]
  /\ UNCHANGED <<mode, product, provider, api, broker, worker, posts>>

\* The worker dies and its transaction rolls back.  Messages are acknowledged
\* late, so the broker hands the message out again.
\* Fault: messages are acknowledged when they are taken.
CrashAcked(w, q) ==
  /\ worker[w].req = q
  /\ Done(w)
  /\ UNCHANGED <<mode, document, rows, broker, api, posts>>
Crash(w, q) ==
  /\ worker[w].req = q
  /\ \/ TaskMayBeLost /\ UNCHANGED broker
     \/ /\ sent[q] < MaxDeliveries
        /\ sent' = [sent EXCEPT ![q] = @ + 1] /\ queue' = [queue EXCEPT ![q] = @ + 1]
  /\ Done(w)
  /\ UNCHANGED <<mode, document, rows, api, posts>>

\* The broker's visibility timeout runs out under a task that is still running.
Redeliver(w, q) ==
  /\ worker[w].req = q /\ sent[q] < MaxDeliveries
  /\ sent' = [sent EXCEPT ![q] = @ + 1] /\ queue' = [queue EXCEPT ![q] = @ + 1]
  /\ UNCHANGED <<mode, document, rows, api, worker, posts>>

Handle(q) ==
  \/ ReserveUnit(q) \/ ReserveCall(q) \/ RefuseCall(q) \/ CommitJob(q) \/ CommitFails(q)
  \/ Publish(q)
  \/ EagerPost(q) \/ EagerRefused(q) \/ EagerInterrupted(q)
  \/ EagerSave(q) \/ EagerCharge(q)
  \/ \E a \in Answers : EagerAnswer(q, a)

Run(w, q) ==
  \/ Start(w, q) \/ ClaimUnit(w, q) \/ ReadDocument(w, q) \/ ClaimCall(w, q)
  \/ Post(w, q) \/ Interrupted(w, q) \/ \E a \in Answers : Answer(w, q, a)
  \/ ReadCall(w, q) \/ WriteCall(w, q) \/ Release(w, q) \/ CommitTask(w, q)

Work(w) == \E q \in Request : Take(w, q) \/ Run(w, q)

Next ==
  \/ \E q \in Request : Handle(q) \/ ApiDies(q)
  \/ \E w \in Worker : Work(w)
  \/ \E d \in Doc : DeleteDocument(d)
  \/ \E w \in Worker, q \in Request : Crash(w, q) \/ Redeliver(w, q)

Spec == Init /\ [][Next]_vars

\* A request that was accepted goes on and a worker that is up works.
FairSpec == /\ Spec
            /\ \A q \in Request : WF_vars(Handle(q))
            /\ \A w \in Worker : WF_vars(Work(w))

-----------------------------------------------------------------------------
Ending == {"release", "rollback", "fail", "save", "charge"}
WorkerPc == Ending \cup {"idle", "start", "claim", "claimed", "document", "call", "waiting",
                        "finalize", "write"}
ApiPc == {"idle", "unit", "reserved", "committed", "called", "answered", "saved", "over"}
TypeOK ==
  /\ mode \in Modes /\ document \subseteq Doc
  /\ product \in [Request -> Open \cup {"none", "consumed", "released"}]
  /\ provider \in [Request -> Active \cup Answers \cup {"none", "cancelled"}]
  /\ job \in [Request -> {"none", "queued", "running", "completed", "failed", "deleted"}]
  /\ api \in [Request -> ApiPc]
  /\ queue \in [Request -> 0..MaxDeliveries] /\ sent \in [Request -> 0..MaxDeliveries]
  /\ worker \in [Worker -> [pc : WorkerPc, req : Request \cup {"none"},
                            mark : Answers \cup {"none", "cancelled"},
                            next : Ending \cup {"none"}]]
  /\ posts \in [Request -> Nat]

\* However often its message is delivered, a request sends its text to the provider
\* at most once.
OnePost == \A q \in Request : posts[q] <= 1

\* A unit is charged only for a call that was made, and whose success the ledger
\* records: neither a crash, nor a second delivery, nor a deletion charges for less.
ChargedForResult ==
  \A q \in Request : product[q] = "consumed" => posts[q] = 1 /\ provider[q] = "success"

\* In celery mode a job that ended has settled its unit with it.
SettledWithJob ==
  \A q \in Request :
    mode = "celery" /\ job[q] \in {"completed", "failed"} => product[q] \notin Open

\* A call under way is not given away: while a worker waits for the provider, its
\* ledger row stays counted, unless the job it runs for was deleted.
CallStaysCounted ==
  \A w \in Worker : worker[w].pc = "waiting" =>
    \/ provider[worker[w].req] \in Active
    \/ job[worker[w].req] = "deleted"

\* A queued unit is charged or given back, if its document stays, no process of the
\* API dies and no message is lost; workers may still crash and be replaced.
QueuedSettles == \A q \in Request : (product[q] = "queued") ~> (product[q] \notin Open)
=============================================================================
