----------------------- MODULE AnalysisPipelineProofs -----------------------
(***************************************************************************)
(* Why a request posts its text once and is charged only for its result,   *)
(* for any requests, documents, workers and number of deliveries.  The     *)
(* argument: before its message is out only its handler touches a          *)
(* request's rows (Stage); afterwards a worker that claimed the quota row  *)
(* holds its lock to the end of its transaction, so one of them at most    *)
(* is on the way to the provider (OneHolder), and what each worker knows   *)
(* of the rows (Task) survives what deliveries of a job that is gone,      *)
(* crashes and deletions do to them meanwhile.                             *)
(***************************************************************************)
EXTENDS AnalysisPipeline, TLAPS

\* What a request's rows are while its handler is at work, or once its message is out.
Stage(q) ==
  /\ api[q] = "idle" => product[q] = "none"
  /\ api[q] \in {"unit", "reserved"} => product[q] = "reserved" /\ job[q] = "none"
  /\ api[q] \in {"idle", "unit"} => provider[q] = "none" /\ job[q] = "none"
  /\ api[q] \in {"reserved", "committed", "called"} => provider[q] = "reserved"
  /\ api[q] \in {"idle", "unit", "reserved", "committed"} => posts[q] = 0
  /\ api[q] = "committed" => IF mode = "celery" THEN product[q] = "queued" /\ job[q] \in {"queued", "deleted"}
                                                 ELSE product[q] = "reserved"
  /\ api[q] \in {"called", "answered", "saved"} =>
       mode = "eager" /\ product[q] = "reserved" /\ posts[q] = 1
  /\ queue[q] <= sent[q]
  /\ sent[q] > 0 => /\ mode = "celery" /\ api[q] = "over"
                    /\ product[q] \notin {"none", "reserved"} /\ job[q] \notin {"none", "running"}
                    /\ provider[q] = "reserved" => posts[q] = 0
                    /\ product[q] = "queued" => job[q] \in {"queued", "deleted"}
                    /\ job[q] \in {"completed", "failed"} => provider[q] \notin Active
  /\ mode = "celery" /\ job[q] \in {"completed", "failed"} => sent[q] > 0
  /\ posts[q] <= 1
  /\ product[q] = "consumed" => posts[q] = 1 /\ provider[q] = "success"

\* What a worker that handles a message of request q knows of its rows.
Task(w, q) ==
  LET pc == worker[w].pc  next == worker[w].next  mark == worker[w].mark
      gone == job[q] = "deleted" IN
  /\ pc # "idle" /\ sent[q] > 0
  /\ Holds(w) => product[q] = "queued"
  /\ pc = "call" => posts[q] = 0
  /\ pc \in {"call", "waiting"} => provider[q] # "reserved" /\ (provider[q] = "in_progress" \/ gone)
  /\ pc \in {"finalize", "write"} =>
       /\ next \in Ending
       /\ next = "charge" => posts[q] = 1
       /\ next = "release" => job[q] # "queued"
  /\ pc = "waiting" => posts[q] = 1
  /\ pc = "finalize" =>
       /\ mark # "none"
       /\ next = "release" => mark = "cancelled"
       /\ next = "charge" => mark = "success" /\ (provider[q] = "in_progress" \/ gone)
  /\ pc = "write" =>
       /\ mark = "none" => provider[q] \notin Active
       /\ next = "charge" => mark = "success" \/ gone
       /\ next = "release" /\ mark # "none" => mark = "cancelled" /\ gone /\ product[q] # "consumed"
  /\ pc \in Ending => provider[q] \notin Active
  /\ pc = "release" => job[q] # "queued"
  /\ pc = "charge" => posts[q] = 1 /\ (provider[q] = "success" \/ gone)

\* The quota row's lock: no two workers hold the row of one request.
OneHolder ==
  \A v, w \in Worker : Holds(v) /\ Holds(w) /\ worker[v].req = worker[w].req => v = w

\* The inductive invariant.  TypeOK alone is not inductive: a worker's next place is
\* what it noted before, and the broker's copies are bounded by those it handed out.
IInv ==
  /\ TypeOK
  /\ \A q \in Request : Stage(q)
  /\ \A w \in Worker : worker[w].req = "none" => worker[w] = NoTask
  /\ \A w \in Worker, q \in Request : worker[w].req = q => Task(w, q)
  /\ OneHolder
-----------------------------------------------------------------------------
TaskRecord == [pc : WorkerPc, req : Request \cup {"none"},
               mark : Answers \cup {"none", "cancelled"}, next : Ending \cup {"none"}]

USE DEF Open, Active, Answers, Ending

\* A worker that goes on changes nothing but its place.
LEMMA Went ==
  ASSUME TypeOK, NEW w \in Worker, NEW pc \in WorkerPc, Go(w, pc)
  PROVE  /\ worker' \in [Worker -> TaskRecord]
         /\ worker'[w].pc = pc /\ worker'[w].req = worker[w].req
         /\ worker'[w].mark = worker[w].mark /\ worker'[w].next = worker[w].next
         /\ \A v \in Worker : v # w => worker'[v] = worker[v]
<1>1. worker \in [Worker -> TaskRecord]
  BY DEF TypeOK, TaskRecord
<1>2. worker' = [worker EXCEPT ![w] = [worker[w] EXCEPT !.pc = pc]]
  BY DEF Go
<1>3. [worker[w] EXCEPT !.pc = pc] \in TaskRecord
  BY <1>1 DEF TaskRecord
<1> QED BY <1>1, <1>2, <1>3 DEF TaskRecord

\* A worker that is given a task does that one, and the others are not disturbed.
LEMMA Given ==
  ASSUME TypeOK, NEW w \in Worker, NEW t \in TaskRecord, worker' = [worker EXCEPT ![w] = t]
  PROVE  /\ worker' \in [Worker -> TaskRecord] /\ worker'[w] = t
         /\ \A v \in Worker : v # w => worker'[v] = worker[v]
BY DEF TypeOK, TaskRecord

\* An idle worker's record is one.
LEMMA NoTaskShape == NoTask \in TaskRecord
BY DEF NoTask, TaskRecord, WorkerPc

\* What a worker that reads the ledger row takes along, and what it does after writing it.
LEMMA Read ==
  ASSUME TypeOK, NEW w \in Worker, NEW q \in Request, ReadCall(w, q)
  PROVE  /\ worker' \in [Worker -> TaskRecord]
         /\ worker'[w].pc = "write" /\ worker'[w].req = q /\ worker'[w].next = worker[w].next
         /\ worker'[w].mark = IF provider[q] \in Active THEN worker[w].mark ELSE "none"
         /\ \A v \in Worker : v # w => worker'[v] = worker[v]
<1> DEFINE m == IF provider[q] \in Active THEN worker[w].mark ELSE "none"
           t == [worker[w] EXCEPT !.pc = "write", !.mark = m]
<1>1. worker[w] \in TaskRecord /\ worker[w].req = q
  BY DEF TypeOK, TaskRecord, ReadCall, At
<1>2. m \in Answers \cup {"none", "cancelled"}
  BY <1>1 DEF TaskRecord
<1>3. worker' = [worker EXCEPT ![w] = t]
  BY DEF ReadCall, TypeOK
<1> HIDE DEF m
<1>4. t \in TaskRecord /\ t.pc = "write" /\ t.mark = m /\ t.req = q /\ t.next = worker[w].next
  BY <1>1, <1>2 DEF TaskRecord, WorkerPc
<1> QED BY <1>3, <1>4, Given DEF m

\* A worker that wrote the ledger row goes where it noted to go.
LEMMA Written ==
  ASSUME TypeOK, NEW w \in Worker, NEW q \in Request, WriteCall(w, q),
         worker[w].next \in Ending
  PROVE  /\ worker' \in [Worker -> TaskRecord]
         /\ worker'[w].pc = worker[w].next /\ worker'[w].req = q
         /\ \A v \in Worker : v # w => worker'[v] = worker[v]
<1> DEFINE t == [NoTask EXCEPT !.pc = worker[w].next, !.req = q]
<1>1. worker' = [worker EXCEPT ![w] = t]
  BY DEF WriteCall
<1>2. t \in TaskRecord /\ t.pc = worker[w].next /\ t.req = q
  BY NoTaskShape DEF TaskRecord, WorkerPc
<1> QED BY <1>1, <1>2, Given


\* Settling gives a quota row one of its statuses and leaves the others alone.
LEMMA Settled ==
  ASSUME TypeOK, NEW q \in Request, NEW c \in BOOLEAN, Settle(q, c)
  PROVE  /\ product' \in [Request -> Open \cup {"none", "consumed", "released"}]
         /\ product'[q] = IF product[q] \in Open THEN IF c THEN "consumed" ELSE "released"
                          ELSE product[q]
         /\ \A r \in Request : r # q => product'[r] = product[r]
BY DEF TypeOK, Settle

\* A handler is at one of its places.
LEMMA Moved ==
  ASSUME TypeOK, NEW q \in Request, NEW pc \in ApiPc, To(q, pc)
  PROVE  /\ api' \in [Request -> ApiPc] /\ api'[q] = pc
         /\ \A r \in Request : r # q => api'[r] = api[r]
BY DEF TypeOK, To

\* The first state has the shape of the others.
LEMMA InitType == Init => TypeOK
BY PipelineAssumption, NoTaskShape DEF PipelineAssumption, Init, TypeOK, TaskRecord, ApiPc

\* Every step of a handler keeps the shape of the state.
LEMMA HandlerType ==
  ASSUME TypeOK, NEW q \in Request, Handle(q) \/ ApiDies(q)
  PROVE  TypeOK'
<1> USE PipelineAssumption DEF PipelineAssumption, rows, broker
<1>1. ASSUME ReserveUnit(q) PROVE TypeOK'
  BY <1>1, Moved DEF ReserveUnit, TypeOK, ApiPc
<1>2. ASSUME ReserveCall(q) PROVE TypeOK'
  BY <1>2, Moved DEF ReserveCall, TypeOK, ApiPc
<1>3. ASSUME RefuseCall(q) PROVE TypeOK'
  BY <1>3, Moved, Settled DEF RefuseCall, TypeOK, ApiPc
<1>4. ASSUME CommitJob(q) PROVE TypeOK'
  BY <1>4, Moved DEF CommitJob, TypeOK, ApiPc
<1>5. ASSUME CommitFails(q) PROVE TypeOK'
  <2>1. CASE mode = "celery"
    <3>1. Settle(q, FALSE)
      BY <1>5, <2>1 DEF CommitFails
    <3>2. product' \in [Request -> Open \cup {"none", "consumed", "released"}]
      BY <3>1, Settled
    <3>3. /\ provider' \in [Request -> Active \cup Answers \cup {"none", "cancelled"}]
          /\ api' \in [Request -> ApiPc]
      BY <1>5, <2>1, Moved DEF CommitFails, TypeOK, ApiPc
    <3> QED BY <1>5, <3>2, <3>3 DEF CommitFails, TypeOK
  <2>2. CASE mode # "celery"
    BY <1>5, <2>2, Moved DEF CommitFails, TypeOK, ApiPc
  <2> QED BY <2>1, <2>2
<1>6. ASSUME Publish(q) PROVE TypeOK'
  BY <1>6, Moved DEF Publish, TypeOK, ApiPc
<1>7. ASSUME EagerPost(q) PROVE TypeOK'
  BY <1>7, Moved DEF EagerPost, TypeOK, ApiPc
<1>8. ASSUME EagerRefused(q) PROVE TypeOK'
  BY <1>8, Moved, Settled DEF EagerRefused, TypeOK, ApiPc
<1>9. ASSUME EagerInterrupted(q) PROVE TypeOK'
  BY <1>9, Moved, Settled DEF EagerInterrupted, TypeOK, ApiPc
<1>10. ASSUME EagerSave(q) PROVE TypeOK'
  <2>1. CASE job[q] = "deleted"
    BY <1>10, <2>1, Moved, Settled DEF EagerSave, TypeOK, ApiPc
  <2>2. CASE job[q] # "deleted"
    BY <1>10, <2>2, Moved DEF EagerSave, TypeOK, ApiPc
  <2> QED BY <2>1, <2>2
<1>11. ASSUME EagerCharge(q) PROVE TypeOK'
  BY <1>11, Moved, Settled DEF EagerCharge, TypeOK, ApiPc
<1>12. ASSUME NEW a \in Answers, EagerAnswer(q, a) PROVE TypeOK'
  BY <1>12, Moved DEF EagerAnswer, TypeOK, ApiPc
<1>13. ASSUME ApiDies(q) PROVE TypeOK'
  BY <1>13, Moved DEF ApiDies, TypeOK, ApiPc
<1> QED BY <1>1, <1>2, <1>3, <1>4, <1>5, <1>6, <1>7, <1>8, <1>9, <1>10, <1>11, <1>12, <1>13 DEF Handle

\* Every step of a worker keeps the shape of the state: it knows what to do after
\* writing the ledger row, and the broker holds no more copies than it handed out.
LEMMA WorkerType ==
  ASSUME IInv, NEW w \in Worker, NEW q \in Request,
         Take(w, q) \/ Run(w, q) \/ Crash(w, q) \/ Redeliver(w, q)
  PROVE  TypeOK'
<1> USE PipelineAssumption DEF PipelineAssumption, rows, broker, TaskRecord
<1>0. TypeOK /\ queue[q] <= sent[q] /\ (worker[w].req = q => Task(w, q))
  BY DEF IInv, Stage
<1> USE <1>0
<1>1. ASSUME Take(w, q) PROVE TypeOK'
  <2>1. [NoTask EXCEPT !.pc = "start", !.req = q] \in TaskRecord
    BY NoTaskShape DEF WorkerPc
  <2> QED BY <1>1, <2>1, Given DEF Take, TypeOK
<1>2. ASSUME NEW s \in Answers \cup {"cancelled"}, NEW n \in Ending,
             FinalizeCall(w, q, s, n)
      PROVE  worker' \in [Worker -> TaskRecord]
  <2>1. [pc |-> "finalize", req |-> q, mark |-> s, next |-> n] \in TaskRecord
    BY DEF WorkerPc
  <2> QED BY <1>2, <2>1, Given DEF FinalizeCall
<1>3. ASSUME Done(w) PROVE worker' \in [Worker -> TaskRecord]
  BY <1>3, NoTaskShape, Given DEF Done
<1>4. ASSUME Start(w, q) PROVE TypeOK'
  BY <1>4, <1>2, Went DEF Start, TypeOK, WorkerPc
<1>5. ASSUME ClaimUnit(w, q) PROVE TypeOK'
  BY <1>5, <1>3, Went DEF ClaimUnit, TypeOK, WorkerPc
<1>6. ASSUME ReadDocument(w, q) PROVE TypeOK'
  BY <1>6, <1>2, Went DEF ReadDocument, TypeOK, WorkerPc
<1>7. ASSUME ClaimCall(w, q) PROVE TypeOK'
  <2>1. worker' \in [Worker -> TaskRecord]
    BY <1>7, <1>2, <1>3, Went DEF ClaimCall, WorkerPc
  <2> QED BY <1>7, <2>1 DEF ClaimCall, TypeOK
<1>8. ASSUME Post(w, q) PROVE TypeOK'
  BY <1>8, Went DEF Post, TypeOK, WorkerPc
<1>9. ASSUME Interrupted(w, q) PROVE TypeOK'
  BY <1>9, <1>2 DEF Interrupted, TypeOK
<1>10. ASSUME NEW a \in Answers, Answer(w, q, a) PROVE TypeOK'
  BY <1>10, <1>2 DEF Answer, TypeOK
<1>11. ASSUME ReadCall(w, q) PROVE TypeOK'
  BY <1>11, Read DEF ReadCall, TypeOK
<1>12. ASSUME WriteCall(w, q) PROVE TypeOK'
  <2>1. worker[w].next \in Ending
    BY <1>12 DEF WriteCall, At, Task
  <2>2. worker[w].mark \in Answers \cup {"none", "cancelled"}
    BY DEF TypeOK
  <2> QED BY <1>12, <2>1, <2>2, Written DEF WriteCall, TypeOK
<1>13. ASSUME Release(w, q) PROVE TypeOK'
  BY <1>13, <1>3, Settled DEF Release, TypeOK
<1>14. ASSUME CommitTask(w, q) PROVE TypeOK'
  <2>1. CASE job[q] = "deleted"
    BY <1>14, <2>1, <1>3 DEF CommitTask, TypeOK
  <2>2. CASE job[q] # "deleted"
    <3>1. PICK c \in BOOLEAN : Settle(q, c)
      BY <1>14, <2>2 DEF CommitTask
    <3> QED BY <1>14, <2>2, <3>1, <1>3, Settled DEF CommitTask, TypeOK
  <2> QED BY <2>1, <2>2
<1>15. ASSUME Crash(w, q) PROVE TypeOK'
  <2>1. queue' \in [Request -> 0..MaxDeliveries] /\ sent' \in [Request -> 0..MaxDeliveries]
    BY <1>15 DEF Crash, TypeOK
  <2> QED BY <1>15, <2>1, <1>3 DEF Crash, TypeOK
<1>16. ASSUME Redeliver(w, q) PROVE TypeOK'
  BY <1>16 DEF Redeliver, TypeOK
<1> QED BY <1>1, <1>4, <1>5, <1>6, <1>7, <1>8, <1>9, <1>10, <1>11, <1>12, <1>13, <1>14, <1>15, <1>16
        DEF Run

-----------------------------------------------------------------------------
\* Nothing of request r changes but, maybe, its worker.
Same(r) ==
  /\ mode' = mode /\ product'[r] = product[r] /\ provider'[r] = provider[r] /\ job'[r] = job[r]
  /\ api'[r] = api[r] /\ queue'[r] = queue[r] /\ sent'[r] = sent[r] /\ posts'[r] = posts[r]

\* What is not touched stays as it is.
LEMMA StageFrame ==
  ASSUME NEW r \in Request, Same(r), Stage(r)
  PROVE  Stage(r)'
BY DEF Same, Stage

\* What a worker knows of rows that are not touched stays true.
LEMMA TaskFrame ==
  ASSUME NEW r \in Request, NEW w \in Worker, Same(r), worker'[w] = worker[w], Task(w, r)
  PROVE  Task(w, r)'
BY DEF Same, Task, Holds

\* A handler's request has no message out, and the handler touches no other request.
LEMMA HandlerStep ==
  ASSUME IInv, NEW q \in Request, Handle(q) \/ ApiDies(q)
  PROVE  IInv'
<1> USE PipelineAssumption DEF PipelineAssumption, rows, broker
<1>0. TypeOK /\ Stage(q)
  BY DEF IInv
<1> USE <1>0
<1> DEFINE Product(v) == product'[q] = v /\ \A r \in Request : r # q => product'[r] = product[r]
<1>a. Settle(q, FALSE) => Product(IF product[q] \in Open THEN "released" ELSE product[q])
  BY Settled
<1> DEFINE Kept == Stage(q)' /\ worker' = worker /\ \A r \in Request : r # q => Same(r)
<1> USE DEF Same, Stage
<1>1. ASSUME ReserveUnit(q) PROVE Kept
  BY <1>1, Moved DEF ReserveUnit, TypeOK, ApiPc
<1>2. ASSUME ReserveCall(q) PROVE Kept
  BY <1>2, Moved DEF ReserveCall, TypeOK, ApiPc
<1>3. ASSUME RefuseCall(q) PROVE Kept
  BY <1>3, <1>a, Moved DEF RefuseCall, TypeOK, ApiPc
<1>4. ASSUME CommitJob(q) PROVE Kept
  BY <1>4, Moved DEF CommitJob, TypeOK, ApiPc
<1>5. ASSUME CommitFails(q) PROVE Kept
  <2>1. CASE mode = "celery"
    BY <1>5, <1>a, <2>1, Moved DEF CommitFails, TypeOK, ApiPc
  <2>2. CASE mode # "celery"
    BY <1>5, <2>2, Moved DEF CommitFails, TypeOK, ApiPc
  <2> QED BY <2>1, <2>2
<1>6. ASSUME Publish(q) PROVE Kept
  BY <1>6, Moved DEF Publish, TypeOK, ApiPc
<1>7. ASSUME EagerPost(q) PROVE Kept
  BY <1>7, Moved DEF EagerPost, TypeOK, ApiPc
<1>8. ASSUME EagerRefused(q) PROVE Kept
  BY <1>8, <1>a, Moved DEF EagerRefused, TypeOK, ApiPc
<1>9. ASSUME EagerInterrupted(q) PROVE Kept
  BY <1>9, <1>a, Moved DEF EagerInterrupted, TypeOK, ApiPc
<1>10. ASSUME EagerSave(q) PROVE Kept
  <2>1. CASE job[q] = "deleted"
    BY <1>10, <1>a, <2>1, Moved DEF EagerSave, TypeOK, ApiPc
  <2>2. CASE job[q] # "deleted"
    BY <1>10, <2>2, Moved DEF EagerSave, TypeOK, ApiPc
  <2> QED BY <2>1, <2>2
<1>11. ASSUME EagerCharge(q) PROVE Kept
  <2>1. product[q] = "reserved" /\ api[q] = "saved" /\ To(q, "over")
    BY <1>11 DEF EagerCharge
  <2>2. Product(IF provider[q] = "success" THEN "consumed" ELSE "released")
    BY <1>11, <2>1, Settled DEF EagerCharge
  <2> QED BY <1>11, <2>1, <2>2, Moved DEF EagerCharge, TypeOK, ApiPc
<1>12. ASSUME NEW a \in Answers, EagerAnswer(q, a) PROVE Kept
  BY <1>12, Moved DEF EagerAnswer, TypeOK, ApiPc
<1>13. ASSUME ApiDies(q) PROVE Kept
  BY <1>13, Moved DEF ApiDies, TypeOK, ApiPc
<1>14. Kept
  <2> HIDE DEF Kept
  <2> QED BY <1>1, <1>2, <1>3, <1>4, <1>5, <1>6, <1>7, <1>8, <1>9, <1>10, <1>11, <1>12, <1>13 DEF Handle
<1>15. api[q] # "over"
  BY DEF Handle, ReserveUnit, ReserveCall, RefuseCall, CommitJob, CommitFails, Publish, EagerPost,
         EagerRefused, EagerInterrupted, EagerSave, EagerCharge, EagerAnswer, ApiDies
<1>16. ~(sent[q] > 0)
  BY <1>15
<1> HIDE DEF Same, Stage
<1>17. TypeOK'
  BY HandlerType
<1>18. \A r \in Request : Stage(r)'
  BY <1>14, StageFrame DEF IInv
<1>19. ASSUME NEW w \in Worker, NEW r \in Request, worker'[w].req = r PROVE Task(w, r)'
  <2>1. Task(w, r) /\ worker'[w] = worker[w]
    BY <1>14, <1>19 DEF IInv
  <2>2. r # q
    BY <1>16, <2>1 DEF Task
  <2> QED BY <1>14, <2>1, <2>2, TaskFrame
<1>20. OneHolder' /\ \A w \in Worker : worker'[w].req = "none" => worker'[w] = NoTask
  BY <1>14 DEF IInv, OneHolder, Holds
<1> QED BY <1>17, <1>18, <1>19, <1>20 DEF IInv

\* What a step of worker w on request q has to show: of the request's own rows, of
\* the worker, and of the other workers that handle a copy of the same message.
LEMMA WorkerFrame ==
  ASSUME IInv, NEW w \in Worker, NEW q \in Request, TypeOK',
         worker[w].req \in {q, "none"},
         \A r \in Request : r # q => Same(r),
         \A v \in Worker : v # w => worker'[v] = worker[v],
         Stage(q)',
         worker'[w] = NoTask \/ (worker'[w].req = q /\ Task(w, q)'),
         \A v \in Worker : v # w /\ worker[v].req = q => Task(v, q)',
         Holds(w)' => Holds(w) \/ ~RowLocked(q)
  PROVE  IInv'
<1> USE PipelineAssumption DEF PipelineAssumption
<1>1. \A r \in Request : Stage(r)'
  BY StageFrame DEF IInv
<1>2. ASSUME NEW v \in Worker, worker'[v].req = "none" PROVE worker'[v] = NoTask
  BY <1>2 DEF IInv
<1>3. ASSUME NEW v \in Worker, NEW r \in Request, worker'[v].req = r PROVE Task(v, r)'
  <2>1. CASE v = w
    BY <1>3, <2>1 DEF NoTask
  <2>2. CASE v # w /\ r = q
    BY <1>3, <2>2
  <2>3. CASE v # w /\ r # q
    BY <1>3, <2>3, TaskFrame DEF IInv
  <2> QED BY <2>1, <2>2, <2>3
<1>4. ASSUME NEW v \in Worker, v # w, worker'[v].req = worker'[w].req, Holds(v)', Holds(w)'
      PROVE  FALSE
  <2>1. worker'[v] = worker[v] /\ Holds(v)
    BY <1>4 DEF Holds
  <2>2. worker'[w].req = q /\ worker[v].req = q
    BY <1>4, <2>1 DEF NoTask, Holds
  <2>3. Holds(w)
    BY <1>4, <2>1, <2>2 DEF RowLocked
  <2>4. worker[w].req = q
    BY <2>3 DEF IInv, Holds, NoTask
  <2> QED BY <1>4, <2>1, <2>2, <2>3, <2>4 DEF IInv, OneHolder
<1>5. ASSUME NEW u \in Worker, NEW v \in Worker, worker'[v].req = worker'[u].req,
             Holds(v)', Holds(u)'
      PROVE  u = v
  <2>1. CASE u = w \/ v = w
    BY <1>4, <1>5, <2>1
  <2>2. CASE u # w /\ v # w
    BY <1>5, <2>2 DEF IInv, OneHolder, Holds
  <2> QED BY <2>1, <2>2
<1>6. OneHolder'
  BY <1>5 DEF OneHolder
<1> QED BY <1>1, <1>2, <1>3, <1>6 DEF IInv

\* A step that changes nothing but what worker w is at.
LEMMA PrivateFrame ==
  ASSUME IInv, NEW w \in Worker, NEW q \in Request, TypeOK', worker[w].req = q,
         UNCHANGED <<mode, document, rows, api, broker, posts>>,
         \A v \in Worker : v # w => worker'[v] = worker[v],
         worker'[w] = NoTask \/ (worker'[w].req = q /\ Task(w, q)'),
         Holds(w)' => Holds(w) \/ ~RowLocked(q)
  PROVE  IInv'
<1>1. \A r \in Request : Same(r)
  BY DEF Same, rows, broker
<1>2. Stage(q)'
  BY <1>1, StageFrame DEF IInv
<1>3. \A v \in Worker : v # w /\ worker[v].req = q => Task(v, q)'
  BY <1>1, TaskFrame DEF IInv
<1> QED BY <1>1, <1>2, <1>3, WorkerFrame

\* A worker that knows what the ledger row is to become.
LEMMA Finalizing ==
  ASSUME TypeOK, NEW w \in Worker, NEW q \in Request, NEW a \in Answers \cup {"cancelled"},
         NEW n \in Ending, FinalizeCall(w, q, a, n)
  PROVE  /\ worker'[w].pc = "finalize" /\ worker'[w].req = q
         /\ worker'[w].mark = a /\ worker'[w].next = n
         /\ \A v \in Worker : v # w => worker'[v] = worker[v]
BY DEF FinalizeCall, TypeOK

\* A worker that is done knows nothing and holds nothing.
LEMMA Idle ==
  ASSUME TypeOK, NEW w \in Worker, Done(w)
  PROVE  worker'[w] = NoTask /\ ~Holds(w)' /\ \A v \in Worker : v # w => worker'[v] = worker[v]
BY DEF Done, TypeOK, Holds, NoTask

\* The steps of a worker that change no row.
LEMMA PrivateStep ==
  ASSUME IInv, NEW w \in Worker, NEW q \in Request,
         \/ Start(w, q) \/ ClaimUnit(w, q) \/ ReadDocument(w, q) \/ Interrupted(w, q)
         \/ ReadCall(w, q) \/ \E a \in Answers : Answer(w, q, a)
  PROVE  IInv'
<1>1. TypeOK' /\ TypeOK
  BY WorkerType DEF Run, IInv
<1>2. worker[w].req = q /\ UNCHANGED <<mode, document, rows, api, broker, posts>>
  BY DEF Start, ClaimUnit, ReadDocument, Interrupted, ReadCall, Answer, At
<1>3. Stage(q) /\ Task(w, q)
  BY <1>2 DEF IInv
<1>4. UNCHANGED <<mode, product, provider, job, api, queue, sent, posts>>
  BY <1>2 DEF rows, broker
<1> USE <1>3, <1>4 DEF Stage, Task, Holds, At, WorkerPc
<1> DEFINE Fine == /\ \A v \in Worker : v # w => worker'[v] = worker[v]
                   /\ worker'[w] = NoTask \/ (worker'[w].req = q /\ Task(w, q)')
                   /\ Holds(w)' => Holds(w) \/ ~RowLocked(q)
<1>5. ASSUME Start(w, q) PROVE Fine
  BY <1>1, <1>5, Went, Finalizing DEF Start
<1>6. ASSUME ClaimUnit(w, q) PROVE Fine
  BY <1>1, <1>6, Went, Idle DEF ClaimUnit
<1>7. ASSUME ReadDocument(w, q) PROVE Fine
  BY <1>1, <1>7, Went, Finalizing DEF ReadDocument
<1>8. ASSUME Interrupted(w, q) PROVE Fine
  BY <1>1, <1>8, Finalizing DEF Interrupted
<1>9. ASSUME ReadCall(w, q) PROVE Fine
  <2>1. worker[w].pc = "finalize" /\ worker[w].req = q
    BY <1>9 DEF ReadCall
  <2>2. provider[q] \in Active /\ worker[w].next = "release" => job[q] = "deleted" /\ product[q] # "consumed"
    BY <1>1, <2>1 DEF TypeOK
  <2>3. Task(w, q)' /\ worker'[w].req = q
    BY <1>1, <1>9, <2>1, <2>2, Read
  <2>4. Holds(w)' => Holds(w)
    BY <1>1, <1>9, <2>1, Read
  <2> QED BY <1>1, <1>9, <2>3, <2>4, Read
<1>10. ASSUME NEW a \in Answers, Answer(w, q, a) PROVE Fine
  <2>1. CASE a = "success"
    BY <1>1, <1>10, <2>1, Finalizing DEF Answer
  <2>2. CASE a # "success"
    BY <1>1, <1>10, <2>2, Finalizing DEF Answer
  <2> QED BY <2>1, <2>2
<1> HIDE DEF Fine
<1>11. Fine
  BY <1>5, <1>6, <1>7, <1>8, <1>9, <1>10
<1> QED BY <1>1, <1>2, <1>11, PrivateFrame DEF Fine

\* A worker that holds the quota row shares it with no other worker.
LEMMA Alone ==
  ASSUME IInv, NEW w \in Worker, NEW q \in Request, worker[w].req = q, Holds(w) \/ ~RowLocked(q)
  PROVE  \A v \in Worker : v # w /\ worker[v].req = q => ~Holds(v)
BY DEF IInv, OneHolder, RowLocked

\* The steps of a worker that change a row of its request or ask for it again.
LEMMA RowStep ==
  ASSUME IInv, NEW w \in Worker, NEW q \in Request,
         \/ Take(w, q) \/ ClaimCall(w, q) \/ Post(w, q) \/ WriteCall(w, q) \/ Release(w, q)
         \/ CommitTask(w, q) \/ Crash(w, q) \/ Redeliver(w, q)
  PROVE  IInv'
<1>1. TypeOK' /\ TypeOK
  BY WorkerType DEF Run, IInv
<1>2. worker[w].req \in {q, "none"} /\ Stage(q) /\ (worker[w].req = q => Task(w, q))
  <2>1. Take(w, q) => worker[w].pc = "idle"
    BY DEF Take
  <2>2. ~Take(w, q) => worker[w].req = q
    BY DEF ClaimCall, Post, WriteCall, Release, CommitTask, Crash, Redeliver, At
  <2>3. worker[w].req \in Request \cup {"none"}
    BY <1>1 DEF TypeOK
  <2> QED BY <2>1, <2>2, <2>3 DEF IInv, Task
<1>3. \A v \in Worker : v # w /\ worker[v].req = q => Task(v, q)
  BY DEF IInv
<1> DEFINE Fine == /\ \A r \in Request : r # q => Same(r)
                   /\ \A v \in Worker : v # w => worker'[v] = worker[v]
                   /\ Stage(q)'
                   /\ worker'[w] = NoTask \/ (worker'[w].req = q /\ Task(w, q)')
                   /\ \A v \in Worker : v # w /\ worker[v].req = q => Task(v, q)'
                   /\ Holds(w)' => Holds(w) \/ ~RowLocked(q)
<1> USE DEF rows, broker
<1>4. ASSUME Take(w, q) PROVE Fine
  <2>1. worker'[w].pc = "start" /\ worker'[w].req = q /\ \A v \in Worker : v # w => worker'[v] = worker[v]
    BY <1>1, <1>4 DEF Take, TypeOK, NoTask
  <2>2. queue[q] > 0 /\ queue'[q] = queue[q] - 1
    BY <1>1, <1>4 DEF Take, TypeOK
  <2>3. \A r \in Request : r # q => Same(r)
    BY <1>1, <1>4 DEF Take, TypeOK, Same
  <2>4. Stage(q)'
    BY <1>1, <1>2, <1>4, <2>2 DEF Take, TypeOK, Stage
  <2>5. sent[q] > 0
    BY <1>1, <1>2, <2>2 DEF Stage, TypeOK
  <2>6. Task(w, q)' /\ ~Holds(w)'
    BY <1>4, <2>1, <2>5 DEF Take, Task, Holds
  <2>7. \A v \in Worker : v # w /\ worker[v].req = q => Task(v, q)'
    BY <1>3, <1>4, <2>1 DEF Take, Task, Holds
  <2> QED BY <2>1, <2>3, <2>4, <2>6, <2>7
<1>5. ASSUME ClaimCall(w, q) PROVE Fine
  <2>0. At(w, "document", q) /\ Task(w, q) /\ Holds(w)
    BY <1>2, <1>5 DEF ClaimCall, At, Holds
  <2>1. CASE ~Exists(q) /\ Done(w) /\ UNCHANGED provider
    <3>1. \A r \in Request : Same(r)
      BY <1>5, <2>1 DEF ClaimCall, Same
    <3> QED BY <1>1, <1>2, <1>3, <2>1, <3>1, Idle, StageFrame, TaskFrame
  <2>2. CASE Exists(q) /\ provider[q] # "reserved" /\ UNCHANGED provider
             /\ FinalizeCall(w, q, "outcome_unknown", "fail")
    <3>1. \A r \in Request : Same(r)
      BY <1>5, <2>2 DEF ClaimCall, Same
    <3>2. Task(w, q)' /\ worker'[w].req = q
      BY <1>1, <2>0, <2>2, <3>1, Finalizing DEF Task, Same, Holds
    <3> QED BY <1>1, <1>2, <1>3, <2>0, <2>2, <3>1, <3>2, Finalizing, StageFrame, TaskFrame
  <2>3. CASE Exists(q) /\ provider[q] = "reserved" /\ Go(w, "call")
             /\ provider' = [provider EXCEPT ![q] = "in_progress"]
    <3>1. \A r \in Request : r # q => Same(r)
      BY <1>1, <1>5, <2>3 DEF ClaimCall, Same, TypeOK
    <3>2. worker'[w].pc = "call" /\ worker'[w].req = q /\ \A v \in Worker : v # w => worker'[v] = worker[v]
      BY <1>1, <2>0, <2>3, Went DEF At, WorkerPc
    <3>3. provider'[q] = "in_progress"
      BY <1>1, <2>3 DEF TypeOK
    <3>4. Stage(q)'
      BY <1>2, <1>5, <2>0, <2>3, <3>3 DEF ClaimCall, Stage, Task
    <3>5. Task(w, q)'
      BY <1>2, <1>5, <2>0, <2>3, <3>2, <3>3 DEF ClaimCall, Stage, Task, Holds
    <3>6. ASSUME NEW v \in Worker, v # w, worker[v].req = q PROVE Task(v, q)'
      <4>1. Task(v, q) /\ ~Holds(v) /\ worker'[v] = worker[v]
        BY <1>2, <1>3, <2>0, <3>2, <3>6, Alone DEF At
      <4> QED BY <1>5, <2>3, <3>3, <4>1 DEF ClaimCall, Task, Holds
    <3> QED BY <2>0, <3>1, <3>2, <3>4, <3>5, <3>6
  <2> QED BY <1>5, <2>1, <2>2, <2>3 DEF ClaimCall
<1>6. ASSUME Post(w, q) PROVE Fine
  <2>0. At(w, "call", q) /\ Task(w, q) /\ Holds(w)
    BY <1>2, <1>6 DEF Post, At, Holds
  <2>1. \A r \in Request : r # q => Same(r)
    BY <1>1, <1>6 DEF Post, Same, TypeOK
  <2>2. worker'[w].pc = "waiting" /\ worker'[w].req = q /\ \A v \in Worker : v # w => worker'[v] = worker[v]
    BY <1>1, <1>6, <2>0, Went DEF Post, At, WorkerPc
  <2>3. posts[q] = 0 /\ posts'[q] = 1
    BY <1>1, <1>6, <2>0 DEF Post, TypeOK, Task, At
  <2>4. Stage(q)'
    BY <1>2, <1>6, <2>0, <2>3 DEF Post, Stage, Task, At
  <2>5. Task(w, q)'
    BY <1>6, <2>0, <2>2, <2>3 DEF Post, Task, Holds, At
  <2>6. ASSUME NEW v \in Worker, v # w, worker[v].req = q PROVE Task(v, q)'
    <3>1. Task(v, q) /\ ~Holds(v) /\ worker'[v] = worker[v]
      BY <1>2, <1>3, <2>0, <2>2, <2>6, Alone DEF At
    <3> QED BY <1>6, <3>1 DEF Post, Task, Holds
  <2> QED BY <2>0, <2>1, <2>2, <2>4, <2>5, <2>6
<1>7. ASSUME WriteCall(w, q) PROVE Fine
  <2>0. At(w, "write", q) /\ Task(w, q) /\ worker[w].next \in Ending
    BY <1>2, <1>7 DEF WriteCall, At, Task
  <2>1. \A r \in Request : r # q => Same(r)
    BY <1>1, <1>7 DEF WriteCall, Same, TypeOK
  <2>2. /\ worker'[w].pc = worker[w].next /\ worker'[w].req = q
        /\ \A v \in Worker : v # w => worker'[v] = worker[v]
    BY <1>1, <1>7, <2>0, Written
  <2>3. provider'[q] = IF worker[w].mark = "none" THEN provider[q] ELSE worker[w].mark
    BY <1>1, <1>7 DEF WriteCall, TypeOK
  <2>4. provider'[q] \notin Active /\ worker[w].mark \in Answers \cup {"none", "cancelled"}
    BY <1>1, <2>0, <2>3 DEF Task, TypeOK, At
  <2>5. worker[w].mark # "none" => product[q] # "consumed" /\ (Holds(w) \/ job[q] = "deleted")
    BY <2>0 DEF Task, At, Holds
  <2>6. Stage(q)'
    BY <1>2, <1>7, <2>0, <2>3, <2>4, <2>5 DEF WriteCall, Stage, Task
  <2>7. Task(w, q)' /\ (Holds(w)' => Holds(w))
    BY <1>7, <2>0, <2>2, <2>3, <2>4 DEF WriteCall, Task, Holds, At
  <2>8. ASSUME NEW v \in Worker, v # w, worker[v].req = q PROVE Task(v, q)'
    <3>1. Task(v, q) /\ worker'[v] = worker[v]
      BY <1>3, <2>2, <2>8
    <3>2. CASE worker[w].mark = "none"
      BY <1>7, <2>3, <3>1, <3>2 DEF WriteCall, Task, Holds
    <3>3. CASE worker[w].mark # "none" /\ job[q] = "deleted"
      BY <1>7, <2>4, <3>1, <3>3 DEF WriteCall, Task, Holds
    <3>4. CASE worker[w].mark # "none" /\ Holds(w)
      <4>1. ~Holds(v)
        BY <2>0, <2>8, <3>4, Alone DEF At
      <4> QED BY <1>7, <2>4, <3>1, <4>1 DEF WriteCall, Task, Holds
    <3> QED BY <2>5, <3>2, <3>3, <3>4
  <2> QED BY <2>1, <2>2, <2>6, <2>7, <2>8
<1>8. ASSUME Release(w, q) PROVE Fine
  <2>0. At(w, "release", q) /\ Task(w, q) /\ ~RowLocked(q)
    BY <1>2, <1>8 DEF Release, At
  <2>1. /\ product'[q] = IF product[q] \in Open THEN "released" ELSE product[q]
        /\ \A r \in Request : r # q => product'[r] = product[r]
    BY <1>1, <1>8, Settled DEF Release
  <2>2. worker'[w] = NoTask /\ ~Holds(w)' /\ \A v \in Worker : v # w => worker'[v] = worker[v]
    BY <1>1, <1>8, Idle DEF Release
  <2>3. \A r \in Request : r # q => Same(r)
    BY <1>8, <2>1 DEF Release, Same
  <2>4. Stage(q)'
    BY <1>2, <1>8, <2>0, <2>1 DEF Release, Stage, Task
  <2>5. ASSUME NEW v \in Worker, v # w, worker[v].req = q PROVE Task(v, q)'
    <3>1. Task(v, q) /\ ~Holds(v) /\ worker'[v] = worker[v]
      BY <1>3, <2>0, <2>2, <2>5, Alone DEF At
    <3> QED BY <1>8, <2>1, <3>1 DEF Release, Task, Holds
  <2> QED BY <2>2, <2>3, <2>4, <2>5
<1>9. ASSUME CommitTask(w, q) PROVE Fine
  <2>0. /\ worker[w].pc \in {"rollback", "fail", "save", "charge"} /\ worker[w].req = q
        /\ Task(w, q) /\ Holds(w)
    BY <1>2, <1>9 DEF CommitTask, Holds
  <2>1. worker'[w] = NoTask /\ ~Holds(w)' /\ \A v \in Worker : v # w => worker'[v] = worker[v]
    BY <1>1, <1>9, Idle DEF CommitTask
  <2>2. CASE job[q] = "deleted"
    <3>1. \A r \in Request : Same(r)
      BY <1>9, <2>2 DEF CommitTask, Same
    <3> QED BY <1>2, <1>3, <2>1, <3>1, StageFrame, TaskFrame
  <2>3. CASE job[q] # "deleted"
    <3>1. product[q] = "queued" /\ provider[q] \notin Active
      BY <2>0 DEF Task
    <3>2. /\ product'[q] = IF worker[w].pc = "charge" THEN "consumed" ELSE "released"
          /\ \A r \in Request : r # q => product'[r] = product[r]
      BY <1>1, <1>9, <2>3, <3>1, Settled DEF CommitTask
    <3>3. job'[q] \in {"completed", "failed"} /\ \A r \in Request : r # q => job'[r] = job[r]
      BY <1>1, <1>9, <2>3 DEF CommitTask, TypeOK
    <3>4. \A r \in Request : r # q => Same(r)
      BY <1>9, <3>2, <3>3 DEF CommitTask, Same
    <3>5. Stage(q)'
      BY <1>2, <1>9, <2>0, <2>3, <3>1, <3>2, <3>3 DEF CommitTask, Stage, Task
    <3>6. ASSUME NEW v \in Worker, v # w, worker[v].req = q PROVE Task(v, q)'
      <4>1. Task(v, q) /\ ~Holds(v) /\ worker'[v] = worker[v]
        BY <1>3, <2>0, <2>1, <3>6, Alone
      <4> QED BY <1>9, <2>3, <3>1, <3>2, <3>3, <4>1 DEF CommitTask, Task, Holds
    <3> QED BY <2>1, <3>4, <3>5, <3>6
  <2> QED BY <2>2, <2>3
<1>10. ASSUME Crash(w, q) \/ Redeliver(w, q) PROVE Fine
  <2>0. worker[w].req = q /\ Task(w, q)
    BY <1>2, <1>10 DEF Crash, Redeliver
  <2>1. /\ \/ worker'[w] = NoTask /\ ~Holds(w)'
           \/ worker'[w] = worker[w] /\ (Holds(w)' => Holds(w))
        /\ \A v \in Worker : v # w => worker'[v] = worker[v]
    <3>1. CASE Crash(w, q)
      BY <1>1, <3>1, Idle DEF Crash
    <3>2. CASE Redeliver(w, q)
      BY <3>2 DEF Redeliver, Holds
    <3> QED BY <1>10, <3>1, <3>2
  <2>2. /\ \/ queue'[q] = queue[q] /\ sent'[q] = sent[q]
           \/ queue'[q] = queue[q] + 1 /\ sent'[q] = sent[q] + 1
        /\ \A r \in Request : r # q => queue'[r] = queue[r] /\ sent'[r] = sent[r]
    BY <1>1, <1>10 DEF Crash, Redeliver, TypeOK
  <2>3. \A r \in Request : r # q => Same(r)
    BY <1>10, <2>2 DEF Crash, Redeliver, Same
  <2>4. sent[q] \in Nat /\ queue[q] \in Nat /\ sent[q] > 0
    BY <1>1, <2>0, PipelineAssumption DEF TypeOK, Task, PipelineAssumption
  <2>5. Stage(q)'
    BY <1>2, <1>10, <2>2, <2>4 DEF Crash, Redeliver, Stage
  <2>6. sent'[q] > 0
    BY <2>2, <2>4
  <2>7. ASSUME NEW v \in Worker, worker'[v] = worker[v], worker[v].req = q PROVE Task(v, q)'
    <3>1. Task(v, q)
      BY <1>2, <1>3, <2>7
    <3> QED BY <1>10, <2>6, <2>7, <3>1 DEF Crash, Redeliver, Task, Holds
  <2> QED BY <2>0, <2>1, <2>3, <2>5, <2>7
<1> HIDE DEF Fine
<1>11. Fine
  BY <1>4, <1>5, <1>6, <1>7, <1>8, <1>9, <1>10
<1> QED BY <1>1, <1>2, <1>11, WorkerFrame DEF Fine

\* A deletion takes the jobs of the document along, whatever their workers are at.
LEMMA DeleteStep ==
  ASSUME IInv, NEW d \in Doc, DeleteDocument(d)
  PROVE  IInv'
<1>0. TypeOK
  BY DEF IInv
<1>1. job' = [q \in Request |-> IF DocOf[q] = d /\ job[q] # "none" THEN "deleted" ELSE job[q]]
  BY DEF DeleteDocument
<1>2. UNCHANGED <<mode, product, provider, api, queue, sent, worker, posts>> /\ document' \subseteq Doc
  BY <1>0 DEF DeleteDocument, TypeOK, broker
<1>3. \A q \in Request : job'[q] = job[q] \/ (job'[q] = "deleted" /\ job[q] # "none")
  BY <1>1
<1>7. job' \in [Request -> {"none", "queued", "running", "completed", "failed", "deleted"}]
  BY <1>0, <1>1, <1>3 DEF TypeOK
<1>8. TypeOK'
  BY <1>0, <1>2, <1>7 DEF TypeOK
<1>4. ASSUME NEW q \in Request PROVE Stage(q)'
  BY <1>2, <1>3 DEF IInv, Stage
<1>5. ASSUME NEW w \in Worker, NEW q \in Request, worker'[w].req = q PROVE Task(w, q)'
  BY <1>2, <1>3, <1>5 DEF IInv, Task, Holds
<1>6. OneHolder' /\ \A w \in Worker : worker'[w].req = "none" => worker'[w] = NoTask
  BY <1>2 DEF IInv, OneHolder, Holds
<1> QED BY <1>8, <1>4, <1>5, <1>6 DEF IInv

\* Nothing is requested yet.
LEMMA InitInv == Init => IInv
<1> SUFFICES ASSUME Init PROVE IInv
  OBVIOUS
<1>1. TypeOK
  BY InitType
<1>2. \A w \in Worker : worker[w] = NoTask /\ worker[w].req = "none" /\ ~Holds(w)
  BY DEF Init, NoTask, Holds
<1>3. ASSUME NEW q \in Request PROVE Stage(q)
  BY DEF Init, Stage
<1> QED BY <1>1, <1>2, <1>3, PipelineAssumption DEF IInv, OneHolder, PipelineAssumption

\* Each handler, worker, deletion, crash and delivery keeps the invariant.
LEMMA StepInv == IInv /\ [Next]_vars => IInv'
<1> SUFFICES ASSUME IInv, [Next]_vars PROVE IInv'
  OBVIOUS
<1>1. CASE \E q \in Request : Handle(q) \/ ApiDies(q)
  BY <1>1, HandlerStep
<1>2. ASSUME NEW w \in Worker, NEW q \in Request, Take(w, q) \/ Run(w, q) PROVE IInv'
  BY <1>2, PrivateStep, RowStep DEF Run
<1>3. CASE \E d \in Doc : DeleteDocument(d)
  BY <1>3, DeleteStep
<1>4. CASE \E w \in Worker, q \in Request : Crash(w, q) \/ Redeliver(w, q)
  BY <1>4, RowStep
<1>5. CASE UNCHANGED vars
  <2>1. UNCHANGED <<mode, document, product, provider, job, api, queue, sent, worker, posts>>
    BY <1>5 DEF vars, rows, broker
  <2> QED BY <2>1 DEF IInv, TypeOK, Stage, Task, OneHolder, Holds
<1> QED BY <1>1, <1>2, <1>3, <1>4, <1>5 DEF Next, Work

\* So it holds in every state.
LEMMA Invariance == Spec => []IInv
BY InitInv, StepInv, PTL DEF Spec

\* Every row, worker and handler is in one of its states and the broker hands out
\* one message at most MaxDeliveries times.
THEOREM TypeCorrect == Spec => []TypeOK
<1>1. IInv => TypeOK
  BY DEF IInv
<1> QED BY <1>1, Invariance, PTL

\* However often its message is delivered and whoever crashes, a request sends its
\* text to the provider at most once.
THEOREM PostsOnce == Spec => []OnePost
<1>1. IInv => OnePost
  BY DEF IInv, Stage, OnePost
<1> QED BY <1>1, Invariance, PTL

\* A unit is charged only for a call that was made and whose success the ledger records.
THEOREM ChargesResults == Spec => []ChargedForResult
<1>1. IInv => ChargedForResult
  BY DEF IInv, Stage, ChargedForResult
<1> QED BY <1>1, Invariance, PTL

\* In celery mode a job that ended has settled its unit with it.
THEOREM SettlesWithJob == Spec => []SettledWithJob
<1>1. IInv => SettledWithJob
  BY DEF IInv, Stage, SettledWithJob
<1> QED BY <1>1, Invariance, PTL

\* The ledger row of a call under way stays counted, unless its job was deleted.
THEOREM CountsCalls == Spec => []CallStaysCounted
<1>1. IInv => CallStaysCounted
  BY DEF IInv, TypeOK, Task, CallStaysCounted, NoTask
<1> QED BY <1>1, Invariance, PTL
=============================================================================
