------------------------ MODULE DocumentReviewProofs ------------------------
(***************************************************************************)
(* Why a patch is applied to the text it was proposed for, a session of    *)
(* single proposals has one pending at most, and nothing survives the      *)
(* deletion, for any patches, sessions, requests, processes and versions.  *)
(* The argument: sessions never change until they are deleted, so a patch  *)
(* keeps the base it was proposed on; a message at the provider holds its  *)
(* session's lock, which keeps other messages and the deletion out; and    *)
(* the decisions, which hold no lock on a session, only take patches out   *)
(* of the pending ones (class Calmer).                                     *)
(***************************************************************************)
EXTENDS DocumentReview, FiniteSetTheorems, TLAPS

\* A patch has all of its row or none of it, and its session exists; so does a session.
Rows ==
  /\ \A s \in Session : session[s].base = 0 => session[s] = NoSession
  /\ \A p \in Patch : IF patch[p].status = "none" THEN patch[p].session = "none"
                      ELSE patch[p].session \in Session /\ session[patch[p].session].base > 0

\* What is not proposed yet was never applied.
Fresh == alive # "no" => \A p \in Unused : took[p] = 0

\* The patch a request has read stays a row until the document is deleted.
Known(r) == req[r].prev \in Patch /\ (alive # "no" => patch[req[r].prev].status # "none")

\* A message at the provider: the deletion waits for it, its session is no longer about
\* any pending patch but the one it refines, and no other message is in that session.
Asking(r) ==
  /\ alive # "no" /\ req[r].session \in Session /\ session[req[r].session].base > 0
  /\ req[r].prev # "none" => Known(r)
  /\ session[req[r].session].batch
       \/ \A p \in Pending(PatchesOf(req[r].session)) : p = req[r].prev

\* The requests between two of their steps.
Requests ==
  /\ \A r \in Request : At(r, "accept") \/ At(r, "reject") => Known(r)
  /\ \A r \in Request : At(r, "propose") => Asking(r)
  /\ \A r, t \in Request :
       At(r, "propose") /\ At(t, "propose") /\ req[r].session = req[t].session => r = t

\* OnePending without the cardinality.
Single == \A s \in Session : session[s].batch \/ \A p, q \in Pending(PatchesOf(s)) : p = q

\* The inductive invariant.
IInv == TypeOK /\ Rows /\ Fresh /\ Requests /\ Single /\ AppliedToBase /\ NothingOutlives

-----------------------------------------------------------------------------
PatchRecord   == [status : PatchStatus, session : Session \cup {"none"}]
SessionRecord == [base : 0..MaxVersion, batch : BOOLEAN]
RequestRecord == [pc : {"idle", "accept", "reject", "wait", "propose", "first_pass", "done"},
                  session : Session \cup {"none"}, prev : Patch \cup {"none"},
                  base : 0..MaxVersion]

USE DEF PatchStatus
USE ReviewAssumption

\* A patch with another status is a patch of the same session.
LEMMA Restated ==
  ASSUME TypeOK, NEW p \in Patch, NEW status \in PatchStatus
  PROVE  /\ patch[p] \in PatchRecord /\ [patch[p] EXCEPT !.status = status] \in PatchRecord
         /\ [patch[p] EXCEPT !.status = status].status = status
         /\ [patch[p] EXCEPT !.status = status].session = patch[p].session
<1>1. patch[p] \in PatchRecord
  BY DEF TypeOK, PatchRecord
<1> QED BY <1>1 DEF PatchRecord

\* Marking patches changes their status and nothing else.
LEMMA Marked ==
  ASSUME TypeOK, NEW S, NEW status \in PatchStatus
  PROVE  /\ Mark(S, status) \in [Patch -> PatchRecord]
         /\ \A p \in Patch : /\ Mark(S, status)[p].session = patch[p].session
                             /\ Mark(S, status)[p].status = IF p \in S THEN status ELSE patch[p].status
BY Restated DEF Mark

\* A patch without a status is no patch.
LEMMA None ==
  ASSUME TypeOK, Rows, NEW p \in Patch
  PROVE  patch[p] = NoPatch <=> patch[p].status = "none"
BY DEF TypeOK, Rows, NoPatch

\* A new version is appended, and is a text.
LEMMA Versioned ==
  ASSUME TypeOK, NEW applied \in SUBSET Patch, NewVersion(applied)
  PROVE  text' \in Seq(SUBSET Patch) /\ Current' = Current + 1 /\ Current' \in 1..MaxVersion
BY DEF TypeOK, NewVersion, Current

\* Every version is a set of patches.
LEMMA Texts == ASSUME TypeOK, NEW v \in 1..Current PROVE text[v] \in SUBSET Patch
BY DEF TypeOK, Current

\* A request that is over is at no step.
LEMMA Finished ==
  ASSUME TypeOK, NEW r \in Request, Finish(r)
  PROVE  /\ req' \in [Request -> RequestRecord] /\ req'[r].pc = "done"
         /\ \A t \in Request : t # r => req'[t] = req[t]
<1>1. [NoRequest EXCEPT !.pc = "done"] \in RequestRecord /\ [NoRequest EXCEPT !.pc = "done"].pc = "done"
  BY DEF NoRequest, RequestRecord
<1> QED BY <1>1 DEF Finish, TypeOK, RequestRecord

\* A request that has not begun has a request's shape.
LEMMA NoRequestShape == NoRequest \in RequestRecord
BY DEF NoRequest, RequestRecord

\* The document begins with one version and nothing else.
LEMMA InitType == Init => TypeOK
BY DEF Init, TypeOK, NoSession, NoPatch, NoRequest, Current

\* A step of one of the handlers that lock the document keeps the shape of the state.
LEMMA SingleType ==
  ASSUME TypeOK,
         \/ Save \/ \E v \in 1..Current : RestoreVersion(v)
         \/ \E s \in Session : OpenSession(s)
         \/ \E s \in Session, accepted \in SUBSET Patch : DecideBatch(s, accepted)
         \/ StartDelete \/ FinishDelete \/ FailDelete
  PROVE  TypeOK'
<1>0. Current \in 1..Current
  BY DEF TypeOK
<1>1. CASE Save
  BY <1>0, <1>1, Texts, Versioned DEF Save, TypeOK
<1>2. ASSUME NEW v \in 1..Current, RestoreVersion(v) PROVE TypeOK'
  BY <1>2, Texts, Versioned DEF RestoreVersion, TypeOK
<1>3. ASSUME NEW s \in Session, OpenSession(s) PROVE TypeOK'
  BY <1>3 DEF OpenSession, TypeOK, Current
<1>4. ASSUME NEW s \in Session, NEW accepted \in SUBSET Patch, DecideBatch(s, accepted) PROVE TypeOK'
  <2>2. patch' \in [Patch -> PatchRecord]
    BY <1>4, Restated DEF DecideBatch
  <2>3. CASE accepted = {}
    BY <1>4, <2>2, <2>3 DEF DecideBatch, TypeOK, Current, PatchRecord
  <2>4. CASE accepted # {}
    <3>1. text[Current] \cup accepted \in SUBSET Patch /\ NewVersion(text[Current] \cup accepted)
      BY <1>0, <1>4, <2>4, Texts DEF DecideBatch
    <3>2. Current + 1 \in 1..MaxVersion
      BY <3>1, Versioned
    <3>3. took' \in [Patch -> 0..MaxVersion]
      BY <1>4, <2>4, <3>2 DEF DecideBatch, TypeOK
    <3> QED BY <1>4, <2>2, <3>1, <3>3, Versioned DEF DecideBatch, TypeOK, PatchRecord
  <2> QED BY <2>3, <2>4
<1>5. CASE StartDelete \/ FailDelete
  BY <1>5 DEF StartDelete, FailDelete, TypeOK, Current
<1>6. CASE FinishDelete
  BY <1>6 DEF FinishDelete, TypeOK, Current, NoSession, NoPatch
<1> QED BY <1>1, <1>2, <1>3, <1>4, <1>5, <1>6

\* So does every step of a request.
LEMMA RequestType ==
  ASSUME TypeOK, Requests, NEW r \in Request, Arrive(r) \/ Chat(r) \/ Handle(r)
  PROVE  TypeOK'
<1> USE DEF rows, Current
<1>1. ASSUME NEW p \in Patch, NEW pc \in {"accept", "reject"}, ReadPatch(r, p, pc) PROVE TypeOK'
  <2>1. [NoRequest EXCEPT !.pc = pc, !.prev = p] \in RequestRecord
    BY NoRequestShape DEF RequestRecord
  <2> QED BY <1>1, <2>1 DEF ReadPatch, TypeOK, RequestRecord
<1>2. CASE Accept(r)
  <2>1. req[r].prev \in Patch /\ Current \in 1..Current /\ NewVersion(text[Current] \cup {req[r].prev})
    BY <1>2 DEF Accept, Requests, Known, TypeOK
  <2>2. text' \in Seq(SUBSET Patch) /\ Current + 1 \in 1..MaxVersion /\ Current' \in 1..MaxVersion
    BY <2>1, Texts, Versioned
  <2>3. took' \in [Patch -> 0..MaxVersion]
    BY <1>2, <2>1, <2>2 DEF Accept, TypeOK
  <2> DEFINE M == Mark(Pending({q \in Patch : Base(q) = Base(req[r].prev)}), "superseded")
  <2>4. M \in [Patch -> PatchRecord] /\ patch' = [M EXCEPT ![req[r].prev].status = "accepted"]
    BY <1>2, Marked DEF Accept
  <2> HIDE DEF M
  <2>5. patch' \in [Patch -> PatchRecord]
    BY <2>1, <2>4 DEF PatchRecord
  <2> QED BY <1>2, <2>2, <2>3, <2>5, Finished DEF Accept, TypeOK, PatchRecord, RequestRecord
<1>3. CASE Reject(r)
  BY <1>3, Marked, Finished DEF Reject, TypeOK, PatchRecord, RequestRecord
<1>4. CASE Conflict(r) \/ NoProposal(r) \/ NoBatch(r)
  BY <1>4, Finished DEF Conflict, NoProposal, NoBatch, TypeOK, RequestRecord
<1>5. CASE MessageRefused(r)
  BY <1>5, Finished DEF MessageRefused, TypeOK, RequestRecord
<1>6. ASSUME NEW s \in Session, NEW prev \in Patch \cup {"none"}, Message(r, s, prev) PROVE TypeOK'
  BY <1>6 DEF Message, TypeOK
<1>7. ASSUME NEW s \in Session, WaitForSession(r, s) PROVE TypeOK'
  <2>1. [NoRequest EXCEPT !.pc = "wait", !.session = s] \in RequestRecord
    BY NoRequestShape DEF RequestRecord
  <2> QED BY <1>7, <2>1 DEF WaitForSession, TypeOK, RequestRecord
<1>8. ASSUME NEW p \in Patch, Propose(r, p) PROVE TypeOK'
  <2>1. Mark({req[r].prev}, "superseded") \in [Patch -> PatchRecord]
    BY Marked
  <2>2. [status |-> "pending", session |-> req[r].session] \in PatchRecord
    BY DEF TypeOK, PatchRecord
  <2>3. patch' \in [Patch -> PatchRecord]
    BY <1>8, <2>1, <2>2 DEF Propose
  <2> QED BY <1>8, <2>3, Finished DEF Propose, TypeOK, PatchRecord, RequestRecord
<1>9. CASE FirstPass(r)
  <2>0. Current \in 0..MaxVersion
    BY DEF TypeOK
  <2>1. [NoRequest EXCEPT !.pc = "first_pass", !.base = Current] \in RequestRecord
    BY <2>0, NoRequestShape DEF RequestRecord
  <2> QED BY <1>9, <2>1 DEF FirstPass, TypeOK, RequestRecord
<1>10. ASSUME NEW s \in Session, NEW batch \in SUBSET Unused, StoreBatch(r, s, batch) PROVE TypeOK'
  <2>1. session' \in [Session -> SessionRecord] /\ patch' \in [Patch -> PatchRecord]
    BY <1>10 DEF StoreBatch, TypeOK, SessionRecord, PatchRecord
  <2> QED BY <1>10, <2>1, Finished DEF StoreBatch, TypeOK, SessionRecord, PatchRecord, RequestRecord
<1> QED BY <1>1, <1>2, <1>3, <1>4, <1>5, <1>6, <1>7, <1>8, <1>9, <1>10 DEF Arrive, Chat, Handle

-----------------------------------------------------------------------------
\* The sessions stay, and so do the rows of the patches; nothing becomes pending.
Calmer ==
  /\ session' = session /\ (alive = "no" <=> alive' = "no")
  /\ \A p \in Patch : /\ patch'[p].session = patch[p].session
                      /\ patch'[p].status = "none" <=> patch[p].status = "none"
                      /\ patch'[p].status = "pending" => patch[p].status = "pending"

\* A request is as it was or waits for nothing but its turn.
Moves(t) == req'[t] = req[t] \/ req'[t].pc \notin {"accept", "reject", "propose"}

\* Such a step keeps what relates rows to rows.
LEMMA CalmRows ==
  ASSUME IInv, TypeOK', Calmer
  PROVE  /\ Rows' /\ Single' /\ NothingOutlives'
         /\ \A p \in Patch : Base(p)' = Base(p) /\ (patch'[p] = NoPatch <=> patch[p] = NoPatch)
<1>1. Rows'
  BY DEF IInv, Calmer, Rows
<1>2. \A S \in SUBSET Patch : Pending(S)' \subseteq Pending(S)
  BY DEF Calmer, Pending
<1>3. \A s \in Session : PatchesOf(s)' = PatchesOf(s)
  BY DEF Calmer, PatchesOf
<1>4. Single'
  BY DEF IInv, Single, Calmer, Pending, PatchesOf
<1>5. NothingOutlives'
  BY DEF IInv, NothingOutlives, Calmer, Unused
<1>6. \A p \in Patch : Base(p)' = Base(p)
  BY DEF Calmer, Base
<1>7. \A p \in Patch : patch'[p] = NoPatch <=> patch[p] = NoPatch
  <2>1. \A p \in Patch : patch'[p] = NoPatch <=> patch'[p].status = "none"
    BY <1>1 DEF TypeOK, Rows, NoPatch
  <2> QED BY <2>1, None DEF IInv, Calmer
<1> QED BY <1>1, <1>4, <1>5, <1>6, <1>7

\* It keeps what the requests know, if no request goes on with more than it knew.
LEMMA CalmRequests ==
  ASSUME IInv, TypeOK', Calmer, \A t \in Request : Moves(t)
  PROVE  Requests'
<1>1. ASSUME NEW t \in Request, At(t, "accept")' \/ At(t, "reject")' PROVE Known(t)'
  BY <1>1 DEF IInv, Requests, Known, Calmer, Moves, At
<1>2. ASSUME NEW t \in Request, At(t, "propose")' PROVE Asking(t)'
  <2>1. req'[t] = req[t] /\ Asking(t)
    BY <1>2 DEF IInv, Requests, Moves, At
  <2> QED BY <2>1 DEF Asking, Known, Calmer, Pending, PatchesOf
<1>3. ASSUME NEW t \in Request, NEW u \in Request, At(t, "propose")', At(u, "propose")',
             req'[t].session = req'[u].session
      PROVE  t = u
  BY <1>3 DEF IInv, Requests, Moves, At
<1> QED BY <1>1, <1>2, <1>3 DEF Requests

\* A step that leaves the acceptances alone as well keeps all of the invariant.
LEMMA CalmStep ==
  ASSUME IInv, TypeOK', Calmer, took' = took, Requests'
  PROVE  IInv'
<1>1. Fresh' /\ AppliedToBase'
  BY CalmRows DEF IInv, Fresh, Unused, AppliedToBase, Calmer
<1> QED BY <1>1, CalmRows DEF IInv

\* Acceptances: of patches whose base is the version they succeed.
LEMMA AcceptStep ==
  ASSUME IInv, TypeOK', Calmer, Requests', NEW S \in SUBSET Patch, alive # "no",
         \A p \in S : Base(p) = Current /\ patch[p].status # "none" /\ took'[p] = Current + 1,
         \A p \in Patch \ S : took'[p] = took[p]
  PROVE  IInv'
<1>1. AppliedToBase'
  BY CalmRows DEF IInv, AppliedToBase
<1>2. Fresh'
  BY DEF IInv, Fresh, Unused, Calmer
<1> QED BY <1>1, <1>2, CalmRows DEF IInv

\* The handlers that lock the document for all they do.
LEMMA SingleStep ==
  ASSUME IInv,
         \/ Save \/ \E v \in 1..Current : RestoreVersion(v)
         \/ \E s \in Session : OpenSession(s)
         \/ \E s \in Session, accepted \in SUBSET Patch : DecideBatch(s, accepted)
         \/ StartDelete \/ FinishDelete \/ FailDelete
  PROVE  IInv'
<1>0. TypeOK /\ TypeOK'
  BY SingleType DEF IInv
<1>1. req' = req
  BY DEF Save, RestoreVersion, OpenSession, DecideBatch, StartDelete, FinishDelete, FailDelete
<1>2. \A t \in Request : Moves(t)
  BY <1>1 DEF Moves
<1>3. CASE Save \/ (\E v \in 1..Current : RestoreVersion(v)) \/ StartDelete \/ FailDelete
  <2>1. Calmer /\ took' = took
    BY <1>3 DEF Save, RestoreVersion, StartDelete, FailDelete, Calmer
  <2> QED BY <1>0, <1>2, <2>1, CalmRequests, CalmStep
<1>4. ASSUME NEW s \in Session, OpenSession(s) PROVE IInv'
  <2>1. session'[s].base > 0 /\ \A t \in Session : t # s => session'[t] = session[t]
    BY <1>0, <1>4 DEF OpenSession, TypeOK
  <2>2. \A p \in Patch : patch[p].session # s
    BY <1>4 DEF IInv, Rows, OpenSession, NoSession
  <2>3. Rows' /\ Single'
    BY <1>4, <2>1, <2>2 DEF IInv, Rows, Single, OpenSession, Pending, PatchesOf
  <2>4. \A p \in Patch : Base(p)' = Base(p)
    BY <1>4, <2>1, <2>2 DEF OpenSession, Base
  <2>5. Fresh' /\ AppliedToBase' /\ NothingOutlives'
    BY <1>4, <2>4 DEF OpenSession, IInv, Fresh, AppliedToBase, NothingOutlives, Unused
  <2>6. \A t \in Request : At(t, "propose") => req[t].session # s
    BY <1>4 DEF IInv, Requests, Asking, OpenSession, NoSession
  <2>7. Requests'
    BY <1>1, <1>4, <2>1, <2>6 DEF IInv, Requests, Known, Asking, OpenSession, At, Pending, PatchesOf
  <2> QED BY <1>0, <2>3, <2>5, <2>7 DEF IInv
<1>5. ASSUME NEW s \in Session, NEW accepted \in SUBSET Patch, DecideBatch(s, accepted) PROVE IInv'
  <2>1. \A p \in PatchesOf(s) : patch[p].status = "pending" /\ Base(p) = Current
    BY <1>5 DEF DecideBatch, Pending, PatchesOf, Base
  <2>2. \A p \in Patch : p \in accepted => p \in PatchesOf(s)
    BY <1>5 DEF DecideBatch
  <2>3. Calmer
    <3>1. \A p \in Patch :
            /\ patch'[p].session = patch[p].session
            /\ patch'[p].status = IF p \in accepted THEN "accepted"
                 ELSE IF p \in PatchesOf(s) THEN "rejected"
                 ELSE IF p \in (IF accepted = {} THEN {} ELSE Pending(Patch) \ PatchesOf(s))
                 THEN "superseded" ELSE patch[p].status
      BY <1>0, <1>5, Restated DEF DecideBatch
    <3>2. \A p \in Pending(Patch) : patch[p].status = "pending"
      BY DEF Pending
    <3> QED BY <1>5, <2>1, <2>2, <3>1, <3>2 DEF DecideBatch, Calmer
  <2>4. Requests'
    BY <1>0, <1>2, <2>3, CalmRequests
  <2>5. \A p \in Patch : took'[p] = IF p \in accepted THEN Current + 1 ELSE took[p]
    BY <1>0, <1>5 DEF DecideBatch, TypeOK
  <2> QED BY <1>0, <1>5, <2>1, <2>2, <2>3, <2>4, <2>5, AcceptStep DEF DecideBatch
<1>6. CASE FinishDelete
  <2>1. alive' = "no" /\ \A t \in Request : ~(At(t, "propose"))
    BY <1>6 DEF FinishDelete, SessionLocked, IInv, Requests, Asking
  <2>2. session' = [s \in Session |-> NoSession] /\ patch' = [p \in Patch |-> NoPatch]
    BY <1>6 DEF FinishDelete
  <2>3. Rows' /\ Single' /\ NothingOutlives' /\ Fresh'
    BY <2>1, <2>2 DEF Rows, Single, NothingOutlives, Fresh, NoPatch, NoSession, Pending, PatchesOf, Unused
  <2>4. AppliedToBase'
    BY <2>2 DEF AppliedToBase
  <2>5. Requests'
    BY <1>1, <2>1 DEF IInv, Requests, Known, At
  <2> QED BY <1>0, <2>3, <2>4, <2>5 DEF IInv
<1> QED BY <1>3, <1>4, <1>5, <1>6

\* The handlers that are split.
LEMMA RequestStep ==
  ASSUME IInv, NEW r \in Request, Arrive(r) \/ Chat(r) \/ Handle(r)
  PROVE  IInv'
<1>0. TypeOK /\ TypeOK'
  BY RequestType DEF IInv
<1> USE DEF rows
<1>1. ASSUME UNCHANGED rows, \A t \in Request : Moves(t) PROVE IInv'
  <2>1. Calmer
    BY <1>1 DEF Calmer
  <2> QED BY <1>0, <1>1, <2>1, CalmRequests, CalmStep
<1>2. ASSUME Finish(r) PROVE \A t \in Request : Moves(t)
  BY <1>0, <1>2, Finished DEF Moves
<1>3. ASSUME NEW p \in Patch, NEW pc \in {"accept", "reject"}, ReadPatch(r, p, pc) PROVE IInv'
  <2>1. req'[r].prev = p /\ req'[r].pc = pc /\ \A t \in Request : t # r => req'[t] = req[t]
    BY <1>0, <1>3, NoRequestShape DEF ReadPatch, TypeOK, RequestRecord
  <2>2. Calmer /\ took' = took
    BY <1>3 DEF ReadPatch, Calmer
  <2>3. Known(r)'
    BY <1>3, <2>1 DEF ReadPatch, Known
  <2>4. Requests'
    BY <1>3, <2>1, <2>3 DEF ReadPatch, IInv, Requests, Known, Asking, At, Pending, PatchesOf
  <2> QED BY <1>0, <2>2, <2>4, CalmStep
<1>4. CASE Accept(r)
  <2> DEFINE p == req[r].prev
             M == Mark(Pending({q \in Patch : Base(q) = Base(p)}), "superseded")
  <2>1. p \in Patch /\ patch[p].status # "none" /\ alive = "yes" /\ Base(p) = Current
    BY <1>4 DEF Accept, IInv, Requests, Known
  <2>2. took' = [took EXCEPT ![p] = Current + 1] /\ patch' = [M EXCEPT ![p].status = "accepted"]
    BY <1>4 DEF Accept
  <2>3. /\ M \in [Patch -> PatchRecord]
        /\ \A q \in Patch : M[q].session = patch[q].session
                            /\ M[q].status \in {patch[q].status, "superseded"}
                            /\ (patch[q].status = "none" => M[q].status = "none")
    BY <1>0, Marked DEF Pending
  <2> HIDE DEF M
  <2>4. Calmer
    <3>1. \A q \in Patch : patch'[q].session = patch[q].session
                           /\ patch'[q].status = IF q = p THEN "accepted" ELSE M[q].status
      BY <2>1, <2>2, <2>3 DEF PatchRecord
    <3> QED BY <1>4, <2>1, <2>3, <3>1 DEF Accept, Calmer
  <2>5. Requests'
    BY <1>0, <1>2, <1>4, <2>4, CalmRequests DEF Accept
  <2>6. \A q \in Patch : took'[q] = IF q = p THEN Current + 1 ELSE took[q]
    BY <1>0, <2>2 DEF TypeOK
  <2>7. {p} \in SUBSET Patch
    BY <2>1
  <2> QED BY <1>0, <2>1, <2>4, <2>5, <2>6, <2>7, AcceptStep
<1>5. CASE Reject(r)
  <2>1. req[r].prev \in Patch /\ patch[req[r].prev].status # "none"
    BY <1>5 DEF Reject, IInv, Requests, Known
  <2>2. Calmer /\ took' = took
    BY <1>0, <1>5, <2>1, Marked DEF Reject, Calmer
  <2>3. Requests'
    BY <1>0, <1>2, <1>5, <2>2, CalmRequests DEF Reject
  <2> QED BY <1>0, <2>2, <2>3, CalmStep
<1>6. CASE Conflict(r) \/ NoProposal(r) \/ NoBatch(r) \/ MessageRefused(r)
  BY <1>1, <1>2, <1>6 DEF Conflict, NoProposal, NoBatch, MessageRefused
<1>7. CASE FirstPass(r) \/ \E s \in Session : WaitForSession(r, s)
  <2>1. req'[r].pc \in {"first_pass", "wait"} /\ \A t \in Request : t # r => req'[t] = req[t]
    <3>1. ASSUME FirstPass(r)
          PROVE  req'[r].pc = "first_pass" /\ \A t \in Request : t # r => req'[t] = req[t]
      BY <1>0, <3>1, NoRequestShape DEF FirstPass, TypeOK, RequestRecord
    <3>2. ASSUME NEW s \in Session, WaitForSession(r, s)
          PROVE  req'[r].pc = "wait" /\ \A t \in Request : t # r => req'[t] = req[t]
      BY <1>0, <3>2, NoRequestShape DEF WaitForSession, TypeOK, RequestRecord
    <3> QED BY <1>7, <3>1, <3>2
  <2> QED BY <1>1, <1>7, <2>1 DEF FirstPass, WaitForSession, Moves
<1>8. ASSUME NEW s \in Session, NEW prev \in Patch \cup {"none"}, Message(r, s, prev) PROVE IInv'
  <2>1. /\ req'[r].pc = "propose" /\ req'[r].session = s /\ req'[r].prev = prev
        /\ \A t \in Request : t # r => req'[t] = req[t]
    BY <1>0, <1>8 DEF Message, TypeOK
  <2>2. Calmer /\ took' = took
    BY <1>8 DEF Message, Calmer
  <2>3. session[s].base > 0
    BY <1>0, <1>8 DEF Message, TypeOK, Current
  <2>4. session[s].batch \/ \A p \in Pending(PatchesOf(s)) : p = prev
    BY <1>8 DEF Message, Refines, IInv, Single
  <2>5. prev # "none" => prev \in Patch /\ patch[prev].status = "pending"
    BY <1>8 DEF Message, Refines, Pending, PatchesOf
  <2>6. Asking(r)'
    BY <1>8, <2>1, <2>3, <2>4, <2>5 DEF Message, Asking, Known, Pending, PatchesOf
  <2>7. \A t \in Request : At(t, "propose") => req[t].session # s
    BY <1>8 DEF Message, SessionLocked
  <2>8. Requests'
    BY <1>8, <2>1, <2>6, <2>7 DEF Message, IInv, Requests, Known, Asking, At, Pending, PatchesOf
  <2> QED BY <1>0, <2>2, <2>8, CalmStep
<1>9. ASSUME NEW p \in Patch, Propose(r, p) PROVE IInv'
  <2>0. PICK s, prev : s = req[r].session /\ prev = req[r].prev
    OBVIOUS
  <2>1. /\ alive # "no" /\ s \in Session /\ session[s].base > 0 /\ Asking(r) /\ took[p] = 0
        /\ patch[p].status = "none" /\ patch[p].session = "none"
        /\ prev # "none" => prev \in Patch /\ patch[prev].status # "none"
    BY <1>9, <2>0 DEF Propose, IInv, Requests, Asking, Known, Fresh, Unused, Rows
  <2>2. UNCHANGED <<alive, took, session>>
    BY <1>9 DEF Propose
  <2>3. patch'[p] = [status |-> "pending", session |-> s]
    BY <1>0, <1>9, <2>0, Marked DEF Propose
  <2>4. \A q \in Patch \ {p} : /\ patch'[q].session = patch[q].session
                               /\ patch'[q].status = IF q = prev THEN "superseded" ELSE patch[q].status
    BY <1>0, <1>9, <2>0, Marked DEF Propose
  <2>5. req'[r].pc = "done" /\ \A t \in Request : t # r => req'[t] = req[t]
    BY <1>0, <1>9, Finished DEF Propose
  <2>6. \A t \in Request : t # r /\ At(t, "propose") => req[t].session # s
    BY <1>9, <2>0 DEF Propose, IInv, Requests
  <2>7. Rows'
    BY <2>1, <2>2, <2>3, <2>4 DEF IInv, Rows
  <2>8. Single'
    <3>1. \A t \in Session : t # s => Pending(PatchesOf(t))' \subseteq Pending(PatchesOf(t))
      BY <2>3, <2>4 DEF Pending, PatchesOf
    <3>2. session[s].batch \/ \A q \in Pending(PatchesOf(s))' : q = p
      BY <2>0, <2>1, <2>3, <2>4 DEF Pending, PatchesOf, Asking
    <3> QED BY <2>2, <3>1, <3>2 DEF IInv, Single
  <2>9. Fresh' /\ NothingOutlives'
    BY <2>1, <2>2, <2>3, <2>4 DEF IInv, Fresh, Unused, NothingOutlives
  <2>10. AppliedToBase'
    <3>1. \A q \in Patch : q # p => Base(q)' = Base(q)
      BY <2>2, <2>4 DEF Base
    <3>2. \A q \in Patch : q # p => (patch[q] = NoPatch => patch'[q] = NoPatch)
      <4>1. patch' \in [Patch -> PatchRecord]
        BY <1>0 DEF TypeOK, PatchRecord
      <4> QED BY <2>1, <2>4, <4>1 DEF NoPatch, PatchRecord
    <3> QED BY <2>1, <2>2, <3>1, <3>2 DEF IInv, AppliedToBase
  <2>11. Requests'
    <3>1. \A q \in Patch : patch[q].status # "none" => patch'[q].status # "none"
      BY <2>3, <2>4
    <3>2. ASSUME NEW t \in Request, At(t, "propose")' PROVE Asking(t)'
      <4>1. t # r /\ Asking(t) /\ req'[t] = req[t] /\ req[t].session # s
        BY <2>5, <2>6, <3>2 DEF IInv, Requests, At
      <4>2. Pending(PatchesOf(req[t].session))' \subseteq Pending(PatchesOf(req[t].session))
        BY <2>3, <2>4, <4>1 DEF Pending, PatchesOf
      <4> QED BY <2>2, <3>1, <4>1, <4>2 DEF Asking, Known
    <3> QED BY <2>2, <2>5, <3>1, <3>2 DEF IInv, Requests, Known, At
  <2> QED BY <1>0, <2>7, <2>8, <2>9, <2>10, <2>11 DEF IInv
<1>10. ASSUME NEW s \in Session, NEW batch \in SUBSET Unused, StoreBatch(r, s, batch) PROVE IInv'
  <2>1. /\ alive # "no" /\ UNCHANGED <<alive, took>> /\ session[s].base = 0
        /\ \A p \in batch : p \in Patch /\ patch[p].status = "none" /\ patch[p].session = "none"
    BY <1>10 DEF StoreBatch, NoSession, Unused, IInv, Rows
  <2>2. /\ session'[s].base > 0 /\ session'[s].batch
        /\ \A t \in Session : t # s => session'[t] = session[t]
    BY <1>0, <1>10 DEF StoreBatch, TypeOK, Current
  <2>3. \A p \in Patch : patch'[p] = IF p \in batch THEN [status |-> "pending", session |-> s] ELSE patch[p]
    BY <1>10 DEF StoreBatch
  <2>4. \A p \in Patch : patch[p].session # s
    BY <2>1 DEF IInv, Rows
  <2>5. req'[r].pc = "done" /\ \A t \in Request : t # r => req'[t] = req[t]
    BY <1>0, <1>10, Finished DEF StoreBatch
  <2>6. Rows'
    BY <2>2, <2>3, <2>4 DEF IInv, Rows
  <2>7. Fresh' /\ NothingOutlives'
    BY <2>1, <2>3 DEF IInv, Fresh, Unused, NothingOutlives
  <2>8. \A t \in Session : t # s => Pending(PatchesOf(t))' \subseteq Pending(PatchesOf(t))
    BY <2>3 DEF Pending, PatchesOf
  <2>9. Single'
    BY <2>2, <2>8 DEF IInv, Single
  <2>10. AppliedToBase'
    <3>1. \A p \in batch : took[p] = 0
      BY <2>1 DEF IInv, Fresh, Unused
    <3>2. \A p \in Patch \ batch : Base(p)' = Base(p)
      BY <2>2, <2>3, <2>4 DEF Base
    <3> QED BY <2>1, <2>3, <3>1, <3>2 DEF IInv, AppliedToBase
  <2>11. Requests'
    <3>1. ASSUME NEW t \in Request, At(t, "propose")' PROVE Asking(t)'
      <4>1. t # r /\ Asking(t) /\ req'[t] = req[t] /\ req[t].session # s
        BY <2>1, <2>5, <3>1 DEF IInv, Requests, Asking, At
      <4> QED BY <2>1, <2>2, <2>3, <2>8, <4>1 DEF Asking, Known
    <3> QED BY <2>1, <2>3, <2>5, <3>1 DEF IInv, Requests, Known, At
  <2> QED BY <1>0, <2>6, <2>7, <2>9, <2>10, <2>11 DEF IInv
<1> QED BY <1>3, <1>4, <1>5, <1>6, <1>7, <1>8, <1>9, <1>10 DEF Arrive, Chat, Handle

\* Nothing is proposed yet.
LEMMA InitInv == Init => IInv
<1> SUFFICES ASSUME Init PROVE IInv
  OBVIOUS
<1>1. TypeOK
  BY InitType
<1>2. Rows /\ Fresh /\ Single /\ AppliedToBase /\ NothingOutlives
  BY DEF Init, Rows, Fresh, Single, AppliedToBase, NothingOutlives, NoPatch, NoSession, Pending, PatchesOf, Unused
<1>3. Requests
  BY DEF Init, Requests, NoRequest, At
<1> QED BY <1>1, <1>2, <1>3 DEF IInv

\* Every handler and every step of a deletion keeps the invariant.
LEMMA StepInv == IInv /\ [Next]_vars => IInv'
<1> SUFFICES ASSUME IInv, [Next]_vars PROVE IInv'
  OBVIOUS
<1>1. CASE UNCHANGED vars
  <2>1. TypeOK' /\ Calmer /\ took' = took /\ req' = req
    BY <1>1 DEF vars, rows, IInv, TypeOK, Current, Calmer
  <2> QED BY <2>1, CalmRequests, CalmStep DEF Moves
<1> QED BY <1>1, SingleStep, RequestStep DEF Next

\* So it holds in every state.
LEMMA Invariance == Spec => []IInv
BY InitInv, StepInv, PTL DEF Spec

\* Rows, texts and requests keep their shape, within the bound on versions.
THEOREM TypeCorrect == Spec => []TypeOK
<1>1. IInv => TypeOK
  BY DEF IInv
<1> QED BY <1>1, Invariance, PTL

\* A patch is applied to the very text it was proposed for.
THEOREM AppliesToBase == Spec => []AppliedToBase
<1>1. IInv => AppliedToBase
  BY DEF IInv
<1> QED BY <1>1, Invariance, PTL

\* A set whose elements are all equal has one of them at most.
LEMMA OneAtMost ==
  ASSUME NEW S, \A x, y \in S : x = y
  PROVE  Cardinality(S) <= 1
<1>1. CASE S = {}
  BY <1>1, FS_EmptySet
<1>2. ASSUME NEW x \in S PROVE Cardinality(S) <= 1
  <2>1. S = {x}
    OBVIOUS
  <2> QED BY <2>1, FS_Singleton
<1> QED BY <1>1, <1>2

\* A session of single proposals never has two of them pending.
THEOREM PendsOnce == Spec => []OnePending
<1>1. IInv => OnePending
  BY OneAtMost DEF IInv, Single, OnePending
<1> QED BY <1>1, Invariance, PTL

\* Nothing of the document outlives its deletion, although providers answer late.
THEOREM DeletesAll == Spec => []NothingOutlives
<1>1. IInv => NothingOutlives
  BY DEF IInv
<1> QED BY <1>1, Invariance, PTL
=============================================================================
