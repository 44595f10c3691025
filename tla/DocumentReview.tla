--------------------------- MODULE DocumentReview ---------------------------
(***************************************************************************)
(* One document under review (main.py, service.py): its immutable          *)
(* versions, the rewrite sessions and their patches, the decisions on      *)
(* them, and its deletion, as concurrent requests of its owner to one or   *)
(* several API processes.                                                  *)
(*                                                                         *)
(* A text is the set of patches whose revision it contains; a manual save  *)
(* keeps them.  Every proposal comes from a real provider.  Handlers that  *)
(* lock the document's row for all they do are one step; the others are    *)
(* split where they read what they later act on.  Async handlers run on    *)
(* the event loop of their process and block it in every database call;    *)
(* the others need it only to start.                                       *)
(***************************************************************************)
EXTENDS Integers, Sequences, FiniteSets

CONSTANTS
  Patch, Session,
  Request,     \* the requests with more than one step
  Loop,        \* the event loops, one per API process
  LoopOf,      \* [Request -> Loop]
  Deletes,     \* the owner may delete the document
  MaxVersion   \* bound: versions of the document

ASSUME ReviewAssumption ==
  /\ LoopOf \in [Request -> Loop] /\ Deletes \in BOOLEAN
  /\ MaxVersion \in Nat \ {0}
  /\ "none" \notin Patch \cup Session

PatchStatus == {"none", "pending", "accepted", "rejected", "superseded"}

VARIABLES
  alive,    \* "yes", "deleting" (an open transaction deletes its rows) or "no"
  text,     \* the versions: a sequence of sets of patches; the last is current
  took,     \* history: [Patch -> the version its acceptance created, or 0]
  session,  \* [Session -> [base, batch]], base 0 if there is none
  patch,    \* [Patch -> [status, session]]
  req,      \* [Request -> [pc, session, prev, base]], what it has read
  loop      \* [Loop -> the request that blocks it, or "free"]

rows == <<alive, text, took, session, patch>>
vars == <<rows, req, loop>>

NoSession == [base |-> 0, batch |-> FALSE]
NoPatch   == [status |-> "none", session |-> "none"]
NoRequest == [pc |-> "idle", session |-> "none", prev |-> "none", base |-> 0]

Init ==
  /\ alive = "yes"
  /\ text = <<{}>>
  /\ took = [p \in Patch |-> 0]
  /\ session = [s \in Session |-> NoSession]
  /\ patch = [p \in Patch |-> NoPatch]
  /\ req = [r \in Request |-> NoRequest]
  /\ loop = [l \in Loop |-> "free"]

Current  == Len(text)
Base(p)  == IF patch[p].session \in Session THEN session[patch[p].session].base ELSE 0
PatchesOf(s) == {p \in Patch : patch[p].session = s}
Pending(S)   == {p \in S : patch[p].status = "pending"}
Unused   == {p \in Patch : patch[p].status = "none"}

Mark(S, status) == [p \in Patch |-> IF p \in S THEN [patch[p] EXCEPT !.status = status] ELSE patch[p]]
NewVersion(applied) == Current < MaxVersion /\ text' = Append(text, applied)

Up(r)     == loop[LoopOf[r]] \in {"free", r}
At(r, pc) == req[r].pc = pc
Finish(r) == req' = [req EXCEPT ![r] = [NoRequest EXCEPT !.pc = "done"]]

-----------------------------------------------------------------------------
(* Handlers that are one step.                                             *)

\* update_document: base_version_id is the current version, or the request fails.
Save ==
  /\ alive # "no" /\ NewVersion(text[Current])
  /\ UNCHANGED <<alive, took, session, patch, req, loop>>

RestoreVersion(v) ==
  /\ alive # "no" /\ NewVersion(text[v])
  /\ UNCHANGED <<alive, took, session, patch, req, loop>>

\* Fault: the session is opened on the version a save is about to create.
OpenSessionAhead(s) ==
  /\ alive # "no" /\ session[s] = NoSession
  /\ session' = [session EXCEPT ![s] = [base |-> Current + 1, batch |-> FALSE]]
  /\ UNCHANGED <<alive, text, took, patch, req, loop>>
OpenSession(s) ==
  /\ alive # "no" /\ session[s] = NoSession
  /\ session' = [session EXCEPT ![s] = [base |-> Current, batch |-> FALSE]]
  /\ UNCHANGED <<alive, text, took, patch, req, loop>>

\* decide_batch locks the document, then the session's patches.
DecideBatch(s, accepted) ==
  /\ alive = "yes" /\ session[s].base = Current
  /\ PatchesOf(s) # {} /\ Pending(PatchesOf(s)) = PatchesOf(s)
  /\ accepted \subseteq PatchesOf(s)
  /\ LET others == IF accepted = {} THEN {} ELSE Pending(Patch) \ PatchesOf(s)
     IN patch' = [p \in Patch |->
                    IF p \in accepted THEN [patch[p] EXCEPT !.status = "accepted"]
                    ELSE IF p \in PatchesOf(s) THEN [patch[p] EXCEPT !.status = "rejected"]
                    ELSE IF p \in others THEN [patch[p] EXCEPT !.status = "superseded"]
                    ELSE patch[p]]
  /\ IF accepted = {} THEN UNCHANGED <<text, took>>
     ELSE /\ NewVersion(text[Current] \cup accepted)
          /\ took' = [p \in Patch |-> IF p \in accepted THEN Current + 1 ELSE took[p]]
  /\ UNCHANGED <<alive, session, req, loop>>

-----------------------------------------------------------------------------
(* accept_patch and reject_patch: the patch is read before any lock.       *)

ReadPatch(r, p, pc) ==
  /\ At(r, "idle") /\ Up(r) /\ alive # "no"
  /\ patch[p].status = "pending"
  /\ req' = [req EXCEPT ![r] = [NoRequest EXCEPT !.pc = pc, !.prev = p]]
  /\ UNCHANGED <<rows, loop>>

\* The document is locked and read again, the patch is not.
\* Fault: the version is compared with a document read before the lock.
AcceptStale(r) ==
  /\ At(r, "accept") /\ alive = "yes"
  /\ LET p == req[r].prev
     IN /\ NewVersion(text[Current] \cup {p})
        /\ took' = [took EXCEPT ![p] = Current + 1]
        /\ patch' = [Mark(Pending({q \in Patch : Base(q) = Base(p)}),
                          "superseded") EXCEPT ![p].status = "accepted"]
  /\ Finish(r)
  /\ UNCHANGED <<alive, session, loop>>
Accept(r) ==
  /\ At(r, "accept") /\ alive = "yes"
  /\ LET p == req[r].prev
     IN /\ Base(p) = Current
        /\ NewVersion(text[Current] \cup {p})
        /\ took' = [took EXCEPT ![p] = Current + 1]
        /\ patch' = [Mark(Pending({q \in Patch : Base(q) = Base(p)}),
                          "superseded") EXCEPT ![p].status = "accepted"]
  /\ Finish(r)
  /\ UNCHANGED <<alive, session, loop>>

\* Nothing is locked: the row is written by its key, whatever it has become.
Reject(r) ==
  /\ At(r, "reject") /\ alive = "yes"
  /\ patch' = Mark({req[r].prev}, "rejected")
  /\ Finish(r)
  /\ UNCHANGED <<alive, text, took, session, loop>>

\* A conflict or a missing row, or the loss of a database deadlock with a deletion.
Conflict(r) ==
  /\ \/ At(r, "accept") /\ (alive # "yes" \/ Base(req[r].prev) # Current)
     \/ At(r, "reject") /\ alive = "no"
  /\ Finish(r)
  /\ UNCHANGED <<rows, loop>>

-----------------------------------------------------------------------------
(* rewrite_message: the session's row stays locked while the provider      *)
(* answers, and a second message waits for it inside its database call,    *)
(* on the event loop.                                                      *)

SessionLocked(s) == \E r \in Request : At(r, "propose") /\ req[r].session = s

\* What a message may work on: the pending patch it refines, or nothing if the
\* session has no pending patch.
Refines(s, prev) ==
  IF prev = "none" THEN Pending(PatchesOf(s)) = {} ELSE prev \in Pending(PatchesOf(s))

\* Fault: the row is not locked (as on SQLite).
MessageUnlocked(r, s, prev) ==
  /\ At(r, "idle") \/ (At(r, "wait") /\ req[r].session = s)
  /\ Up(r) /\ alive # "no"
  /\ session[s].base = Current /\ Refines(s, prev)
  /\ req' = [req EXCEPT ![r] = [pc |-> "propose", session |-> s, prev |-> prev, base |-> Current]]
  /\ loop' = [loop EXCEPT ![LoopOf[r]] = "free"]
  /\ UNCHANGED rows
Message(r, s, prev) ==
  /\ At(r, "idle") \/ (At(r, "wait") /\ req[r].session = s)
  /\ Up(r) /\ alive # "no" /\ ~SessionLocked(s)
  /\ session[s].base = Current /\ Refines(s, prev)
  /\ req' = [req EXCEPT ![r] = [pc |-> "propose", session |-> s, prev |-> prev, base |-> Current]]
  /\ loop' = [loop EXCEPT ![LoopOf[r]] = "free"]
  /\ UNCHANGED rows

WaitForSession(r, s) ==
  /\ At(r, "idle") /\ Up(r) /\ alive # "no" /\ SessionLocked(s)
  /\ req' = [req EXCEPT ![r] = [NoRequest EXCEPT !.pc = "wait", !.session = s]]
  /\ loop' = [loop EXCEPT ![LoopOf[r]] = r]
  /\ UNCHANGED rows

\* The lock is free at last, but the session is stale, gone or has another patch, or
\* there is no quota left.
MessageRefused(r) ==
  /\ At(r, "wait") /\ ~SessionLocked(req[r].session)
  /\ Finish(r)
  /\ loop' = [loop EXCEPT ![LoopOf[r]] = "free"]
  /\ UNCHANGED rows

\* The proposal is stored on the version the session is about; the patch it refines
\* is superseded by its key.  A deletion under way holds that patch's row.
Propose(r, p) ==
  /\ At(r, "propose") /\ Up(r) /\ p \in Unused
  /\ req[r].prev = "none" \/ alive = "yes"
  /\ patch' = [Mark({req[r].prev}, "superseded")
                 EXCEPT ![p] = [status |-> "pending", session |-> req[r].session]]
  /\ Finish(r)
  /\ UNCHANGED <<alive, text, took, session, loop>>

\* The provider fails or its proposal is refused; or the deletion wins the deadlock.
NoProposal(r) ==
  /\ At(r, "propose") /\ Up(r)
  /\ Finish(r)
  /\ UNCHANGED <<rows, loop>>

-----------------------------------------------------------------------------
(* first_pass_rewrite: no lock while the provider answers.                 *)

FirstPass(r) ==
  /\ At(r, "idle") /\ Up(r) /\ alive # "no"
  /\ req' = [req EXCEPT ![r] = [NoRequest EXCEPT !.pc = "first_pass", !.base = Current]]
  /\ UNCHANGED <<rows, loop>>

\* The document is locked and its version compared before the batch is stored.
\* Fault: neither is looked at again.
StoreBatchUnchecked(r, s, batch) ==
  /\ At(r, "first_pass") /\ Up(r)
  /\ session[s] = NoSession /\ batch # {}
  /\ session' = [session EXCEPT ![s] = [base |-> req[r].base, batch |-> TRUE]]
  /\ patch' = [p \in Patch |-> IF p \in batch THEN [status |-> "pending", session |-> s] ELSE patch[p]]
  /\ Finish(r)
  /\ UNCHANGED <<alive, text, took, loop>>
StoreBatch(r, s, batch) ==
  /\ At(r, "first_pass") /\ Up(r)
  /\ alive # "no" /\ req[r].base = Current
  /\ session[s] = NoSession /\ batch # {}
  /\ session' = [session EXCEPT ![s] = [base |-> Current, batch |-> TRUE]]
  /\ patch' = [p \in Patch |-> IF p \in batch THEN [status |-> "pending", session |-> s] ELSE patch[p]]
  /\ Finish(r)
  /\ UNCHANGED <<alive, text, took, loop>>

NoBatch(r) ==
  /\ At(r, "first_pass") /\ Up(r)
  /\ Finish(r)
  /\ UNCHANGED <<rows, loop>>

-----------------------------------------------------------------------------
(* delete_document, and the hourly clean-up: patches first, then sessions, *)
(* which waits for their locks, the document last; rows inserted meanwhile *)
(* go with it by the cascade of their foreign keys.                        *)

StartDelete ==
  /\ Deletes /\ alive = "yes"
  /\ alive' = "deleting"
  /\ UNCHANGED <<text, took, session, patch, req, loop>>

FinishDelete ==
  /\ alive = "deleting" /\ \A s \in Session : ~SessionLocked(s)
  /\ alive' = "no"
  /\ session' = [s \in Session |-> NoSession]
  /\ patch' = [p \in Patch |-> NoPatch]
  /\ UNCHANGED <<text, took, req, loop>>

\* Chosen as the victim of a database deadlock.
FailDelete ==
  /\ alive = "deleting"
  /\ alive' = "yes"
  /\ UNCHANGED <<text, took, session, patch, req, loop>>

Handle(r) ==
  \/ Accept(r) \/ Reject(r) \/ Conflict(r)
  \/ MessageRefused(r) \/ NoProposal(r) \/ NoBatch(r)
  \/ \E p \in Patch : Propose(r, p)
  \/ \E s \in Session, batch \in SUBSET Unused : StoreBatch(r, s, batch)

Arrive(r) ==
  \/ FirstPass(r)
  \/ \E p \in Patch, pc \in {"accept", "reject"} : ReadPatch(r, p, pc)
  \/ \E s \in Session : WaitForSession(r, s)

Chat(r) == \E s \in Session, prev \in Patch \cup {"none"} : Message(r, s, prev)

Next ==
  \/ Save \/ \E v \in 1..Current : RestoreVersion(v)
  \/ \E s \in Session : OpenSession(s)
  \/ \E s \in Session, accepted \in SUBSET Patch : DecideBatch(s, accepted)
  \/ \E r \in Request : Arrive(r) \/ Chat(r) \/ Handle(r)
  \/ StartDelete \/ FinishDelete \/ FailDelete

Spec == Init /\ [][Next]_vars

\* A request that has begun goes on when its process and its locks let it.
FairSpec == Spec /\ \A r \in Request : WF_vars(Handle(r))

-----------------------------------------------------------------------------
TypeOK ==
  /\ alive \in {"yes", "deleting", "no"}
  /\ text \in Seq(SUBSET Patch) /\ Current \in 1..MaxVersion
  /\ took \in [Patch -> 0..MaxVersion]
  /\ session \in [Session -> [base : 0..MaxVersion, batch : BOOLEAN]]
  /\ patch \in [Patch -> [status : PatchStatus, session : Session \cup {"none"}]]
  /\ req \in [Request -> [pc : {"idle", "accept", "reject", "wait", "propose", "first_pass", "done"},
                          session : Session \cup {"none"}, prev : Patch \cup {"none"},
                          base : 0..MaxVersion]]
  /\ loop \in [Loop -> Request \cup {"free"}]

\* A patch is applied to the very text it was proposed for: its acceptance created
\* the successor of its base version, whatever was saved, restored or accepted while
\* it was pending.
AppliedToBase ==
  \A p \in Patch : took[p] # 0 /\ patch[p] # NoPatch => took[p] = Base(p) + 1

\* A session of single proposals never has two of them pending (main.py: concurrent
\* clicks cannot create two independently pending successors).
OnePending ==
  \A s \in Session : ~session[s].batch => Cardinality(Pending(PatchesOf(s))) <= 1

\* Nothing of the document outlives its deletion, although providers answer late.
NothingOutlives ==
  alive = "no" => (\A s \in Session : session[s] = NoSession) /\ Unused = Patch

\* docs/PUBLIC_LAUNCH.md: a document for which real AI suggestions were accepted says
\* so when it is exported; the export looks for accepted patches.
Disclosed ==
  alive # "no" => \A p \in Patch : took[p] # 0 => \E q \in Patch : patch[q].status = "accepted"

\* A message that waits for its session or its provider is answered in the end.
MessagesEnd == \A r \in Request : (req[r].pc \in {"wait", "propose"}) ~> At(r, "done")
=============================================================================
