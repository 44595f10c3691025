----------------------------- MODULE Workspace -----------------------------
(***************************************************************************)
(* The browser workspace: Workspace.tsx, the page that mounts it           *)
(* (app/page.tsx) and its calls (lib/api.ts), with the answers of main.py. *)
(*                                                                         *)
(* One operation runs at a time (the ref `working`), but each is several   *)
(* awaited calls made with the document and draft of the click; meanwhile  *)
(* another device may save or delete, and the list that is read after a    *)
(* deletion, which nobody awaits, may arrive.  The editor is closed while  *)
(* an operation runs or a dialog is open.                                  *)
(*                                                                         *)
(* A text is the set of the author's edits it holds.  A call that fails    *)
(* was refused, never arrived, or was carried out and its answer lost.  A  *)
(* paid call that its page gave up on may begin and end much later: the    *)
(* server waits for a session's row, then for the provider.                *)
(***************************************************************************)
EXTENDS Integers, Sequences, SequencesExt

CONSTANTS
  Doc,         \* documents of the account
  Edit,        \* what the author may type
  MaxVersions, \* [Doc -> Nat], the most versions explored
  MaxIds,      \* [Doc -> Nat], the most rewrite sessions and patches explored
  MaxTrouble   \* the most answers lost and acts of other devices explored

ASSUME WorkspaceAssumption ==
  /\ MaxVersions \in [Doc -> Nat \ {0}]
  /\ MaxIds \in [Doc -> Nat] /\ MaxTrouble \in Nat

VARIABLES
  alive,      \* documents that are stored
  versions,   \* the texts of each document's versions
  ids,        \* the ids given to each document's rewrite sessions and patches so far
  pending,    \* the patches of messages and the batches of first passes that wait
  page,       \* what the page shows
  dialog,     \* the dialog over it
  job,        \* the operation that runs
  late,       \* answers under way to onDeleted's refresh
  key,        \* the operations in requestKeys with a key the server has a unit for
  adrift,     \* paid calls their page gave up on
  paid,       \* history: what was charged and not answered
  once,       \* history: whether nothing was charged twice
  owed,       \* history: edits typed and not given up
  exported,   \* history: whether every export wrote what the author saw
  trouble     \* how many answers were lost and how often another device acted

stored == <<alive, versions, ids, pending>>
books  == <<key, adrift, paid, once>>
vars   == <<stored, page, dialog, job, late, books, owed, exported, trouble>>

NoDoc    == "no document"
Versions == UNION {1..MaxVersions[d] : d \in Doc}
Paid     == {"analysis", "message", "firstPass"}

\* A rewrite session is of one version; a patch is of a session.
Session == [id : Nat \ {0}, doc : Doc, base : Versions]
Patch   == [id : Nat \ {0}, of : Session]

NoSession  == [id |-> 0, doc |-> NoDoc, base |-> 0]
NoPatch    == [id |-> 0, of |-> NoSession]
NoProposal == [patches |-> {}, batches |-> {}]
NoNav      == [to |-> "none", doc |-> NoDoc, ver |-> 0]
NoDialog   == [kind |-> "none", nav |-> NoNav]
NoJob      == [do |-> "none", at |-> "none", doc |-> NoDoc, base |-> 0, text |-> {},
               session |-> NoSession, patch |-> NoPatch, shown |-> 0, nav |-> NoNav]
Asked      == [doc |-> NoDoc, base |-> 0]
Away(view) == [view |-> view, doc |-> NoDoc, base |-> 0, draft |-> {}, dirty |-> FALSE,
               session |-> NoSession, patch |-> NoPatch, batch |-> NoSession]

Latest(d) == Len(versions[d])
Stored(D) == UNION {UNION Range(versions[d]) : d \in D}

\* The document lists its proposals, the newest first.
Newest(S, none) ==
  IF \E x \in S : \A y \in S : y.id <= x.id
  THEN CHOOSE x \in S : \A y \in S : y.id <= x.id ELSE none
PatchOf(d, v, proposals) ==
  Newest({p \in proposals.patches : p.of.doc = d /\ p.of.base = v}, NoPatch)
BatchOf(d, v, proposals) ==
  Newest({b \in proposals.batches : b.doc = d /\ b.base = v}, NoSession)

\* A document put on the page: another document or version resets the draft, the patch
\* and its session; the same version only brings its batch.  The component itself stays.
\* Fault: the effect that resets the draft is missing.
Shows(p, d, v, text, proposals) ==
  LET same  == p.view = "workspace" /\ p.doc = d /\ p.base = v
      patch == PatchOf(d, v, proposals)
  IN  [view |-> "workspace", doc |-> d, base |-> v, draft |-> text,
       dirty |-> same /\ p.dirty,
       session |-> IF same THEN p.session ELSE patch.of,
       patch |-> IF same THEN p.patch ELSE patch,
       batch |-> BatchOf(d, v, proposals)]
ShowOldDraft(p, d, v, texts, proposals) ==
  Shows(p, d, v, IF p.view = "workspace" THEN p.draft ELSE texts[d][v], proposals)
Show(p, d, v, texts, proposals) ==
  Shows(p, d, v, IF p.view = "workspace" /\ p.doc = d /\ p.base = v THEN p.draft
                 ELSE texts[d][v], proposals)

\* A paid request: its session, or its version, the patch it refines, and the patch on
\* the page when it was asked for, after which a message is named.  Between the two a
\* draft may have been saved.  All messages have one instruction.
Request(j) ==
  [do |-> j.do, prev |-> j.patch, shown |-> j.shown,
   on |-> IF j.do = "message" THEN j.session ELSE [id |-> 0, doc |-> j.doc, base |-> j.base]]
operation(r) == [do |-> r.do, on |-> r.on, shown |-> r.shown]
Ask(r)       == [do |-> r.do, on |-> r.on, prev |-> r.prev]

\* The paid call that the page waits for, given up.
Underway == IF job.at \in {"post", "run"}
            THEN {[request |-> Request(job), begun |-> job.at = "run", held |-> TRUE]} ELSE {}

\* The keys go with the component; what still runs is then nobody's.
Forget == /\ key' = {} /\ paid' = {} /\ once' = once
          /\ adrift' = {[c EXCEPT !.held = FALSE] : c \in adrift \cup Underway}

Init ==
  /\ alive = Doc /\ versions = [d \in Doc |-> <<{}>>]
  /\ ids = [d \in Doc |-> 0] /\ pending = NoProposal
  /\ \E d \in Doc : page = [Away("workspace") EXCEPT !.doc = d, !.base = 1]
  /\ dialog = NoDialog /\ job = NoJob /\ late = {}
  /\ key = {} /\ adrift = {} /\ paid = {} /\ once = TRUE
  /\ owed = {} /\ exported = TRUE /\ trouble = 0

-----------------------------------------------------------------------------
(* The author at the page.                                                 *)

AtWork == page.view = "workspace" /\ job = NoJob
Ready  == AtWork /\ dialog = NoDialog

\* An edit typed while a late answer is under way is at its mercy (see DraftHolds).
updateParagraph(e) ==
  /\ Ready
  /\ e \notin page.draft \cup owed \cup Stored(Doc)
  /\ page' = [page EXCEPT !.draft = @ \cup {e}, !.dirty = TRUE]
  /\ owed' = IF late = {} THEN owed \cup {e} ELSE owed
  /\ UNCHANGED <<stored, dialog, job, late, books, exported, trouble>>

\* A click captures the document, its version, and the draft (`run`: one at a time).
Begin(do, at, doc, base, text) ==
  job' = [NoJob EXCEPT !.do = do, !.at = at, !.doc = doc, !.base = base, !.text = text]

\* A draft is saved before anything else is asked for.
Click(do, next) ==
  /\ Begin(do, IF page.dirty THEN "save" ELSE next, page.doc, page.base, page.draft)
  /\ UNCHANGED <<stored, page, dialog, late, books, owed, exported, trouble>>

ClickSave       == Ready /\ page.dirty /\ Click("save", "save")
exportDraft     == Ready /\ Click("export", "export")
analyze         == Ready /\ Click("analysis", "post")
initialOneClickRewrite ==
  /\ Ready /\ ~page.dirty /\ page.patch = NoPatch /\ page.batch = NoSession
  /\ Click("firstPass", "post")

\* A message refines the patch on the page, in its session, or goes on in the session
\* that the page knows.  After a save it starts a new one.
propose ==
  LET patch   == IF page.dirty THEN NoPatch ELSE page.patch
      session == IF page.dirty THEN NoSession
                 ELSE IF patch # NoPatch THEN patch.of ELSE page.session
  IN  /\ Ready
      /\ job' = [do |-> "message", doc |-> page.doc, base |-> page.base, text |-> page.draft,
                 at |-> IF page.dirty THEN "save"
                        ELSE IF session = NoSession THEN "session" ELSE "post",
                 session |-> session, patch |-> patch, shown |-> page.patch.id, nav |-> NoNav]
      /\ UNCHANGED <<stored, page, dialog, late, books, owed, exported, trouble>>

\* Decisions on proposals are refused while the draft is dirty.
\* Fault: they are not, since they concern another version than the draft.
UndisturbedAlways == TRUE
Undisturbed == ~page.dirty

Decide(do, session, patch) ==
  /\ Ready
  /\ job' = [NoJob EXCEPT !.do = do, !.at = do, !.doc = session.doc, !.base = session.base,
                          !.session = session, !.patch = patch]
  /\ UNCHANGED <<stored, page, dialog, late, books, owed, exported, trouble>>
accept      == page.patch # NoPatch /\ Undisturbed /\ Decide("accept", page.patch.of, page.patch)
reject      == page.patch # NoPatch /\ Decide("reject", page.patch.of, page.patch)
decideBatch == page.batch # NoSession /\ Undisturbed
               /\ \E do \in {"batch", "decline"} : Decide(do, page.batch, NoPatch)

\* Where the author goes, once the draft is settled.  Leaving the workspace unmounts
\* it, and the keys it held with it; a logout clears the session even if its call fails.
\* The billing and account panels open over the workspace and change nothing in it.
Perform(nav, p) ==
  \/ /\ nav.to = "open"
     /\ page' = p /\ dialog' = NoDialog
     /\ job' = [NoJob EXCEPT !.do = "open", !.at = "open", !.doc = nav.doc]
     /\ UNCHANGED books
  \/ /\ nav.to \in {"create", "login"}
     /\ page' = Away(nav.to) /\ dialog' = NoDialog /\ job' = NoJob
     /\ Forget
  \/ /\ nav.to = "restore"
     /\ page' = p /\ job' = NoJob /\ dialog' = [kind |-> "restore", nav |-> nav]
     /\ UNCHANGED books

Goals ==
  {[to |-> "open", doc |-> d, ver |-> 0] : d \in Doc \ {page.doc}}
  \cup {[to |-> t, doc |-> NoDoc, ver |-> 0] : t \in {"create", "login"}}
  \cup {[to |-> "restore", doc |-> page.doc, ver |-> v] : v \in 1..(page.base - 1)}

navigate(nav) ==
  /\ Ready /\ nav \in Goals
  /\ IF page.dirty
     THEN dialog' = [kind |-> "unsaved", nav |-> nav] /\ UNCHANGED <<page, job, books>>
     ELSE Perform(nav, page)
  /\ UNCHANGED <<stored, late, owed, exported, trouble>>

\* The unsaved draft is given up, or saved first; without a save nobody leaves.
leaveDraft(save) ==
  /\ AtWork /\ dialog.kind = "unsaved"
  /\ IF save /\ page.dirty
     THEN /\ job' = [NoJob EXCEPT !.do = "leave", !.at = "save", !.doc = page.doc,
                        !.base = page.base, !.text = page.draft, !.nav = dialog.nav]
          /\ UNCHANGED <<page, dialog, books, owed>>
     ELSE LET old == versions[page.doc][page.base]
          IN  /\ Perform(dialog.nav, [page EXCEPT !.draft = old, !.dirty = FALSE])
              /\ owed' = owed \ (page.draft \ old)
  /\ UNCHANGED <<stored, late, exported, trouble>>

cancelDialog ==
  /\ AtWork /\ dialog # NoDialog /\ dialog' = NoDialog
  /\ UNCHANGED <<stored, page, job, late, books, owed, exported, trouble>>

remove ==
  /\ Ready /\ dialog' = [kind |-> "delete", nav |-> NoNav]
  /\ UNCHANGED <<stored, page, job, late, books, owed, exported, trouble>>

\* The button of an open dialog: the document is the one shown when it is pressed.
Confirm ==
  /\ AtWork /\ dialog.kind \in {"restore", "delete"}
  /\ job' = [NoJob EXCEPT !.do = dialog.kind, !.at = dialog.kind, !.doc = page.doc,
                          !.base = page.base, !.nav = dialog.nav]
  /\ UNCHANGED <<stored, page, dialog, late, books, owed, exported, trouble>>

\* A lost answer, or an act of another device.
Troubled == trouble < MaxTrouble /\ trouble' = trouble + 1
Lost(answered) == IF answered THEN UNCHANGED trouble ELSE Troubled

\* A reload or a closed tab, of which the browser warns while there is something
\* to lose; and the page that comes up again, with the document of the list.
reload ==
  /\ page.view = "workspace"
  /\ page' = Away("login") /\ dialog' = NoDialog /\ job' = NoJob /\ late' = {}
  /\ Forget
  /\ Lost(Underway = {})
  /\ owed' = IF page.dirty THEN owed \ page.draft ELSE owed
  /\ UNCHANGED <<stored, exported>>
refreshList(d) ==
  /\ page.view \in {"create", "login"} /\ d \in alive
  /\ page' = Show(page, d, Latest(d), versions, pending)
  /\ UNCHANGED <<stored, dialog, job, late, books, owed, exported, trouble>>

-----------------------------------------------------------------------------
(* The calls: carried out, with the answer received or lost.               *)

Without(d) == [patches |-> {p \in pending.patches : p.of.doc # d},
               batches |-> {b \in pending.batches : b.doc # d}]

\* The server adds a version to the one the caller knows.  What was proposed for earlier
\* ones can only be rejected from then on, and is dropped.
Commits(d, base, text) ==
  /\ d \in alive /\ base = Latest(d) /\ base < MaxVersions[d]
  /\ versions' = [versions EXCEPT ![d] = Append(@, text)]
  /\ pending' = Without(d)
  /\ UNCHANGED ids

\* The error is shown, and everything on the screen stays as it is.
Over == job' = NoJob /\ UNCHANGED <<page, dialog, books>>

SaveDraft(answered) ==
  /\ job.at = "save" /\ Commits(job.doc, job.base, job.text)
  /\ LET v == job.base + 1
         p == Show(page, job.doc, v, versions', pending')
         j == [job EXCEPT !.base = v]
     IN  \/ ~answered /\ Over
         \/ answered /\ job.do = "leave" /\ Perform(job.nav, p)
         \/ /\ answered /\ job.do # "leave"
            /\ page' = p
            /\ job' = IF job.do = "save" THEN NoJob
                      ELSE IF job.do = "export" THEN [j EXCEPT !.at = "export"]
                      ELSE [j EXCEPT !.at = IF job.do = "message" THEN "session" ELSE "post",
                                     !.text = {}]
            /\ UNCHANGED <<dialog, books>>
  /\ Lost(answered)
  /\ UNCHANGED <<alive, late, owed, exported>>

\* The server exports the version it has, if it is the expected one.
downloadExport ==
  /\ job.at = "export" /\ job.doc \in alive /\ job.base = Latest(job.doc)
  /\ exported' = (exported /\ versions[job.doc][Latest(job.doc)] = job.text)
  /\ job' = NoJob
  /\ UNCHANGED <<stored, page, dialog, late, books, owed, trouble>>

\* The next id for a document.
NextId(d) == ids[d] < MaxIds[d] /\ ids' = [ids EXCEPT ![d] = @ + 1]

\* A rewrite session is begun for the current version.
createSession ==
  LET session == [id |-> ids[job.doc] + 1, doc |-> job.doc, base |-> job.base]
  IN  /\ job.at = "session" /\ job.doc \in alive /\ job.base = Latest(job.doc)
      /\ NextId(job.doc)
      /\ page' = [page EXCEPT !.session = session]
      /\ job' = [job EXCEPT !.at = "post", !.session = session]
      /\ UNCHANGED <<alive, versions, pending, dialog, late, books, owed, exported, trouble>>

\* The key of an operation is the one it holds from an earlier try, or a new one: does
\* the server have a unit for it already, reserved or charged?  (product_request_key
\* takes the browser's key as it is; ProductUsage says how a unit is reserved for it.)
\* Fault: every try takes a new key.
requestKeyNew(op) == FALSE
requestKey(op) == op \in key

\* A message holds the row of its session until it ends.
Locked(session) ==
  \/ job.at = "run" /\ job.do = "message" /\ job.session = session
  \/ \E c \in adrift : c.begun /\ c.request.do = "message" /\ c.request.on = session

\* The server takes a paid request up, and reserves a unit for its key.  A message
\* refines a patch that waits in its session, or finds none there.
Admitted(r) ==
  /\ r.on.doc \in alive
  /\ r.do # "analysis" => r.on.base = Latest(r.on.doc)
  /\ r.do = "message" =>
       /\ ~Locked(r.on)
       /\ IF r.prev = NoPatch THEN \A p \in pending.patches : p.of # r.on
          ELSE r.prev \in pending.patches /\ r.prev.of = r.on

\* It is carried out: a message leaves its patch in place of the one it refines, even if
\* that was rejected or the version is no longer the current one; a first pass leaves a
\* batch beside whatever waits, if the version still is.
CarriedOut(r) ==
  LET new == ids[r.on.doc] + 1
  IN  /\ r.on.doc \in alive
      /\ \/ r.do = "analysis" /\ UNCHANGED <<ids, pending>>
         \/ /\ r.do = "message" /\ NextId(r.on.doc)
            /\ pending' = [pending EXCEPT !.patches = IF r.on.base = Latest(r.on.doc)
                            THEN (@ \ {r.prev}) \cup {[id |-> new, of |-> r.on]} ELSE @]
         \/ /\ r.do = "firstPass" /\ r.on.base = Latest(r.on.doc) /\ NextId(r.on.doc)
            /\ pending' = [pending EXCEPT !.batches = @ \cup {[r.on EXCEPT !.id = new]}]

\* A reserved unit is released when the work fails; a crash leaves it until it expires.
Released(op) ==
  \/ key' = key \ {op} /\ UNCHANGED trouble
  \/ UNCHANGED key /\ Troubled

\* Once the answer is there, the key is forgotten; a call given up on under this key that
\* has not begun will find it spent.
completeRequest(r) ==
  /\ key' = key \ {operation(r)} /\ paid' = paid \ {Ask(r)}
  /\ adrift' = {c \in adrift : c.held => operation(c.request) # operation(r)}

StartPaid ==
  LET r == Request(job)
  IN  /\ job.at = "post" /\ Admitted(r) /\ ~requestKey(operation(r))
      /\ key' = key \cup {operation(r)} /\ job' = [job EXCEPT !.at = "run"]
      /\ UNCHANGED <<stored, page, dialog, late, adrift, paid, once, owed, exported, trouble>>

\* A charge is the second if the same was charged and not answered.
PostPaid ==
  LET r == Request(job)
      q == Show(page, job.doc, job.base, versions, pending')
  IN  /\ job.at = "run" /\ CarriedOut(r)
      /\ completeRequest(r)
      /\ once' = (once /\ Ask(r) \notin paid)
      /\ page' = CASE job.do = "message"   ->
                        [page EXCEPT !.patch = [id |-> ids'[r.on.doc], of |-> r.on],
                                     !.session = r.on]
                   [] job.do = "firstPass" ->
                        IF page.doc = job.doc /\ page.base = job.base
                        THEN [q EXCEPT !.patch = NoPatch, !.session = NoSession] ELSE q
                   [] OTHER                -> page
      /\ job' = IF job.do = "analysis" THEN [job EXCEPT !.at = "refresh"] ELSE NoJob
      /\ UNCHANGED <<alive, versions, dialog, late, owed, exported, trouble>>

PaidFails ==
  /\ job.at = "run" /\ job' = NoJob
  /\ Released(operation(Request(job)))
  /\ UNCHANGED <<stored, page, dialog, late, adrift, paid, once, owed, exported>>

\* The page gives up on a paid call, and the server does not.
GiveUp ==
  /\ Underway # {} /\ adrift' = adrift \cup Underway
  /\ job' = NoJob /\ Troubled
  /\ UNCHANGED <<stored, page, dialog, late, key, paid, once, owed, exported>>

\* What becomes of it.  A call of a page that is gone has a key that nobody holds.
Adrift(c) ==
  LET r    == c.request
      rest == adrift \ {c}
  IN  /\ \/ /\ ~c.begun /\ Admitted(r) /\ (c.held => ~requestKey(operation(r)))
            /\ key' = IF c.held THEN key \cup {operation(r)} ELSE key
            /\ adrift' = rest \cup {[c EXCEPT !.begun = TRUE]}
            /\ UNCHANGED <<ids, pending, paid, once, trouble>>
         \/ /\ c.begun /\ CarriedOut(r) /\ adrift' = rest
            /\ paid' = IF c.held THEN paid \cup {Ask(r)} ELSE paid
            /\ once' = (once /\ (c.held => Ask(r) \notin paid))
            /\ UNCHANGED <<key, trouble>>
         \/ /\ adrift' = rest
            /\ IF c.begun /\ c.held THEN Released(operation(r)) ELSE UNCHANGED <<key, trouble>>
            /\ UNCHANGED <<ids, pending, paid, once>>
      /\ UNCHANGED <<alive, versions, page, dialog, job, late, owed, exported>>

\* The document is read: after an analysis, or to open another one.
fetchDocument ==
  /\ job.at \in {"refresh", "open"} /\ job.doc \in alive
  /\ page' = Show(page, job.doc, Latest(job.doc), versions, pending)
  /\ job' = NoJob
  /\ UNCHANGED <<stored, dialog, late, books, owed, exported, trouble>>

Accepts(answered) ==
  /\ job.at \in {"accept", "batch"}
  /\ IF job.do = "accept" THEN job.patch \in pending.patches ELSE job.session \in pending.batches
  /\ Commits(job.doc, job.base, versions[job.doc][job.base])
  /\ \/ ~answered /\ Over
     \/ /\ answered
        /\ page' = Show(page, job.doc, job.base + 1, versions', pending')
        /\ job' = NoJob /\ UNCHANGED <<dialog, books>>
  /\ Lost(answered)
  /\ UNCHANGED <<alive, late, owed, exported>>

\* A rejected patch leaves the page, and a message that begins the session anew may be
\* charged.
reject_patch(answered) ==
  /\ job.at = "reject" /\ job.doc \in alive
  /\ job.patch \in pending.patches \/ job.base < Latest(job.doc)
  /\ pending' = [pending EXCEPT !.patches = @ \ {job.patch}]
  /\ page' = IF answered THEN [page EXCEPT !.patch = NoPatch] ELSE page
  /\ job' = NoJob
  /\ paid' = {a \in paid : a.on # job.patch.of \/ a.prev # NoPatch}
  /\ Lost(answered)
  /\ UNCHANGED <<alive, versions, ids, dialog, late, key, adrift, once, owed, exported>>

\* A declined batch comes back as a document.
Declines(answered) ==
  /\ job.at = "decline" /\ job.doc \in alive /\ job.base = Latest(job.doc)
  /\ job.session \in pending.batches
  /\ pending' = [pending EXCEPT !.batches = @ \ {job.session}]
  /\ page' = IF answered THEN Show(page, job.doc, job.base, versions, pending') ELSE page
  /\ job' = NoJob
  /\ Lost(answered)
  /\ UNCHANGED <<alive, versions, ids, dialog, late, books, owed, exported>>

\* A version of another document is not found.
confirmRestore(answered) ==
  /\ job.at = "restore" /\ job.nav.doc = job.doc
  /\ Commits(job.doc, job.base, versions[job.doc][job.nav.ver])
  /\ \/ ~answered /\ Over
     \/ /\ answered
        /\ page' = Show(page, job.doc, job.base + 1, versions', pending')
        /\ dialog' = NoDialog /\ job' = NoJob /\ UNCHANGED books
  /\ Lost(answered)
  /\ UNCHANGED <<alive, late, owed, exported>>

\* A document goes with its sessions and patches.
Delete(d) ==
  /\ d \in alive /\ alive' = alive \ {d}
  /\ pending' = Without(d)
  /\ UNCHANGED <<versions, ids>>

\* A deletion takes the texts of its document with it, and the draft the author saw
\* when he confirmed.  onDeleted starts to read the list; nobody waits for it, and the
\* dialog stays open.
confirmRemove(answered) ==
  /\ job.at = "delete" /\ Delete(job.doc)
  /\ owed' = owed \ ({e \in page.draft : page.doc = job.doc}
                     \cup UNION Range(versions[job.doc]))
  /\ job' = NoJob
  /\ late' = IF answered THEN late \cup {Asked} ELSE late
  /\ Lost(answered)
  /\ UNCHANGED <<page, dialog, books, exported>>

\* Refused or not delivered.  A key that was taken waits for the next try.
CallFails ==
  /\ job # NoJob /\ job.at # "run" /\ Over
  /\ UNCHANGED <<stored, late, owed, exported, trouble>>

\* The refresh after a deletion reads the list and a document of it, and puts it on
\* the page whenever it is there.  Without documents the page goes to the creation.
LateRead ==
  /\ Asked \in late /\ page.view # "login"
  /\ \/ \E d \in alive :
          /\ late' = (late \ {Asked}) \cup {[doc |-> d, base |-> Latest(d)]}
          /\ UNCHANGED <<page, dialog, job, books>>
     \/ /\ alive = {} /\ late' = late \ {Asked}
        /\ page' = Away("create") /\ dialog' = NoDialog /\ job' = NoJob /\ Forget
  /\ UNCHANGED <<stored, owed, exported, trouble>>
LateLands(r) ==
  /\ r \in late \ {Asked} /\ late' = late \ {r}
  /\ IF page.view = "login" THEN UNCHANGED page
     ELSE page' = Show(page, r.doc, r.base, versions, pending)
  /\ UNCHANGED <<stored, dialog, job, books, owed, exported, trouble>>
LateFails(r) ==
  /\ r \in late /\ late' = late \ {r}
  /\ UNCHANGED <<stored, page, dialog, job, books, owed, exported, trouble>>

\* Another device of the author, or the retention: a version is restored, or the
\* document goes.
EditElsewhere(d) ==
  /\ \E v \in 1..Latest(d) : Commits(d, Latest(d), versions[d][v])
  /\ Troubled
  /\ UNCHANGED <<alive, page, dialog, job, late, books, owed, exported>>
DeleteElsewhere(d) ==
  /\ Delete(d)
  /\ owed' = owed \ UNION Range(versions[d])
  /\ Troubled
  /\ UNCHANGED <<page, dialog, job, late, books, exported>>

Clicks ==
  \/ ClickSave \/ exportDraft \/ analyze \/ propose \/ initialOneClickRewrite
  \/ accept \/ reject \/ decideBatch \/ remove \/ Confirm \/ cancelDialog
  \/ \E nav \in Goals : navigate(nav)
  \/ \E save \in BOOLEAN : leaveDraft(save)
  \/ \E e \in Edit : updateParagraph(e)
  \/ reload

Call(answered) ==
  \/ SaveDraft(answered) \/ Accepts(answered) \/ reject_patch(answered)
  \/ Declines(answered) \/ confirmRestore(answered) \/ confirmRemove(answered)

PaidCall ==
  \/ createSession \/ StartPaid \/ PostPaid \/ PaidFails \/ GiveUp
  \/ \E c \in adrift : Adrift(c)

Answers ==
  \/ \E answered \in BOOLEAN : Call(answered)
  \/ PaidCall
  \/ downloadExport \/ fetchDocument \/ CallFails
  \/ LateRead \/ \E r \in late : LateLands(r) \/ LateFails(r)
  \/ \E d \in Doc : refreshList(d)

Elsewhere == \E d \in Doc : EditElsewhere(d) \/ DeleteElsewhere(d)

Next == Clicks \/ Answers \/ Elsewhere

Spec == Init /\ [][Next]_vars

-----------------------------------------------------------------------------
\* Every variable keeps its type; a clean draft is the version it is shown for.
TypeOK ==
  /\ alive \subseteq Doc
  /\ \A d \in Doc : versions[d] \in Seq(SUBSET Edit) /\ Latest(d) \in 1..MaxVersions[d]
  /\ \A d \in Doc : ids[d] \in 0..MaxIds[d]
  /\ pending.patches \subseteq Patch /\ pending.batches \subseteq Session
  /\ page.view \in {"workspace", "create", "login"}
  /\ page.view = "workspace" =>
       /\ page.doc \in Doc /\ page.base \in 1..Latest(page.doc) /\ page.draft \subseteq Edit
       /\ page.dirty \/ page.draft = versions[page.doc][page.base]
  /\ dialog.kind \in {"none", "unsaved", "restore", "delete"}
  /\ job.at \in {"none", "save", "export", "session", "post", "run", "refresh", "open", "accept",
                 "batch", "decline", "reject", "restore", "delete"}
  /\ page.patch \in Patch \cup {NoPatch}
  /\ {page.session, page.batch} \subseteq Session \cup {NoSession}
  /\ owed \subseteq Edit /\ trouble \in 0..MaxTrouble

\* README.md: "Export first saves the draft and binds the download to that version;
\* failed/conflicting saves keep the draft on screen.  New/open/logout/restore actions
\* offer save/discard/cancel".  Whatever fails, is lost or overlaps, an edit that was
\* not given up is on the screen or in a version of a stored document, and an exported
\* file holds what was on the screen.  Edits typed while the refresh of a deletion is
\* under way are no part of it: nothing protects them from its answer.
DraftHolds ==
  /\ owed \subseteq page.draft \cup Stored(alive)
  /\ exported

\* docs/BILLING.md: "The browser creates a new random key only when the owner explicitly
\* starts a new operation".  However often an analysis or first pass of a version, or a
\* message that refines a patch or goes on in a session, is asked for again, and however
\* late a call that was given up on is carried out, it is charged once: until its answer
\* is seen, the workspace is left, or, for a message that refines nothing, a proposal of
\* its session was rejected.  A message in another session, and the same request in
\* another month (the server hashes the month into the key), is another one.
PaidOnce == once
=============================================================================
