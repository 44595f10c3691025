---------------------------- MODULE WorkspaceProofs ----------------------------
(***************************************************************************)
(* Proofs about the workspace.  DraftHolds rests on when an edit is at     *)
(* risk, that is in no version of a stored document: then it is in the     *)
(* draft on the screen, no answer that would replace the draft is under    *)
(* way, and the operation that runs, if any, saves this very draft, leaves *)
(* it alone, or deletes its document.  PaidOnce rests on why the server    *)
(* does not take up again what it charged and nobody saw: the key of an    *)
(* analysis or first pass has a unit, and a message finds its patch gone,  *)
(* another one waiting in its session, or its version superseded.          *)
(***************************************************************************)
EXTENDS Workspace, TLAPS

SomeSession == Session \cup {NoSession}
SomePatch   == Patch \cup {NoPatch}
Waiting     == [patches : SUBSET Patch, batches : SUBSET Session]
Page   == [view : {"workspace", "create", "login"}, doc : Doc \cup {NoDoc},
           base : Versions \cup {0}, draft : SUBSET Edit, dirty : BOOLEAN,
           session : SomeSession, patch : SomePatch, batch : SomeSession]
Nav    == [to : {"none", "open", "create", "login", "restore"}, doc : Doc \cup {NoDoc},
           ver : Versions \cup {0}]
Dialog == [kind : {"none", "unsaved", "restore", "delete"}, nav : Nav]
At     == {"none", "save", "export", "session", "post", "run", "refresh", "open", "accept",
           "batch", "decline", "reject", "restore", "delete"}
Job    == [do : {"none", "save", "leave"} \cup Paid \cup At, at : At, doc : Doc \cup {NoDoc},
           base : Versions \cup {0}, text : SUBSET Edit, session : SomeSession,
           patch : SomePatch, shown : Nat, nav : Nav]

\* A paid request, and a call of it that its page gave up on.
Place  == [id : Nat, doc : Doc \cup {NoDoc}, base : Versions \cup {0}]
Asking == [do : Paid, prev : SomePatch, shown : Nat, on : Place]
Called == {c \in [request : Asking, begun : BOOLEAN, held : BOOLEAN] :
             c.request.do = "message" => c.request.on \in Session}

Offers ==
  /\ pending \in Waiting
  /\ ids \in [Doc -> Nat] /\ \A d \in Doc : ids[d] <= MaxIds[d]

Typed ==
  /\ alive \subseteq Doc
  /\ versions \in [Doc -> Seq(SUBSET Edit)]
  /\ \A d \in Doc : Latest(d) \in 1..MaxVersions[d]
  /\ Offers
  /\ page \in Page /\ dialog \in Dialog /\ job \in Job
  /\ late \subseteq {Asked} \cup [doc : Doc, base : Versions]
  /\ adrift \subseteq Called
  /\ owed \subseteq Edit /\ exported \in BOOLEAN /\ trouble \in 0..MaxTrouble

\* Whatever names a version names one that its document has.
Has(d, v)    == d \in Doc /\ v \in 1..Latest(d)
NavFits(nav) == nav.to = "restore" => Has(nav.doc, nav.ver)
PageFits(p, texts) ==
  p.view = "workspace" =>
    /\ p.doc \in Doc /\ p.base \in 1..Len(texts[p.doc])
    /\ p.dirty \/ p.draft = texts[p.doc][p.base]
Fits ==
  /\ PageFits(page, versions)
  /\ NavFits(dialog.nav) /\ NavFits(job.nav)
  /\ \A r \in late \ {Asked} : Has(r.doc, r.base)
  /\ job.at = "save" => job.do \in {"save", "leave", "export"} \cup Paid
  /\ job.at \in {"post", "run"} => job.do \in Paid
  /\ job.at \in {"post", "run"} /\ job.do = "message" => job.session \in Session
  /\ job.at = "session" => job.do = "message"
  /\ job.at = "export" => Has(job.doc, job.base) /\ versions[job.doc][job.base] = job.text

\* No edit that is owed is in a document that is gone.
Texts(d) == UNION Range(versions[d])
Gone == \A d \in Doc \ alive : owed \cap Texts(d) = {}

Safe == owed \subseteq Stored(alive)
AtRisk ==
  /\ owed \subseteq page.draft \cup Stored(alive)
  /\ page.view = "workspace" /\ page.dirty
  /\ late = {} /\ dialog.kind # "restore"
  /\ \/ job = NoJob
     \/ job.at = "save" /\ job.text = page.draft
     \/ job.at = "reject"
     \/ job.at = "delete" /\ job.doc = page.doc

IInv == Typed /\ Fits /\ exported /\ Gone /\ (Safe \/ AtRisk)

\* What is restored was chosen, and a refusal is of what was clicked.
Clicked ==
  /\ dialog.kind = "restore" => dialog.nav.to = "restore"
  /\ job.at = "restore" => job.nav.to = "restore"
  /\ job.at \in {"reject", "decline"} => job.do = job.at

USE WorkspaceAssumption DEF WorkspaceAssumption

\* A text is stored if a version of one of these documents holds it.
LEMMA StoredOf ==
  ASSUME versions \in [Doc -> Seq(SUBSET Edit)], NEW D \in SUBSET Doc
  PROVE  /\ Stored(D) = {e \in Edit : \E d \in D : e \in Texts(d)}
         /\ \A d \in Doc : Texts(d) \subseteq Edit
         /\ \A d \in Doc : \A v \in 1..Latest(d) : versions[d][v] \subseteq Texts(d)
<1>1. ASSUME NEW d \in Doc
      PROVE  /\ DOMAIN versions[d] = 1..Latest(d)
             /\ \A v \in 1..Latest(d) : versions[d][v] \in SUBSET Edit
  BY DEF Latest
<1>2. ASSUME NEW d \in Doc PROVE Texts(d) = UNION {versions[d][v] : v \in 1..Latest(d)}
  BY <1>1 DEF Texts, Range
<1>3. \A d \in Doc : Texts(d) \subseteq Edit
  BY <1>1, <1>2
<1>4. \A d \in Doc : \A v \in 1..Latest(d) : versions[d][v] \subseteq Texts(d)
  BY <1>1, <1>2
<1>5. Stored(D) = {e \in Edit : \E d \in D : e \in Texts(d)}
  BY <1>3 DEF Stored, Texts
<1> QED BY <1>3, <1>4, <1>5

\* A version a document has room for is one of the versions.
LEMMA VersionBound == ASSUME NEW d \in Doc, NEW v \in 1..MaxVersions[d] PROVE v \in Versions
BY DEF Versions

\* What a document is given when a version is added.
LEMMA Adding ==
  ASSUME NEW s \in Seq(SUBSET Edit), NEW text \in SUBSET Edit
  PROVE  /\ Append(s, text) \in Seq(SUBSET Edit)
         /\ Len(Append(s, text)) = Len(s) + 1 /\ Len(s) \in Nat
         /\ Append(s, text)[Len(s) + 1] = text
         /\ \A v \in 1..Len(s) : Append(s, text)[v] = s[v]
         /\ UNION Range(Append(s, text)) = (UNION Range(s)) \cup text
<1>1. DOMAIN s = 1..Len(s) /\ DOMAIN Append(s, text) = 1..(Len(s) + 1)
  OBVIOUS
<1>2. Range(Append(s, text)) = Range(s) \cup {text}
  <2>1. PICK t, n : t = Append(s, text) /\ n = Len(s)
    OBVIOUS
  <2>2. n \in Nat /\ DOMAIN s = 1..n /\ DOMAIN t = 1..(n + 1)
    BY <1>1, <2>1
  <2>3. ASSUME NEW v \in 1..n PROVE t[v] = s[v]
    BY <2>1
  <2>4. t[n + 1] = text
    BY <2>1
  <2>5. ASSUME NEW x \in Range(t) PROVE x \in Range(s) \cup {text}
    <3>1. PICK v \in 1..(n + 1) : x = t[v]
      BY <2>2 DEF Range
    <3>2. CASE v = n + 1
      BY <2>4, <3>1, <3>2
    <3>3. CASE v # n + 1
      <4>1. v \in 1..n
        BY <2>2, <3>3
      <4> QED BY <2>2, <2>3, <3>1, <4>1 DEF Range
    <3> QED BY <3>2, <3>3
  <2>6. ASSUME NEW x \in Range(s) PROVE x \in Range(t)
    <3>1. PICK v \in 1..n : x = s[v]
      BY <2>2 DEF Range
    <3>2. v \in 1..(n + 1)
      BY <2>2
    <3> QED BY <2>2, <2>3, <3>1, <3>2 DEF Range
  <2>7. text \in Range(t)
    <3>1. n + 1 \in 1..(n + 1)
      BY <2>2
    <3> QED BY <2>2, <2>4, <3>1 DEF Range
  <2>8. Range(t) = Range(s) \cup {text}
    BY <2>5, <2>6, <2>7
  <2> QED BY <2>1, <2>8
<1>3. (UNION (Range(s) \cup {text})) = (UNION Range(s)) \cup text
  OBVIOUS
<1> QED BY <1>2, <1>3

\* What is dropped leaves the rest.
LEMMA WithoutWaits == ASSUME Typed, NEW d PROVE Without(d) \in Waiting
BY DEF Without, Waiting, Typed, Offers

\* A version is added to a stored document: every version there was stays, the text
\* that was added is stored, and no edit that was stored is put at risk.
LEMMA Committing ==
  ASSUME Typed, NEW d, NEW base, NEW text \in SUBSET Edit, Commits(d, base, text)
  PROVE  /\ d \in Doc /\ d \in alive /\ base = Latest(d)
         /\ base \in Versions /\ base + 1 \in Versions
         /\ versions' \in [Doc -> Seq(SUBSET Edit)]
         /\ \A c \in Doc : Latest(c)' \in 1..MaxVersions[c]
         /\ \A c \in Doc : \A v \in 1..Latest(c) :
              v \in 1..Latest(c)' /\ versions'[c][v] = versions[c][v]
         /\ base + 1 \in 1..Latest(d)' /\ versions'[d][base + 1] = text
         /\ Offers'
         /\ \A c \in Doc : Texts(c)' = IF c = d THEN Texts(c) \cup text ELSE Texts(c)
<1>1. /\ d \in alive /\ base = Latest(d) /\ base < MaxVersions[d]
      /\ versions' = [versions EXCEPT ![d] = Append(@, text)]
      /\ pending' = Without(d) /\ ids' = ids
  BY DEF Commits
<1>2. d \in Doc
  BY <1>1 DEF Typed
<1>3. versions'[d] = Append(versions[d], text) /\ \A c \in Doc \ {d} : versions'[c] = versions[c]
  BY <1>1, <1>2 DEF Typed
<1>4. versions[d] \in Seq(SUBSET Edit) /\ Len(versions[d]) = base
  BY <1>1, <1>2 DEF Typed, Latest
<1>5. base \in Nat /\ base \in 1..MaxVersions[d] /\ base + 1 \in 1..MaxVersions[d]
  BY <1>1, <1>2 DEF Typed
<1>6. base \in Versions /\ base + 1 \in Versions
  BY <1>2, <1>5, VersionBound
<1>7. PICK s \in Seq(SUBSET Edit) : s = versions[d]
  BY <1>4
<1>8. versions'[d] = Append(s, text) /\ Len(s) = base
  BY <1>3, <1>4, <1>7
<1>9. /\ Append(s, text) \in Seq(SUBSET Edit)
      /\ Len(Append(s, text)) = base + 1 /\ Append(s, text)[base + 1] = text
      /\ \A v \in 1..base : Append(s, text)[v] = s[v]
      /\ UNION Range(Append(s, text)) = (UNION Range(s)) \cup text
  BY <1>8, Adding
<1>10. /\ versions'[d] \in Seq(SUBSET Edit) /\ Len(versions'[d]) = base + 1
       /\ versions'[d][base + 1] = text
       /\ \A v \in 1..base : versions'[d][v] = versions[d][v]
       /\ UNION Range(versions'[d]) = (UNION Range(versions[d])) \cup text
  BY <1>7, <1>8, <1>9
<1>11. versions' \in [Doc -> Seq(SUBSET Edit)]
  BY <1>1, <1>2, <1>3, <1>10 DEF Typed
<1>12. Latest(d)' = base + 1 /\ \A c \in Doc \ {d} : Latest(c)' = Latest(c)
  BY <1>3, <1>10 DEF Latest
<1>13. \A c \in Doc : Latest(c)' \in 1..MaxVersions[c]
  BY <1>5, <1>12 DEF Typed
<1>14. ASSUME NEW c \in Doc, NEW v \in 1..Latest(c)
       PROVE  v \in 1..Latest(c)' /\ versions'[c][v] = versions[c][v]
  <2>1. CASE c = d
    BY <1>1, <1>5, <1>10, <1>12, <2>1
  <2>2. CASE c # d
    BY <1>3, <1>12, <2>2
  <2> QED BY <2>1, <2>2
<1>15. base + 1 \in 1..Latest(d)'
  BY <1>5, <1>12
<1>16. Offers'
  BY <1>1, WithoutWaits DEF Typed, Offers
<1>17. \A c \in Doc : Texts(c)' = IF c = d THEN Texts(c) \cup text ELSE Texts(c)
  <2>1. Texts(d)' = Texts(d) \cup text
    BY <1>10 DEF Texts
  <2>2. \A c \in Doc \ {d} : Texts(c)' = Texts(c)
    BY <1>3 DEF Texts
  <2> QED BY <2>1, <2>2
<1> QED BY <1>1, <1>2, <1>6, <1>10, <1>11, <1>13, <1>14, <1>15, <1>16, <1>17

\* A new version puts no edit at risk, and stores those of its text.
LEMMA CommitKeeps ==
  ASSUME Typed, Gone, NEW d, NEW base, NEW text \in SUBSET Edit, Commits(d, base, text),
         alive' = alive, owed' = owed
  PROVE  /\ Gone'
         /\ Stored(alive) \subseteq Stored(alive)'
         /\ owed \subseteq text \cup Stored(alive) => Safe'
<1>1. /\ d \in Doc /\ d \in alive /\ versions' \in [Doc -> Seq(SUBSET Edit)]
      /\ \A c \in Doc : Texts(c)' = IF c = d THEN Texts(c) \cup text ELSE Texts(c)
  BY Committing
<1>2. Gone'
  BY <1>1 DEF Gone
<1>3. alive \in SUBSET Doc /\ owed \subseteq Edit
  BY DEF Typed
<1>4. Stored(alive) = {e \in Edit : \E c \in alive : e \in Texts(c)}
  BY <1>3, StoredOf DEF Typed
<1>5. Stored(alive)' = {e \in Edit : \E c \in alive : e \in Texts(c)'}
  <2>1. \A c \in Doc : Texts(c) \subseteq Edit
    BY StoredOf DEF Typed
  <2>2. \A c \in alive : Texts(c)' \subseteq Edit
    BY <1>1, <1>3, <2>1
  <2> QED BY <2>2 DEF Stored, Texts
<1>6. Stored(alive) \cup text \subseteq Stored(alive)'
  BY <1>1, <1>3, <1>4, <1>5
<1> QED BY <1>2, <1>6 DEF Safe

-----------------------------------------------------------------------------
(* What the page shows.                                                    *)

\* The newest of some proposals is one of them, if there is one.
LEMMA Proposed ==
  ASSUME NEW proposals \in Waiting, NEW d, NEW v
  PROVE  PatchOf(d, v, proposals) \in SomePatch /\ BatchOf(d, v, proposals) \in SomeSession
<1>1. ASSUME NEW S, NEW none PROVE Newest(S, none) \in S \cup {none}
  BY Zenon DEF Newest
<1>2. /\ {p \in proposals.patches : p.of.doc = d /\ p.of.base = v} \subseteq Patch
      /\ {b \in proposals.batches : b.doc = d /\ b.base = v} \subseteq Session
  BY DEF Waiting
<1> QED BY <1>1, <1>2 DEF PatchOf, BatchOf, SomePatch, SomeSession

\* The page that shows a version fits it.
LEMMA ShowFits ==
  ASSUME NEW p \in Page, NEW texts \in [Doc -> Seq(SUBSET Edit)], PageFits(p, texts),
         NEW d \in Doc, NEW v \in Versions, v \in 1..Len(texts[d]),
         NEW proposals \in Waiting
  PROVE  \E q \in Page : /\ q = Show(p, d, v, texts, proposals) /\ PageFits(q, texts)
                         /\ q.view = "workspace"
<1>1. texts[d][v] \in SUBSET Edit
  BY DEF Page
<1>2. Show(p, d, v, texts, proposals) \in Page
  <2>1. PICK patch, batch, same :
          /\ patch = PatchOf(d, v, proposals) /\ batch = BatchOf(d, v, proposals)
          /\ same = (p.view = "workspace" /\ p.doc = d /\ p.base = v)
    OBVIOUS
  <2>2. patch \in SomePatch /\ patch.of \in SomeSession /\ batch \in SomeSession
    BY <2>1, Proposed DEF SomePatch, SomeSession, Patch, NoPatch
  <2>3. PICK text \in SUBSET Edit :
          Show(p, d, v, texts, proposals) = Shows(p, d, v, text, proposals)
    <3>1. p.draft \in SUBSET Edit
      BY DEF Page
    <3> QED BY <1>1, <3>1 DEF Show
  <2>4. PICK session \in SomeSession, shown \in SomePatch, dirty \in BOOLEAN :
          Shows(p, d, v, text, proposals) =
            [view |-> "workspace", doc |-> d, base |-> v, draft |-> text, dirty |-> dirty,
             session |-> session, patch |-> shown, batch |-> batch]
    BY <2>1, <2>2 DEF Shows, Page
  <2> QED BY <2>2, <2>3, <2>4 DEF Page
<1>3. PICK q \in Page : q = Show(p, d, v, texts, proposals)
  BY <1>2
<1>4. q.view = "workspace" /\ q.doc = d /\ q.base = v
  BY <1>3 DEF Show, Shows
<1>5. q.dirty \/ q.draft = texts[d][v]
  <2>1. CASE p.view = "workspace" /\ p.doc = d /\ p.base = v
    BY <1>3, <2>1 DEF Show, Shows, PageFits
  <2>2. CASE ~(p.view = "workspace" /\ p.doc = d /\ p.base = v)
    BY <1>3, <2>2 DEF Show, Shows
  <2> QED BY <2>1, <2>2
<1> QED BY <1>3, <1>4, <1>5 DEF PageFits

\* A page with another patch and session fits as before.
LEMMA Repatched ==
  ASSUME NEW p \in Page, NEW texts, PageFits(p, texts),
         NEW patch \in SomePatch, NEW session \in SomeSession,
         NEW q, q = [p EXCEPT !.patch = patch, !.session = session]
  PROVE  q \in Page /\ PageFits(q, texts)
<1>1. q \in Page
  BY DEF Page
<1>2. PageFits(q, texts)
  BY DEF Page, PageFits
<1> QED BY <1>1, <1>2

\* What stands for nothing has the type of something.
LEMMA NoThings ==
  /\ NoJob \in Job /\ NoDialog \in Dialog /\ NoNav \in Nav
  /\ NoPatch \in SomePatch /\ NoSession \in SomeSession
<1>1. NoNav \in Nav /\ NoPatch \in SomePatch /\ NoSession \in SomeSession
  BY DEF NoNav, Nav, SomePatch, SomeSession
<1> QED BY <1>1 DEF NoJob, NoDialog, Job, At, Dialog

\* Outside the workspace nothing is shown.
LEMMA AwayFits ==
  ASSUME NEW view \in {"create", "login"}, NEW texts
  PROVE  Away(view) \in Page /\ PageFits(Away(view), texts)
BY NoThings DEF Away, Page, PageFits

\* A version on the page is one of the versions.
LEMMA BaseVersion ==
  ASSUME Typed, NEW d \in Doc, NEW v \in 1..Latest(d) PROVE v \in Versions
<1>1. v \in 1..MaxVersions[d]
  BY DEF Typed
<1> QED BY <1>1, VersionBound

\* The author goes where he wanted to.
LEMMA Performing ==
  ASSUME NEW p \in Page, NEW nav \in Nav, Perform(nav, p), PageFits(p, versions')
  PROVE  /\ page' \in Page /\ dialog' \in Dialog /\ job' \in Job
         /\ PageFits(page', versions')
         /\ dialog'.nav \in {NoNav, nav} /\ job'.nav = NoNav
         /\ job'.at \in {"none", "open"}
         /\ \/ UNCHANGED books
            \/ Forget
         /\ \/ page' = p
            \/ page' \in {Away("create"), Away("login")}
<1> USE NoThings
<1>1. CASE nav.to = "open"
  <2>1. page' = p /\ dialog' = NoDialog /\ UNCHANGED books
        /\ job' = [NoJob EXCEPT !.do = "open", !.at = "open", !.doc = nav.doc]
    BY <1>1 DEF Perform
  <2>2. job' \in Job /\ job'.nav = NoNav /\ job'.at = "open"
    BY <2>1 DEF NoJob, Job, At, Nav
  <2>3. dialog'.nav = NoNav
    BY <2>1 DEF NoDialog
  <2> QED BY <2>1, <2>2, <2>3
<1>2. CASE nav.to \in {"create", "login"}
  <2>1. page' = Away(nav.to) /\ dialog' = NoDialog /\ job' = NoJob /\ Forget
    BY <1>2 DEF Perform
  <2>2. page' \in Page /\ PageFits(page', versions')
    BY <1>2, <2>1, AwayFits
  <2> QED BY <1>2, <2>1, <2>2 DEF NoDialog, NoJob
<1>3. CASE nav.to = "restore"
  <2>1. page' = p /\ job' = NoJob /\ dialog' = [kind |-> "restore", nav |-> nav] /\ UNCHANGED books
    BY <1>3 DEF Perform
  <2> QED BY <2>1 DEF Dialog, NoJob
<1> QED BY <1>1, <1>2, <1>3 DEF Perform

\* The call that the page waits for, begun or not.
LEMMA Waited ==
  ASSUME Typed, Fits, job.at \in {"post", "run"}, NEW b \in BOOLEAN
  PROVE  /\ Request(job) \in Asking
         /\ [request |-> Request(job), begun |-> b, held |-> TRUE] \in Called
<1>1. job \in Job /\ job.do \in Paid /\ (job.do = "message" => job.session \in Session)
  BY DEF Typed, Fits
<1>2. PICK on :
        on = IF job.do = "message" THEN job.session ELSE [id |-> 0, doc |-> job.doc, base |-> job.base]
  OBVIOUS
<1>3. on \in Place /\ (job.do = "message" => on \in Session)
  BY <1>1, <1>2 DEF Place, Session, Job
<1>4. PICK r : r = [do |-> job.do, prev |-> job.patch, shown |-> job.shown, on |-> on]
  OBVIOUS
<1>5. Request(job) = r
  BY <1>2, <1>4 DEF Request
<1>6. r \in Asking /\ (r.do = "message" => r.on \in Session)
  BY <1>1, <1>3, <1>4 DEF Asking, Job
<1> QED BY <1>5, <1>6 DEF Called

\* What a page that goes leaves behind.
LEMMA Forgotten == ASSUME Typed, Fits, Forget PROVE adrift' \subseteq Called
<1>1. Underway \subseteq Called
  BY Waited DEF Underway
<1>2. ASSUME NEW c \in Called PROVE [c EXCEPT !.held = FALSE] \in Called
  BY DEF Called
<1>3. adrift \cup Underway \subseteq Called
  BY <1>1 DEF Typed
<1> QED BY <1>2, <1>3 DEF Forget

-----------------------------------------------------------------------------
(* The author's clicks.                                                    *)

\* A clean page holds nothing that is not stored.
LEMMA CleanSafe == ASSUME IInv, ~page.dirty PROVE Safe
BY DEF IInv, AtRisk

\* What holds of an empty operation and of an operation without a goal.
LEMMA Idle ==
  /\ NoJob.at = "none" /\ NoJob.nav = NoNav /\ NoDialog.nav = NoNav
  /\ NavFits(NoNav) /\ NavFits(NoNav)'
BY DEF NoJob, NoNav, NoDialog, NavFits

\* An edit is at risk as soon as it is typed.
LEMMA updateParagraphKeeps == ASSUME IInv, NEW e \in Edit, updateParagraph(e) PROVE IInv'
<1>1. /\ Ready /\ e \notin Stored(Doc)
      /\ page' = [page EXCEPT !.draft = @ \cup {e}, !.dirty = TRUE]
      /\ owed' = IF late = {} THEN owed \cup {e} ELSE owed
      /\ UNCHANGED <<stored, dialog, job, late, books, exported, trouble>>
  BY DEF updateParagraph
<1> USE DEF stored, books
<1>2. /\ page' \in Page /\ page'.view = page.view /\ page'.doc = page.doc /\ page'.base = page.base
      /\ page'.draft = page.draft \cup {e} /\ page'.dirty
  BY <1>1 DEF IInv, Typed, Page
<1>3. owed' \subseteq Edit
  BY <1>1 DEF IInv, Typed
<1>4. Typed'
  BY <1>1, <1>2, <1>3 DEF IInv, Typed, Offers, Latest
<1>5. Fits'
  BY <1>1, <1>2 DEF IInv, Fits, PageFits, NavFits, Has, Latest
<1>6. Gone'
  <2>1. Stored(Doc) = {x \in Edit : \E d \in Doc : x \in Texts(d)}
    BY StoredOf DEF IInv, Typed
  <2>2. \A d \in Doc : e \notin Texts(d)
    BY <1>1, <2>1
  <2> QED BY <1>1, <2>2 DEF IInv, Gone, Texts
<1>7. (Safe \/ AtRisk)'
  <2>1. Stored(alive)' = Stored(alive)
    BY <1>1 DEF Stored
  <2>2. CASE late = {}
    BY <1>1, <1>2, <2>1, <2>2 DEF IInv, Safe, AtRisk, Ready, AtWork, NoDialog
  <2>3. CASE late # {}
    BY <1>1, <2>1, <2>3 DEF IInv, Safe, AtRisk
  <2> QED BY <2>2, <2>3
<1> QED BY <1>1, <1>4, <1>5, <1>6, <1>7 DEF IInv

\* The document, version and draft of a click.
LEMMA Captured ==
  ASSUME IInv, AtWork
  PROVE  /\ page.doc \in Doc /\ page.base \in Versions /\ page.base \in 1..Latest(page.doc)
         /\ page.draft \subseteq Edit /\ page.draft \in SUBSET Edit
         /\ page.dirty \/ page.draft = versions[page.doc][page.base]
<1>1. /\ page.doc \in Doc /\ page.base \in 1..Latest(page.doc) /\ page.draft \subseteq Edit
      /\ page.dirty \/ page.draft = versions[page.doc][page.base]
  BY DEF IInv, Typed, Fits, PageFits, AtWork, Page, Latest
<1> QED BY <1>1, BaseVersion DEF IInv

\* An operation begins with what the page shows, and an unsaved draft is saved first.
LEMMA BeginKeeps ==
  ASSUME IInv, Ready, job' \in Job, job'.nav = NoNav,
         UNCHANGED <<stored, page, dialog, late, books, owed, exported, trouble>>,
         \/ job'.at = "save" /\ job'.text = page.draft
         \/ job'.at # "save" /\ (job'.at = "reject" \/ ~page.dirty),
         job'.at = "save" => job'.do \in {"save", "leave", "export"} \cup Paid,
         job'.at \in {"post", "run"} => job'.do \in Paid,
         job'.at \in {"post", "run"} /\ job'.do = "message" => job'.session \in Session,
         job'.at = "session" => job'.do = "message",
         job'.at = "export" =>
           job'.doc = page.doc /\ job'.base = page.base /\ job'.text = page.draft
  PROVE  IInv'
<1> USE DEF stored, books
<1>1. /\ page.doc \in Doc /\ page.base \in 1..Latest(page.doc)
      /\ page.dirty \/ page.draft = versions[page.doc][page.base]
  BY Captured DEF Ready
<1>2. Typed'
  BY DEF IInv, Typed, Offers, Latest
<1>3. NavFits(dialog.nav)' /\ NavFits(job.nav)'
  BY Idle DEF IInv, Fits, NavFits, Has, Latest
<1>4. job'.at = "export" => Has(job.doc, job.base)' /\ versions'[job'.doc][job'.base] = job'.text
  BY <1>1 DEF Has, Latest
<1>5. Fits'
  BY <1>3, <1>4 DEF IInv, Fits, PageFits, Has, Latest
<1>6. Gone'
  BY DEF IInv, Gone, Texts
<1>7. (Safe \/ AtRisk)'
  BY DEF IInv, Safe, AtRisk, Stored
<1> QED BY <1>2, <1>5, <1>6, <1>7 DEF IInv

\* What is asked for with an unsaved draft begins with saving it.
LEMMA ClickKeeps ==
  ASSUME IInv, Ready, NEW do, NEW next, Click(do, next),
         \/ do = "save" /\ next = "save" /\ page.dirty
         \/ do = "export" /\ next = "export"
         \/ do \in {"analysis", "firstPass"} /\ next = "post"
  PROVE  IInv'
<1>1. PICK at : at = IF page.dirty THEN "save" ELSE next
  OBVIOUS
<1>2. /\ job' = [NoJob EXCEPT !.do = do, !.at = at, !.doc = page.doc, !.base = page.base,
                              !.text = page.draft]
      /\ UNCHANGED <<stored, page, dialog, late, books, owed, exported, trouble>>
  BY <1>1 DEF Click, Begin
<1>3. /\ page.doc \in Doc /\ page.base \in Versions /\ page.draft \in SUBSET Edit
  BY Captured DEF Ready
<1>4. /\ job'.do = do /\ job'.at = at /\ job'.doc = page.doc /\ job'.base = page.base
      /\ job'.text = page.draft /\ job'.nav = NoNav
  BY <1>2 DEF NoJob
<1>5. at \in {"save", "export", "post"} /\ do \in {"save", "export"} \cup Paid /\ do # "message"
  BY <1>1 DEF Paid
<1>6. job' \in Job
  BY <1>2, <1>3, <1>5, NoThings DEF NoJob, Job, At
<1> QED BY <1>1, <1>2, <1>4, <1>5, <1>6, BeginKeeps DEF Paid

\* A message is asked for.
LEMMA proposeKeeps == ASSUME IInv, propose PROVE IInv'
<1>1. PICK patch, session :
        /\ patch = IF page.dirty THEN NoPatch ELSE page.patch
        /\ session = IF page.dirty THEN NoSession
                     ELSE IF patch # NoPatch THEN patch.of ELSE page.session
  OBVIOUS
<1>2. PICK at : at = IF page.dirty THEN "save" ELSE IF session = NoSession THEN "session" ELSE "post"
  OBVIOUS
<1>3. /\ Ready
      /\ job' = [do |-> "message", doc |-> page.doc, base |-> page.base, text |-> page.draft,
                 at |-> at, session |-> session, patch |-> patch, shown |-> page.patch.id,
                 nav |-> NoNav]
      /\ UNCHANGED <<stored, page, dialog, late, books, owed, exported, trouble>>
  BY <1>1, <1>2 DEF propose
<1>4. /\ page.doc \in Doc /\ page.base \in Versions /\ page.draft \in SUBSET Edit
  BY <1>3, Captured DEF Ready
<1>5. page.patch \in SomePatch /\ page.session \in SomeSession /\ page.patch.id \in Nat
  BY DEF IInv, Typed, Page, SomePatch, Patch, NoPatch
<1>6. patch \in SomePatch /\ session \in SomeSession
  BY <1>1, <1>5, NoThings DEF SomePatch, SomeSession, Patch
<1>7. at \in {"save", "session", "post"} /\ (at # "save" => ~page.dirty)
      /\ (at = "save" <=> page.dirty) /\ (at = "post" => session \in Session)
  BY <1>2, <1>6 DEF SomeSession
<1>8. job' \in Job
  BY <1>3, <1>4, <1>5, <1>6, <1>7, NoThings DEF Job, At, Paid
<1>9. /\ job'.do = "message" /\ job'.at = at /\ job'.text = page.draft /\ job'.nav = NoNav
      /\ job'.session = session
  BY <1>3
<1> QED BY <1>3, <1>7, <1>8, <1>9, BeginKeeps DEF Paid

\* A proposal is decided while the draft is clean, or its patch is rejected.
LEMMA DecideKeeps ==
  ASSUME IInv, NEW do \in {"accept", "reject", "batch", "decline"},
         NEW session \in Session, NEW patch \in SomePatch, Decide(do, session, patch),
         do = "reject" \/ ~page.dirty
  PROVE  IInv'
<1>1. /\ job' = [NoJob EXCEPT !.do = do, !.at = do, !.doc = session.doc, !.base = session.base,
                              !.session = session, !.patch = patch]
      /\ UNCHANGED <<stored, page, dialog, late, books, owed, exported, trouble>> /\ Ready
  BY DEF Decide
<1>2. session.doc \in Doc /\ session.base \in Versions
  BY DEF Session
<1>3. job' \in Job
  BY <1>1, <1>2, NoThings DEF NoJob, Job, At, SomeSession
<1>4. job'.do = do /\ job'.at = do /\ job'.nav = NoNav
  BY <1>1 DEF NoJob
<1> QED BY <1>1, <1>3, <1>4, BeginKeeps

\* Every goal names a version of the document on the page.
LEMMA GoalFits ==
  ASSUME IInv, page.view = "workspace", NEW nav \in Goals
  PROVE  nav \in Nav /\ NavFits(nav)
<1>1. page.doc \in Doc /\ page.base \in 1..Latest(page.doc) /\ Latest(page.doc) \in Nat
  BY DEF IInv, Typed, Fits, PageFits, Latest
<1>2. CASE nav \in {[to |-> "open", doc |-> d, ver |-> 0] : d \in Doc \ {page.doc}}
  BY <1>2 DEF Nav, NavFits
<1>3. CASE nav \in {[to |-> t, doc |-> NoDoc, ver |-> 0] : t \in {"create", "login"}}
  BY <1>3 DEF Nav, NavFits
<1>4. CASE nav \in {[to |-> "restore", doc |-> page.doc, ver |-> v] : v \in 1..(page.base - 1)}
  <2>1. PICK v \in 1..(page.base - 1) : nav = [to |-> "restore", doc |-> page.doc, ver |-> v]
    BY <1>4
  <2>2. v \in 1..Latest(page.doc)
    BY <1>1
  <2>3. v \in Versions
    BY <1>1, <2>2, BaseVersion DEF IInv
  <2> QED BY <1>1, <2>1, <2>2, <2>3 DEF Nav, NavFits, Has
<1> QED BY <1>2, <1>3, <1>4 DEF Goals

\* Going somewhere keeps what holds of the page, once the draft is stored.
LEMMA PerformKeeps ==
  ASSUME IInv, NEW p \in Page, PageFits(p, versions), NEW nav \in Nav, NavFits(nav),
         Perform(nav, p), UNCHANGED <<stored, late, exported, trouble>>, owed' \subseteq owed,
         owed' \subseteq Stored(alive)
  PROVE  IInv'
<1> USE DEF stored, books
<1>1. PageFits(p, versions')
  OBVIOUS
<1>2. /\ page' \in Page /\ dialog' \in Dialog /\ job' \in Job
      /\ PageFits(page', versions')
      /\ dialog'.nav \in {NoNav, nav} /\ job'.nav = NoNav
      /\ job'.at \in {"none", "open"}
      /\ UNCHANGED books \/ Forget
  BY <1>1, Performing
<1>3. adrift' \subseteq Called
  BY <1>2, Forgotten DEF IInv, Typed
<1>4. Typed'
  BY <1>2, <1>3 DEF IInv, Typed, Offers, Latest
<1>5. NavFits(nav)'
  BY DEF NavFits, Has, Latest
<1>6. NavFits(dialog.nav)' /\ NavFits(job.nav)'
  BY <1>2, <1>5, Idle DEF NavFits, Has
<1>7. Fits'
  BY <1>2, <1>6 DEF IInv, Fits, Has, Latest
<1>8. Gone'
  BY DEF IInv, Gone, Texts
<1>9. Safe'
  BY DEF Safe, Stored
<1> QED BY <1>4, <1>7, <1>8, <1>9 DEF IInv

\* With a clean draft the author goes at once, else he is asked.
LEMMA navigateKeeps == ASSUME IInv, NEW nav, navigate(nav) PROVE IInv'
<1>1. /\ Ready /\ nav \in Goals /\ UNCHANGED <<stored, late, owed, exported, trouble>>
      /\ IF page.dirty
         THEN dialog' = [kind |-> "unsaved", nav |-> nav] /\ UNCHANGED <<page, job, books>>
         ELSE Perform(nav, page)
  BY DEF navigate
<1>2. nav \in Nav /\ NavFits(nav)
  BY <1>1, GoalFits DEF Ready, AtWork
<1>3. CASE page.dirty
  <2> USE DEF stored, books
  <2>1. dialog' = [kind |-> "unsaved", nav |-> nav] /\ UNCHANGED <<page, job, books>>
    BY <1>1, <1>3
  <2>2. Typed'
    BY <1>1, <1>2, <2>1 DEF IInv, Typed, Offers, Latest, Dialog
  <2>3. NavFits(dialog.nav)' /\ NavFits(job.nav)'
    BY <1>1, <1>2, <2>1 DEF IInv, Fits, NavFits, Has, Latest
  <2>4. Fits'
    BY <1>1, <2>1, <2>3 DEF IInv, Fits, Has, Latest
  <2>5. Gone'
    BY <1>1 DEF IInv, Gone, Texts
  <2>6. (Safe \/ AtRisk)'
    BY <1>1, <2>1 DEF IInv, Safe, AtRisk, Stored
  <2> QED BY <1>1, <2>2, <2>4, <2>5, <2>6 DEF IInv
<1>4. CASE ~page.dirty
  <2>1. Perform(nav, page)
    BY <1>1, <1>4
  <2>2. owed' \subseteq Stored(alive) /\ owed' \subseteq owed
    BY <1>1, <1>4, CleanSafe DEF Safe
  <2> QED BY <1>1, <1>2, <2>1, <2>2, PerformKeeps DEF IInv, Typed, Fits
<1> QED BY <1>3, <1>4

\* What the page shows instead of a draft that is given up is stored, or belongs to a
\* document that is gone and is owed no more.
LEMMA DiscardSafe ==
  ASSUME IInv, page.view = "workspace",
         NEW old, old = versions[page.doc][page.base]
  PROVE  owed \ (page.draft \ old) \subseteq Stored(alive)
<1>1. page.doc \in Doc /\ page.base \in 1..Latest(page.doc)
  BY DEF IInv, Fits, PageFits, Latest
<1>2. alive \in SUBSET Doc /\ Stored(alive) = {e \in Edit : \E d \in alive : e \in Texts(d)}
  BY StoredOf DEF IInv, Typed
<1>3. old \subseteq Texts(page.doc) /\ Texts(page.doc) \subseteq Edit
  BY <1>1, StoredOf DEF IInv, Typed
<1>4. owed \subseteq page.draft \cup Stored(alive)
  BY DEF IInv, Safe, AtRisk
<1>5. CASE page.doc \in alive
  BY <1>2, <1>3, <1>4, <1>5
<1>6. CASE page.doc \notin alive
  <2>1. owed \cap Texts(page.doc) = {}
    BY <1>1, <1>6 DEF IInv, Gone
  <2> QED BY <1>3, <1>4, <2>1
<1> QED BY <1>5, <1>6

\* The draft is saved or given up before he goes.
LEMMA leaveDraftKeeps == ASSUME IInv, NEW save, leaveDraft(save) PROVE IInv'
<1>1. /\ page.view = "workspace" /\ dialog.kind = "unsaved" /\ job = NoJob
      /\ UNCHANGED <<stored, late, exported, trouble>>
  BY DEF leaveDraft, AtWork
<1>2. dialog.nav \in Nav /\ NavFits(dialog.nav)
  BY DEF IInv, Typed, Dialog, Fits
<1>3. /\ page.doc \in Doc /\ page.base \in 1..Latest(page.doc) /\ page.draft \subseteq Edit
  BY <1>1 DEF IInv, Typed, Fits, PageFits, Page, Latest
<1>4. page.base \in Versions
  BY <1>3, BaseVersion DEF IInv
<1>5. CASE save /\ page.dirty
  <2> USE DEF stored, books
  <2>1. /\ job' = [NoJob EXCEPT !.do = "leave", !.at = "save", !.doc = page.doc,
                      !.base = page.base, !.text = page.draft, !.nav = dialog.nav]
        /\ UNCHANGED <<page, dialog, books, owed>>
    BY <1>5 DEF leaveDraft
  <2>2. job' \in Job /\ job'.at = "save" /\ job'.do = "leave" /\ job'.text = page.draft
        /\ job'.nav = dialog.nav
    BY <1>2, <1>3, <1>4, <2>1, NoThings DEF NoJob, Job, At
  <2>3. Typed'
    BY <1>1, <2>1, <2>2 DEF IInv, Typed, Offers, Latest
  <2>4. NavFits(dialog.nav)' /\ NavFits(job.nav)'
    BY <1>1, <1>2, <2>1, <2>2 DEF NavFits, Has, Latest
  <2>5. Fits'
    BY <1>1, <2>1, <2>2, <2>4 DEF IInv, Fits, Has, Latest
  <2>6. Gone'
    BY <1>1, <2>1 DEF IInv, Gone, Texts
  <2>7. (Safe \/ AtRisk)'
    BY <1>1, <2>1, <2>2 DEF IInv, Safe, AtRisk, Stored
  <2> QED BY <1>1, <2>3, <2>5, <2>6, <2>7 DEF IInv
<1>6. CASE ~(save /\ page.dirty)
  <2>1. PICK old : old = versions[page.doc][page.base]
    OBVIOUS
  <2>2. PICK p : p = [page EXCEPT !.draft = old, !.dirty = FALSE]
    OBVIOUS
  <2>3. Perform(dialog.nav, p) /\ owed' = owed \ (page.draft \ old)
    BY <1>6, <2>1, <2>2 DEF leaveDraft
  <2>4. old \in SUBSET Edit
    BY <1>3, <2>1 DEF IInv, Typed, Offers, Latest
  <2>5. p \in Page /\ PageFits(p, versions)
    BY <1>3, <2>1, <2>2, <2>4 DEF IInv, Typed, Page, PageFits, Latest
  <2>6. owed' \subseteq owed /\ owed' \subseteq Stored(alive)
    BY <1>1, <2>1, <2>3, DiscardSafe
  <2>7. PICK nav \in Nav : nav = dialog.nav
    BY <1>2
  <2> QED BY <1>1, <1>2, <2>3, <2>5, <2>6, <2>7, PerformKeeps
<1> QED BY <1>5, <1>6

\* A dialog is closed, or opened for a deletion.
LEMMA DialogKeeps == ASSUME IInv, cancelDialog \/ remove PROVE IInv'
<1>1. /\ dialog' = NoDialog \/ dialog' = [kind |-> "delete", nav |-> NoNav]
      /\ UNCHANGED <<stored, page, job, late, books, owed, exported, trouble>>
  BY DEF cancelDialog, remove
<1> USE DEF stored, books
<1>2. dialog' \in Dialog /\ dialog'.nav = NoNav /\ dialog'.kind # "restore"
  BY <1>1, NoThings DEF Dialog, NoDialog
<1>3. Typed'
  BY <1>1, <1>2 DEF IInv, Typed, Offers, Latest
<1>4. NavFits(dialog.nav)' /\ NavFits(job.nav)'
  BY <1>1, <1>2, Idle DEF IInv, Fits, NavFits, Has, Latest
<1>5. Fits'
  BY <1>1, <1>4 DEF IInv, Fits, Has, Latest
<1>6. Gone'
  BY <1>1 DEF IInv, Gone, Texts
<1>7. (Safe \/ AtRisk)'
  BY <1>1, <1>2 DEF IInv, Safe, AtRisk, Stored
<1> QED BY <1>1, <1>3, <1>5, <1>6, <1>7 DEF IInv

\* A restoration is confirmed of a clean page, a deletion of the page's document.
LEMMA ConfirmKeeps == ASSUME IInv, Confirm PROVE IInv'
<1>1. /\ page.view = "workspace" /\ dialog.kind \in {"restore", "delete"}
      /\ job' = [NoJob EXCEPT !.do = dialog.kind, !.at = dialog.kind, !.doc = page.doc,
                              !.base = page.base, !.nav = dialog.nav]
      /\ UNCHANGED <<stored, page, dialog, late, books, owed, exported, trouble>>
  BY DEF Confirm, AtWork
<1> USE DEF stored, books
<1>2. /\ page.doc \in Doc /\ page.base \in 1..Latest(page.doc)
  BY <1>1 DEF IInv, Typed, Fits, PageFits, Page, Latest
<1>3. page.base \in Versions
  BY <1>2, BaseVersion DEF IInv
<1>4. job' \in Job /\ job'.at = dialog.kind /\ job'.doc = page.doc /\ job'.nav = dialog.nav
  BY <1>1, <1>2, <1>3, NoThings DEF IInv, Typed, Dialog, NoJob, Job, At
<1>5. Typed'
  BY <1>1, <1>4 DEF IInv, Typed, Offers, Latest
<1>6. NavFits(dialog.nav)' /\ NavFits(job.nav)'
  BY <1>1, <1>4 DEF IInv, Fits, NavFits, Has, Latest
<1>7. Fits'
  BY <1>1, <1>4, <1>6 DEF IInv, Fits, Has, Latest
<1>8. Gone'
  BY <1>1 DEF IInv, Gone, Texts
<1>9. (Safe \/ AtRisk)'
  BY <1>1, <1>4 DEF IInv, Safe, AtRisk, Stored
<1> QED BY <1>1, <1>5, <1>7, <1>8, <1>9 DEF IInv

\* A reload gives up the draft.
LEMMA reloadKeeps == ASSUME IInv, reload PROVE IInv'
<1>1. /\ page.view = "workspace"
      /\ page' = Away("login") /\ dialog' = NoDialog /\ job' = NoJob /\ late' = {}
      /\ Forget /\ trouble' \in 0..MaxTrouble
      /\ owed' = IF page.dirty THEN owed \ page.draft ELSE owed
      /\ UNCHANGED <<stored, exported>>
  BY DEF reload, Lost, Troubled, IInv, Typed
<1> USE DEF stored
<1>2. page' \in Page /\ PageFits(page', versions') /\ adrift' \subseteq Called
  BY <1>1, AwayFits, Forgotten DEF IInv
<1>3. Typed'
  BY <1>1, <1>2, NoThings DEF IInv, Typed, Offers, Latest
<1>4. NavFits(dialog.nav)' /\ NavFits(job.nav)'
  BY <1>1, Idle
<1>5. Fits'
  BY <1>1, <1>2, <1>4, Idle DEF Fits
<1>6. Gone'
  BY <1>1 DEF IInv, Gone, Texts
<1>7. Safe'
  BY <1>1, CleanSafe DEF IInv, Safe, AtRisk, Stored
<1> QED BY <1>1, <1>3, <1>5, <1>6, <1>7 DEF IInv

-----------------------------------------------------------------------------
(* The answers.                                                            *)

\* Stored texts are put on the page: no answer does so while an edit is at risk.
LEMMA ReplaceKeeps ==
  ASSUME IInv, Safe, NEW q \in Page, PageFits(q, versions), page' = q,
         UNCHANGED <<alive, versions, owed, exported>>,
         job' \in Job, job'.nav \in {job.nav, NoNav},
         \/ job' = job
         \/ job'.at \in {"none", "refresh"}
         \/ /\ job'.at \in {"post", "run"} /\ job'.do \in Paid
            /\ job'.do = "message" => job'.session \in Session,
         adrift' \subseteq Called,
         dialog' \in {dialog, NoDialog}, trouble' \in 0..MaxTrouble,
         Offers',
         \A r \in late' : r = Asked \/ (r \in [doc : Doc, base : Versions] /\ Has(r.doc, r.base))
  PROVE  IInv'
<1>1. dialog' \in Dialog
  BY NoThings DEF IInv, Typed
<1>3. late' \subseteq {Asked} \cup [doc : Doc, base : Versions]
  OBVIOUS
<1>4. Typed'
  BY <1>1, <1>3 DEF IInv, Typed, Offers, Latest
<1>5. NavFits(dialog.nav)' /\ NavFits(job.nav)'
  BY Idle DEF IInv, Fits, NavFits, Has, Latest
<1>6. \A r \in late' \ {Asked} : Has(r.doc, r.base)'
  BY DEF Has, Latest
<1>7. /\ job'.at = "save" => job'.do \in {"save", "leave", "export"} \cup Paid
      /\ job'.at \in {"post", "run"} => job'.do \in Paid
      /\ job'.at \in {"post", "run"} /\ job'.do = "message" => job'.session \in Session
      /\ job'.at = "session" => job'.do = "message"
      /\ job'.at = "export" => Has(job.doc, job.base)' /\ versions'[job'.doc][job'.base] = job'.text
  BY DEF IInv, Fits, Has, Latest
<1>8. Fits'
  BY <1>5, <1>6, <1>7 DEF Fits
<1>9. Gone'
  BY DEF IInv, Gone, Texts
<1>10. Safe'
  BY DEF Safe, Stored
<1> QED BY <1>4, <1>8, <1>9, <1>10 DEF IInv

\* What is late now was late before.
LEMMA LateFits ==
  ASSUME IInv, NEW r \in late
  PROVE  r = Asked \/ (r \in [doc : Doc, base : Versions] /\ Has(r.doc, r.base))
BY DEF IInv, Typed, Fits

\* The newest version of a document.
LEMMA NewestFits ==
  ASSUME IInv, NEW d \in Doc PROVE Has(d, Latest(d)) /\ Latest(d) \in Versions
<1>1. Latest(d) \in 1..MaxVersions[d]
  BY DEF IInv, Typed
<1>2. Latest(d) \in 1..Latest(d)
  BY <1>1
<1> QED BY <1>1, <1>2, VersionBound DEF Has

\* A document is read and shown: the one the list names, or the one that is opened.
LEMMA ReadKeeps ==
  ASSUME IInv, NEW d \in Doc, Safe,
         page' = Show(page, d, Latest(d), versions, pending), job' \in {job, NoJob},
         UNCHANGED <<stored, dialog, late, books, owed, exported, trouble>>
  PROVE  IInv'
<1>1. /\ page \in Page /\ versions \in [Doc -> Seq(SUBSET Edit)] /\ PageFits(page, versions)
      /\ Latest(d) \in Versions /\ Latest(d) \in 1..Len(versions[d]) /\ pending \in Waiting
  BY NewestFits DEF Offers, IInv, Typed, Fits, Has, Latest
<1>2. PICK v \in Versions : v = Latest(d)
  BY <1>1
<1>3. \E q \in Page : q = Show(page, d, v, versions, pending) /\ PageFits(q, versions)
  BY <1>1, <1>2, ShowFits
<1>4. PICK q \in Page : page' = q /\ PageFits(q, versions)
  BY <1>2, <1>3
<1>5. \A r \in late' : r = Asked \/ (r \in [doc : Doc, base : Versions] /\ Has(r.doc, r.base))
  BY LateFits
<1>6. /\ UNCHANGED <<alive, versions, pending>>
      /\ Offers'
      /\ trouble' \in 0..MaxTrouble /\ adrift' \subseteq Called
      /\ job' \in Job /\ job'.nav \in {job.nav, NoNav} /\ (job' = job \/ job'.at = "none")
  BY NoThings, Idle DEF stored, books, Offers, IInv, Typed
<1> QED BY <1>4, <1>5, <1>6, ReplaceKeeps

\* The list is read where no document is shown.
LEMMA refreshListKeeps == ASSUME IInv, NEW d \in Doc, refreshList(d) PROVE IInv'
<1>1. Safe
  BY DEF refreshList, IInv, AtRisk
<1> QED BY <1>1, ReadKeeps DEF refreshList

\* A document is read after the draft was stored.
LEMMA fetchDocumentKeeps == ASSUME IInv, fetchDocument PROVE IInv'
<1>1. /\ job.at \in {"refresh", "open"} /\ job.doc \in alive
      /\ page' = Show(page, job.doc, Latest(job.doc), versions, pending)
      /\ job' = NoJob
      /\ UNCHANGED <<stored, dialog, late, books, owed, exported, trouble>>
  BY DEF fetchDocument
<1>2. Safe
  BY <1>1, Idle DEF IInv, AtRisk
<1>3. PICK d \in Doc : d = job.doc
  BY <1>1 DEF IInv, Typed
<1> QED BY <1>1, <1>2, <1>3, ReadKeeps

\* A call that fails changes nothing but that it is over.
LEMMA CallFailsKeeps == ASSUME IInv, CallFails PROVE IInv'
<1>1. job' = NoJob /\ UNCHANGED <<stored, page, dialog, late, books, owed, exported, trouble>>
  BY DEF CallFails, Over
<1> USE DEF stored, books
<1>2. Typed'
  BY <1>1, NoThings DEF IInv, Typed, Offers, Latest
<1>3. NavFits(dialog.nav)' /\ NavFits(job.nav)'
  BY <1>1, Idle DEF IInv, Fits, NavFits, Has, Latest
<1>4. Fits'
  BY <1>1, <1>3, Idle DEF IInv, Fits, Has, Latest
<1>5. Gone'
  BY <1>1 DEF IInv, Gone, Texts
<1>6. (Safe \/ AtRisk)'
  BY <1>1 DEF IInv, Safe, AtRisk, Stored
<1> QED BY <1>1, <1>2, <1>4, <1>5, <1>6 DEF IInv

\* The version that is exported is the one that was saved from the screen.
LEMMA downloadExportKeeps == ASSUME IInv, downloadExport PROVE IInv'
<1>1. /\ job.at = "export" /\ job.base = Latest(job.doc)
      /\ exported' = (exported /\ versions[job.doc][Latest(job.doc)] = job.text)
      /\ job' = NoJob
      /\ UNCHANGED <<stored, page, dialog, late, books, owed, trouble>>
  BY DEF downloadExport
<1> USE DEF stored, books
<1>2. exported'
  BY <1>1 DEF IInv, Fits
<1>3. Typed'
  BY <1>1, <1>2, NoThings DEF IInv, Typed, Offers, Latest
<1>4. NavFits(dialog.nav)' /\ NavFits(job.nav)'
  BY <1>1, Idle DEF IInv, Fits, NavFits, Has, Latest
<1>5. Fits'
  BY <1>1, <1>4, Idle DEF IInv, Fits, Has, Latest
<1>6. Gone'
  BY <1>1 DEF IInv, Gone, Texts
<1>7. (Safe \/ AtRisk)'
  BY <1>1 DEF IInv, Safe, AtRisk, Stored
<1> QED BY <1>2, <1>3, <1>5, <1>6, <1>7 DEF IInv

\* What a new version does to the page, shown or not.
LEMMA CommitShows ==
  ASSUME IInv, NEW d, NEW base, NEW text \in SUBSET Edit, Commits(d, base, text)
  PROVE  /\ PageFits(page, versions')
         /\ \E q \in Page : /\ q = Show(page, d, base + 1, versions', pending')
                            /\ PageFits(q, versions')
<1>1. /\ d \in Doc /\ base + 1 \in Versions /\ base + 1 \in 1..Latest(d)'
      /\ versions' \in [Doc -> Seq(SUBSET Edit)]
      /\ \A c \in Doc : \A v \in 1..Latest(c) :
           v \in 1..Latest(c)' /\ versions'[c][v] = versions[c][v]
      /\ Offers'
  BY Committing DEF IInv
<1>2. page \in Page /\ PageFits(page, versions)
  BY DEF IInv, Typed, Fits
<1>3. PageFits(page, versions')
  BY <1>1, <1>2 DEF PageFits, Latest
<1>4. PICK texts, proposals, v : texts = versions' /\ proposals = pending' /\ v = base + 1
  OBVIOUS
<1>5. /\ texts \in [Doc -> Seq(SUBSET Edit)] /\ PageFits(page, texts)
      /\ v \in Versions /\ v \in 1..Len(texts[d]) /\ proposals \in Waiting
  BY <1>1, <1>3, <1>4 DEF Latest, Offers
<1>6. \E q \in Page : q = Show(page, d, v, texts, proposals) /\ PageFits(q, texts)
  BY <1>1, <1>2, <1>5, ShowFits
<1> QED BY <1>3, <1>4, <1>6

\* A version is added, and the call that did so is over or goes on with it: if there
\* was an edit at risk, it is in the text that was added.
LEMMA CommitIInv ==
  ASSUME IInv, NEW d, NEW base, NEW text \in SUBSET Edit, Commits(d, base, text),
         UNCHANGED <<alive, late, owed, exported>>,
         owed \subseteq text \cup Stored(alive),
         page' \in Page, PageFits(page', versions'),
         dialog' \in Dialog, dialog'.nav \in {NoNav, dialog.nav, job.nav},
         job' \in Job, job'.nav \in {NoNav, job.nav},
         trouble' \in 0..MaxTrouble, adrift' \subseteq Called,
         \/ job'.at \in {"none", "open"}
         \/ job'.at = "export" /\ job'.doc = d /\ job'.base = base + 1 /\ job'.text = text
         \/ job'.at = "session" /\ job'.do = "message"
         \/ job'.at = "post" /\ job'.do \in {"analysis", "firstPass"}
  PROVE  IInv'
<1>1. /\ d \in Doc /\ base + 1 \in 1..Latest(d)' /\ versions'[d][base + 1] = text
      /\ versions' \in [Doc -> Seq(SUBSET Edit)]
      /\ Offers'
      /\ \A c \in Doc : Latest(c)' \in 1..MaxVersions[c]
      /\ \A c \in Doc : \A v \in 1..Latest(c) : v \in 1..Latest(c)'
  BY Committing DEF IInv
<1>2. Gone' /\ Safe'
  BY CommitKeeps DEF IInv
<1>3. Typed'
  BY <1>1 DEF IInv, Typed
<1>4. ASSUME NEW nav, NavFits(nav)
      PROVE  nav.to = "restore" => nav.doc \in Doc /\ nav.ver \in 1..Latest(nav.doc)'
  BY <1>1, <1>4 DEF NavFits, Has
<1>5. NavFits(dialog.nav)' /\ NavFits(job.nav)'
  BY <1>4, Idle DEF IInv, Fits, NavFits, Has
<1>6. \A r \in late' \ {Asked} : Has(r.doc, r.base)'
  BY <1>1 DEF IInv, Fits, Has
<1>7. /\ job'.at = "save" => job'.do \in {"save", "leave", "export"} \cup Paid
      /\ job'.at \in {"post", "run"} => job'.do \in Paid
      /\ job'.at \in {"post", "run"} /\ job'.do = "message" => job'.session \in Session
      /\ job'.at = "session" => job'.do = "message"
      /\ job'.at = "export" => Has(job.doc, job.base)' /\ versions'[job'.doc][job'.base] = job'.text
  BY <1>1 DEF Has, Paid
<1>8. Fits'
  BY <1>5, <1>6, <1>7 DEF Fits
<1> QED BY <1>2, <1>3, <1>8 DEF IInv

\* The answers that are lost are counted.
LEMMA Counted ==
  ASSUME IInv, NEW answered \in BOOLEAN, Lost(answered) PROVE trouble' \in 0..MaxTrouble
BY DEF IInv, Typed, Lost, Troubled

\* A draft that is saved is stored, whether the answer arrives or not.
LEMMA SaveDraftKeeps == ASSUME IInv, NEW answered \in BOOLEAN, SaveDraft(answered) PROVE IInv'
<1>1. PICK d, base, text : d = job.doc /\ base = job.base /\ text = job.text
  OBVIOUS
<1>2. /\ job.at = "save" /\ Commits(d, base, text) /\ Lost(answered)
      /\ UNCHANGED <<alive, late, owed, exported>>
  BY <1>1 DEF SaveDraft
<1>3. text \in SUBSET Edit /\ job \in Job /\ dialog \in Dialog /\ page \in Page
      /\ adrift \subseteq Called
  BY <1>1 DEF IInv, Typed, Job
<1>4. owed \subseteq text \cup Stored(alive)
  BY <1>1, <1>2, Idle DEF IInv, Safe, AtRisk
<1>5. trouble' \in 0..MaxTrouble
  BY <1>2, Counted
<1>6. base + 1 \in Versions
  BY <1>2, <1>3, Committing DEF IInv
<1>7. PICK q \in Page : q = Show(page, d, base + 1, versions', pending') /\ PageFits(q, versions')
  BY <1>2, <1>3, CommitShows
<1>8. CASE Over
  <2>1. job' = NoJob /\ page' = page /\ dialog' = dialog /\ adrift' = adrift
    BY <1>8 DEF Over, books
  <2>2. PageFits(page, versions')
    BY <1>2, <1>3, CommitShows
  <2> QED BY <1>2, <1>3, <1>4, <1>5, <2>1, <2>2, CommitIInv, Idle, NoThings
<1>9. CASE job.do = "leave" /\ Perform(job.nav, q)
  <2>1. PICK nav \in Nav : nav = job.nav
    BY <1>3 DEF Job
  <2>2. /\ page' \in Page /\ dialog' \in Dialog /\ job' \in Job /\ PageFits(page', versions')
        /\ dialog'.nav \in {NoNav, nav} /\ job'.nav = NoNav /\ job'.at \in {"none", "open"}
        /\ UNCHANGED books \/ Forget
    BY <1>7, <1>9, <2>1, Performing
  <2>3. adrift' \subseteq Called
    BY <1>3, <2>2, Forgotten DEF books, IInv
  <2> QED BY <1>2, <1>3, <1>4, <1>5, <2>1, <2>2, <2>3, CommitIInv
<1>10. CASE /\ job.do # "leave" /\ page' = q /\ UNCHANGED <<dialog, books>>
            /\ job' = IF job.do = "save" THEN NoJob
                      ELSE IF job.do = "export" THEN [[job EXCEPT !.base = base + 1] EXCEPT !.at = "export"]
                      ELSE [[job EXCEPT !.base = base + 1]
                              EXCEPT !.at = IF job.do = "message" THEN "session" ELSE "post",
                                     !.text = {}]
  <2>1. adrift' = adrift /\ dialog' = dialog
    BY <1>10 DEF books
  <2>2. job.do \in {"save", "export"} \cup Paid
    BY <1>2, <1>10 DEF IInv, Fits
  <2>3. CASE job.do = "save"
    <3>1. job' = NoJob
      BY <1>10, <2>3
    <3> QED BY <1>2, <1>3, <1>4, <1>5, <1>7, <1>10, <2>1, <3>1, CommitIInv, Idle, NoThings
  <2>4. CASE job.do = "export"
    <3>1. /\ job' \in Job /\ job'.nav = job.nav /\ job'.at = "export" /\ job'.doc = d
          /\ job'.base = base + 1 /\ job'.text = text
      BY <1>1, <1>3, <1>6, <1>10, <2>4 DEF Job, At
    <3> QED BY <1>2, <1>3, <1>4, <1>5, <1>7, <1>10, <2>1, <3>1, CommitIInv
  <2>5. CASE job.do \in Paid
    <3>1. job.do # "save" /\ job.do # "export"
      BY <2>5 DEF Paid
    <3>2. /\ job' \in Job /\ job'.nav = job.nav /\ job'.do = job.do
          /\ job'.at = IF job.do = "message" THEN "session" ELSE "post"
      BY <1>1, <1>3, <1>6, <1>10, <2>5, <3>1 DEF Job, At
    <3>3. \/ job'.at = "session" /\ job'.do = "message"
          \/ job'.at = "post" /\ job'.do \in {"analysis", "firstPass"}
      BY <2>5, <3>2 DEF Paid
    <3> QED BY <1>2, <1>3, <1>4, <1>5, <1>7, <1>10, <2>1, <3>2, <3>3, CommitIInv
  <2> QED BY <2>2, <2>3, <2>4, <2>5
<1> QED BY <1>1, <1>7, <1>8, <1>9, <1>10 DEF SaveDraft

\* A session is begun: the page and the operation know it.
LEMMA createSessionKeeps == ASSUME IInv, createSession PROVE IInv'
<1>1. PICK session : session = [id |-> ids[job.doc] + 1, doc |-> job.doc, base |-> job.base]
  OBVIOUS
<1>2. /\ job.at = "session" /\ job.doc \in alive /\ job.base = Latest(job.doc) /\ NextId(job.doc)
      /\ page' = [page EXCEPT !.session = session]
      /\ job' = [job EXCEPT !.at = "post", !.session = session]
      /\ UNCHANGED <<alive, versions, pending, dialog, late, books, owed, exported, trouble>>
  BY <1>1 DEF createSession
<1>3. Safe /\ job.do = "message" /\ job \in Job /\ page \in Page /\ PageFits(page, versions)
  BY <1>2, Idle DEF IInv, Typed, Fits, AtRisk
<1>4. PICK d \in Doc, v \in Versions : d = job.doc /\ v = job.base
  BY <1>2, NewestFits DEF IInv, Typed
<1>5. Offers' /\ ids[d] + 1 \in Nat \ {0}
  BY <1>2, <1>4 DEF NextId, IInv, Typed, Offers
<1>6. session \in Session /\ session \in SomeSession
  BY <1>1, <1>4, <1>5 DEF Session, SomeSession
<1>7. PICK q \in Page : q = [page EXCEPT !.session = session] /\ PageFits(q, versions)
  <2>1. PICK q : q = [page EXCEPT !.session = session]
    OBVIOUS
  <2>2. q \in Page
    BY <1>3, <1>6, <2>1 DEF Page
  <2>3. PageFits(q, versions)
    BY <1>3, <2>1 DEF Page, PageFits
  <2> QED BY <2>1, <2>2, <2>3
<1>8. /\ job' \in Job /\ job'.nav = job.nav /\ job'.at = "post" /\ job'.do = "message"
      /\ job'.session = session
  BY <1>2, <1>3, <1>6 DEF Job, At
<1>9. /\ \A r \in late' : r = Asked \/ (r \in [doc : Doc, base : Versions] /\ Has(r.doc, r.base))
      /\ trouble' \in 0..MaxTrouble /\ adrift' \subseteq Called
  BY <1>2, LateFits DEF IInv, Typed, books
<1> QED BY <1>2, <1>3, <1>5, <1>6, <1>7, <1>8, <1>9, ReplaceKeeps DEF Paid

\* What is carried out leaves at most a patch or a batch, with the next id.
LEMMA Carrying ==
  ASSUME Typed, NEW r \in Asking, r.do = "message" => r.on \in Session, CarriedOut(r)
  PROVE  /\ Offers' /\ r.on.doc \in Doc
         /\ r.do = "message" => [id |-> ids'[r.on.doc], of |-> r.on] \in Patch
<1>1. PICK d, new : d = r.on.doc /\ new = ids[d] + 1
  OBVIOUS
<1>2. /\ d \in alive /\ d \in Doc /\ ids[d] \in Nat /\ new \in Nat \ {0}
      /\ Latest(d) \in Versions
  <2>1. d \in alive /\ d \in Doc
    BY <1>1 DEF CarriedOut, Typed
  <2>2. Latest(d) \in 1..MaxVersions[d] /\ ids[d] \in Nat
    BY <2>1 DEF Typed, Offers
  <2> QED BY <1>1, <2>1, <2>2, VersionBound
<1>3. CASE r.do = "analysis"
  BY <1>1, <1>2, <1>3 DEF CarriedOut, Typed, Offers
<1>4. ASSUME NextId(d) PROVE /\ ids' \in [Doc -> Nat] /\ \A c \in Doc : ids'[c] <= MaxIds[c]
                             /\ ids'[d] = new
  <2>1. ids \in [Doc -> Nat] /\ \A c \in Doc : ids[c] <= MaxIds[c]
    BY DEF Typed, Offers
  <2>2. ids' = [ids EXCEPT ![d] = new] /\ new <= MaxIds[d]
    BY <1>1, <1>2, <1>4, <2>1 DEF NextId
  <2> QED BY <1>2, <2>1, <2>2
<1>5. CASE r.do = "message"
  <2>1. /\ NextId(d)
        /\ pending' = [pending EXCEPT !.patches = IF r.on.base = Latest(r.on.doc)
                         THEN (@ \ {r.prev}) \cup {[id |-> new, of |-> r.on]} ELSE @]
    BY <1>1, <1>5 DEF CarriedOut
  <2>2. [id |-> new, of |-> r.on] \in Patch
    BY <1>2, <1>5 DEF Patch
  <2>3. pending' \in Waiting
    BY <2>1, <2>2 DEF Typed, Offers, Waiting
  <2> QED BY <1>1, <1>2, <1>4, <2>1, <2>2, <2>3 DEF Offers
<1>6. CASE r.do = "firstPass"
  <2>1. /\ NextId(d) /\ r.on.base = Latest(d)
        /\ pending' = [pending EXCEPT !.batches = @ \cup {[r.on EXCEPT !.id = new]}]
    BY <1>1, <1>6 DEF CarriedOut
  <2>2. PICK on \in Place : on = r.on
    BY DEF Asking
  <2>3. [on EXCEPT !.id = new] \in Session
    BY <1>1, <1>2, <2>1, <2>2 DEF Place, Session
  <2>4. pending' \in Waiting
    BY <2>1, <2>2, <2>3 DEF Typed, Offers, Waiting
  <2> QED BY <1>1, <1>2, <1>4, <1>6, <2>1, <2>4 DEF Offers
<1> QED BY <1>3, <1>5, <1>6 DEF CarriedOut

\* The paid call that the page waits for is carried out.
LEMMA PostPaidKeeps == ASSUME IInv, PostPaid PROVE IInv'
<1>1. PICK r : r = Request(job)
  OBVIOUS
<1>2. /\ job.at = "run" /\ CarriedOut(r) /\ completeRequest(r)
      /\ page' = CASE job.do = "message"   ->
                        [page EXCEPT !.patch = [id |-> ids'[r.on.doc], of |-> r.on],
                                     !.session = r.on]
                   [] job.do = "firstPass" ->
                        IF page.doc = job.doc /\ page.base = job.base
                        THEN [Show(page, job.doc, job.base, versions, pending')
                                EXCEPT !.patch = NoPatch, !.session = NoSession]
                        ELSE Show(page, job.doc, job.base, versions, pending')
                   [] OTHER                -> page
      /\ job' = IF job.do = "analysis" THEN [job EXCEPT !.at = "refresh"] ELSE NoJob
      /\ UNCHANGED <<alive, versions, dialog, late, owed, exported, trouble>>
  BY <1>1 DEF PostPaid
<1>3. Safe /\ job.do \in Paid /\ job \in Job
  BY <1>2, Idle DEF IInv, Typed, Fits, AtRisk
<1>4. /\ r \in Asking /\ r.do = job.do /\ (r.do = "message" => r.on = job.session /\ r.on \in Session)
      /\ r.do # "message" => r.on.doc = job.doc /\ r.on.base = job.base
  <2>1. Request(job) \in Asking
    BY <1>2, Waited DEF IInv
  <2>2. job.do = "message" => job.session \in Session
    BY <1>2 DEF IInv, Fits
  <2> QED BY <1>1, <2>1, <2>2 DEF Request
<1>5. /\ Offers' /\ r.on.doc \in Doc
      /\ r.do = "message" => [id |-> ids'[r.on.doc], of |-> r.on] \in Patch
  BY <1>2, <1>4, Carrying DEF IInv
<1>6. page \in Page /\ PageFits(page, versions) /\ versions \in [Doc -> Seq(SUBSET Edit)]
  BY DEF IInv, Typed, Fits
<1>7. PICK proposals \in Waiting : proposals = pending'
  BY <1>5 DEF Offers
<1>8. page' \in Page /\ PageFits(page', versions)
  <2>1. CASE job.do = "message"
    <3>1. PICK patch \in SomePatch, session \in SomeSession :
            patch = [id |-> ids'[r.on.doc], of |-> r.on] /\ session = r.on
      BY <1>4, <1>5, <2>1 DEF SomePatch, SomeSession
    <3>2. PICK q : q = [page EXCEPT !.patch = patch, !.session = session]
      OBVIOUS
    <3>3. q \in Page /\ PageFits(q, versions)
      BY <1>6, <3>2, Repatched
    <3>4. page' = q
      BY <1>2, <2>1, <3>1, <3>2
    <3> QED BY <3>3, <3>4
  <2>2. CASE job.do = "firstPass"
    <3>1. r.on.base = Latest(r.on.doc)
      BY <1>2, <1>4, <2>2 DEF CarriedOut
    <3>2. PICK d \in Doc, v \in Versions : d = job.doc /\ v = job.base /\ v \in 1..Len(versions[d])
      BY <1>4, <1>5, <2>2, <3>1, NewestFits DEF Has, Latest
    <3>3. PICK q \in Page : q = Show(page, d, v, versions, proposals) /\ PageFits(q, versions)
      BY <1>6, <3>2, ShowFits
    <3>4. PICK q2 : q2 = [q EXCEPT !.patch = NoPatch, !.session = NoSession]
      OBVIOUS
    <3>5. q2 \in Page /\ PageFits(q2, versions)
      BY <3>3, <3>4, NoThings, Repatched
    <3>6. q = Show(page, job.doc, job.base, versions, pending')
      BY <1>7, <3>2, <3>3
    <3>7. page' \in {q, q2}
      BY <1>2, <2>2, <3>4, <3>6
    <3> QED BY <3>3, <3>5, <3>7
  <2>3. CASE job.do = "analysis"
    <3>1. page' = page
      BY <1>2, <2>3
    <3> QED BY <1>6, <3>1
  <2> QED BY <1>3, <2>1, <2>2, <2>3 DEF Paid
<1>9. job' \in Job /\ job'.nav \in {job.nav, NoNav} /\ job'.at \in {"none", "refresh"}
  BY <1>2, <1>3, Idle, NoThings DEF Job, At
<1>10. /\ \A x \in late' : x = Asked \/ (x \in [doc : Doc, base : Versions] /\ Has(x.doc, x.base))
       /\ trouble' \in 0..MaxTrouble /\ adrift' \subseteq Called
  BY <1>2, LateFits DEF IInv, Typed, completeRequest
<1> QED BY <1>2, <1>3, <1>5, <1>8, <1>9, <1>10, ReplaceKeeps

\* A paid call is taken up, fails or is given up: nothing on the page changes.
LEMMA AwaitedKeeps == ASSUME IInv, StartPaid \/ PaidFails \/ GiveUp PROVE IInv'
<1>1. /\ job.at \in {"post", "run"} /\ trouble' \in 0..MaxTrouble
      /\ UNCHANGED <<stored, page, dialog, late, owed, exported>>
      /\ job' \in {[job EXCEPT !.at = "run"], NoJob}
  <2>1. trouble \in 0..MaxTrouble
    BY DEF IInv, Typed
  <2>2. CASE StartPaid
    BY <2>1, <2>2 DEF StartPaid
  <2>3. CASE PaidFails
    BY <2>1, <2>3 DEF PaidFails, Released, Troubled
  <2>4. CASE GiveUp
    BY <2>1, <2>4 DEF GiveUp, Underway, Troubled
  <2> QED BY <2>2, <2>3, <2>4
<1> USE DEF stored
<1>2. Safe /\ job \in Job /\ page \in Page /\ PageFits(page, versions) /\ Offers'
  BY <1>1, Idle DEF IInv, Typed, Fits, Offers, AtRisk
<1>3. adrift' \subseteq Called
  <2>1. Underway \subseteq Called
    BY Waited DEF Underway, IInv
  <2> QED BY <2>1 DEF StartPaid, PaidFails, GiveUp, IInv, Typed
<1>4. /\ job' \in Job /\ job'.nav \in {job.nav, NoNav}
      /\ \/ job'.at \in {"none", "refresh"}
         \/ /\ job'.at \in {"post", "run"} /\ job'.do = job.do /\ job'.session = job.session
  BY <1>1, <1>2, Idle, NoThings DEF Job, At
<1>5. \/ job'.at \in {"none", "refresh"}
      \/ /\ job'.at \in {"post", "run"} /\ job'.do \in Paid
         /\ job'.do = "message" => job'.session \in Session
  BY <1>1, <1>4 DEF IInv, Fits
<1>6. /\ \A x \in late' : x = Asked \/ (x \in [doc : Doc, base : Versions] /\ Has(x.doc, x.base))
  BY <1>1, LateFits
<1> QED BY <1>1, <1>2, <1>3, <1>4, <1>5, <1>6, ReplaceKeeps

\* What becomes of a call that was given up on is nothing to the draft.
LEMMA AdriftKeeps == ASSUME IInv, NEW c \in adrift, Adrift(c) PROVE IInv'
<1>1. /\ UNCHANGED <<alive, versions, page, dialog, job, late, owed, exported>>
      /\ trouble' \in 0..MaxTrouble
  BY DEF Adrift, Released, Troubled, IInv, Typed
<1>2. c \in Called /\ c.request \in Asking /\ (c.request.do = "message" => c.request.on \in Session)
  BY DEF IInv, Typed, Called
<1>3. [c EXCEPT !.begun = TRUE] \in Called
  BY <1>2 DEF Called
<1>4. adrift' \subseteq Called
  BY <1>3 DEF Adrift, IInv, Typed
<1>5. Offers'
  <2>1. CASE CarriedOut(c.request)
    BY <1>2, <2>1, Carrying DEF IInv
  <2>2. CASE UNCHANGED <<ids, pending>>
    BY <2>2 DEF IInv, Typed, Offers
  <2> QED BY <2>1, <2>2 DEF Adrift
<1>6. Typed'
  BY <1>1, <1>4, <1>5 DEF IInv, Typed, Latest
<1>7. Fits'
  BY <1>1 DEF IInv, Fits, NavFits, Has, Latest
<1>8. Gone' /\ (Safe \/ AtRisk)'
  BY <1>1 DEF IInv, Gone, Texts, Safe, AtRisk, Stored
<1> QED BY <1>1, <1>6, <1>7, <1>8 DEF IInv

\* A proposal that is accepted, or a version that is restored, is a version more.
LEMMA AcceptsKeeps == ASSUME IInv, NEW answered \in BOOLEAN, Accepts(answered) PROVE IInv'
<1>1. PICK d, base, text : d = job.doc /\ base = job.base /\ text = versions[d][base]
  OBVIOUS
<1>2. /\ job.at \in {"accept", "batch"} /\ Commits(d, base, text) /\ Lost(answered)
      /\ UNCHANGED <<alive, late, owed, exported>>
      /\ \/ Over
         \/ /\ page' = Show(page, d, base + 1, versions', pending')
            /\ job' = NoJob /\ UNCHANGED <<dialog, books>>
  BY <1>1 DEF Accepts
<1>3. dialog \in Dialog /\ page \in Page /\ adrift \subseteq Called
  BY DEF IInv, Typed
<1>4. text \in SUBSET Edit
  <2>1. d \in Doc /\ base \in 1..Latest(d)
    BY <1>2, NewestFits DEF Commits, IInv, Typed, Has
  <2> QED BY <1>1, <2>1 DEF IInv, Typed, Offers, Latest
<1>5. owed \subseteq text \cup Stored(alive)
  BY <1>2, Idle DEF IInv, Safe, AtRisk
<1>6. trouble' \in 0..MaxTrouble
  BY <1>2, Counted
<1>7. /\ PageFits(page, versions')
      /\ \E q \in Page : q = Show(page, d, base + 1, versions', pending') /\ PageFits(q, versions')
  BY <1>2, <1>4, CommitShows
<1>8. page' \in Page /\ PageFits(page', versions')
      /\ job' = NoJob /\ dialog' = dialog /\ adrift' = adrift
  BY <1>2, <1>3, <1>7 DEF Over, books
<1> QED BY <1>2, <1>3, <1>4, <1>5, <1>6, <1>8, CommitIInv, Idle, NoThings

\* A restoration was chosen where nothing was at risk.
LEMMA confirmRestoreKeeps ==
  ASSUME IInv, Clicked, NEW answered \in BOOLEAN, confirmRestore(answered) PROVE IInv'
<1>1. PICK d, base, text : d = job.doc /\ base = job.base /\ text = versions[d][job.nav.ver]
  OBVIOUS
<1>2. /\ job.at = "restore" /\ job.nav.doc = d /\ Commits(d, base, text) /\ Lost(answered)
      /\ UNCHANGED <<alive, late, owed, exported>>
      /\ \/ Over
         \/ /\ page' = Show(page, d, base + 1, versions', pending')
            /\ dialog' = NoDialog /\ job' = NoJob /\ UNCHANGED books
  BY <1>1 DEF confirmRestore
<1>3. dialog \in Dialog /\ page \in Page /\ adrift \subseteq Called
  BY DEF IInv, Typed
<1>4. text \in SUBSET Edit
  BY <1>1, <1>2 DEF IInv, Typed, Fits, NavFits, Has, Latest, Commits, Clicked
<1>5. owed \subseteq text \cup Stored(alive)
  BY <1>2, Idle DEF IInv, Safe, AtRisk
<1>6. trouble' \in 0..MaxTrouble
  BY <1>2, Counted
<1>7. /\ PageFits(page, versions')
      /\ \E q \in Page : q = Show(page, d, base + 1, versions', pending') /\ PageFits(q, versions')
  BY <1>2, <1>4, CommitShows
<1>8. page' \in Page /\ PageFits(page', versions')
      /\ job' = NoJob /\ dialog' \in {NoDialog, dialog} /\ adrift' = adrift
  <2>1. CASE Over
    BY <1>3, <1>7, <2>1 DEF Over, books
  <2>2. CASE ~Over
    BY <1>2, <1>7, <2>2 DEF books
  <2> QED BY <2>1, <2>2
<1>9. dialog' \in Dialog /\ dialog'.nav \in {NoNav, dialog.nav, job.nav}
  BY <1>3, <1>8, Idle, NoThings
<1> QED BY <1>2, <1>3, <1>4, <1>5, <1>6, <1>8, <1>9, CommitIInv, Idle, NoThings

\* A patch that is rejected leaves the page, and the draft there stays.
LEMMA reject_patchKeeps ==
  ASSUME IInv, NEW answered \in BOOLEAN, reject_patch(answered) PROVE IInv'
<1>1. /\ job.at = "reject" /\ Lost(answered) /\ job' = NoJob
      /\ pending' = [pending EXCEPT !.patches = @ \ {job.patch}]
      /\ page' = IF answered THEN [page EXCEPT !.patch = NoPatch] ELSE page
      /\ UNCHANGED <<alive, versions, ids, dialog, late, adrift, owed, exported>>
  BY DEF reject_patch
<1>2. trouble' \in 0..MaxTrouble
  BY <1>1, Counted
<1>3. Offers'
  BY <1>1 DEF IInv, Typed, Offers, Waiting
<1>4. /\ page' \in Page /\ page'.view = page.view /\ page'.doc = page.doc /\ page'.base = page.base
      /\ page'.draft = page.draft /\ page'.dirty = page.dirty
  BY <1>1, NoThings DEF IInv, Typed, Page
<1>5. Typed'
  BY <1>1, <1>2, <1>3, <1>4, NoThings DEF IInv, Typed, Latest
<1>6. PageFits(page, versions)'
  BY <1>1, <1>4 DEF IInv, Fits, PageFits
<1>7. NavFits(dialog.nav)' /\ NavFits(job.nav)'
  BY <1>1, Idle DEF IInv, Fits, NavFits, Has, Latest
<1>8. Fits'
  BY <1>1, <1>6, <1>7, Idle DEF IInv, Fits, Has, Latest
<1>9. Gone'
  BY <1>1 DEF IInv, Gone, Texts
<1>10. (Safe \/ AtRisk)'
  BY <1>1, <1>4 DEF IInv, Safe, AtRisk, Stored
<1> QED BY <1>1, <1>5, <1>8, <1>9, <1>10 DEF IInv

\* A batch is declined where nothing is at risk.
LEMMA DeclinesKeeps == ASSUME IInv, NEW answered \in BOOLEAN, Declines(answered) PROVE IInv'
<1>1. PICK d, base : d = job.doc /\ base = job.base
  OBVIOUS
<1>2. /\ job.at = "decline" /\ d \in alive /\ base = Latest(d) /\ Lost(answered)
      /\ pending' = [pending EXCEPT !.batches = @ \ {job.session}]
      /\ page' = IF answered THEN Show(page, d, base, versions, pending') ELSE page
      /\ job' = NoJob
      /\ UNCHANGED <<alive, versions, ids, dialog, late, books, owed, exported>>
  BY <1>1 DEF Declines
<1>3. trouble' \in 0..MaxTrouble
  BY <1>2, Counted
<1>4. Offers'
  BY <1>2 DEF IInv, Typed, Offers, Waiting
<1>5. /\ page \in Page /\ PageFits(page, versions) /\ versions \in [Doc -> Seq(SUBSET Edit)]
      /\ adrift' \subseteq Called /\ d \in Doc
  BY <1>2 DEF IInv, Typed, Fits, books
<1>6. Safe
  BY <1>2, Idle DEF IInv, AtRisk
<1>7. base \in Versions /\ base \in 1..Len(versions[d])
  BY <1>2, <1>5, NewestFits DEF Has, Latest
<1>8. page' \in Page /\ PageFits(page', versions)
  <2>1. PICK proposals \in Waiting : proposals = pending'
    BY <1>4 DEF Offers
  <2>2. PICK q \in Page : q = Show(page, d, base, versions, proposals) /\ PageFits(q, versions)
    BY <1>5, <1>7, ShowFits
  <2>3. page' \in {page, q}
    BY <1>2, <2>1, <2>2
  <2> QED BY <1>5, <2>2, <2>3
<1>9. \A r \in late' : r = Asked \/ (r \in [doc : Doc, base : Versions] /\ Has(r.doc, r.base))
  BY <1>2, LateFits
<1>10. job' \in Job /\ job'.nav = NoNav /\ job'.at = "none"
  BY <1>2, Idle, NoThings
<1> QED BY <1>2, <1>3, <1>4, <1>5, <1>6, <1>8, <1>9, <1>10, ReplaceKeeps

\* A document that goes takes its texts with it; what is owed is in others, or in
\* the draft.
LEMMA Going ==
  ASSUME IInv, NEW d \in Doc, UNCHANGED versions, alive' = alive \ {d},
         owed' \subseteq owed, owed' \cap Texts(d) = {}
  PROVE  /\ Gone'
         /\ owed' \cap Stored(alive) \subseteq Stored(alive)'
<1>1. Gone'
  BY DEF IInv, Gone, Texts
<1>2. \A D \in SUBSET Doc : Stored(D) = {e \in Edit : \E c \in D : e \in Texts(c)}
  BY StoredOf DEF IInv, Typed
<1>3. alive \in SUBSET Doc /\ alive' \in SUBSET Doc
  BY DEF IInv, Typed
<1>4. Stored(alive) = {e \in Edit : \E c \in alive : e \in Texts(c)}
  BY <1>2, <1>3
<1>5. Stored(alive') = {e \in Edit : \E c \in alive' : e \in Texts(c)}
  BY <1>2, <1>3
<1>6. Stored(alive)' = Stored(alive')
  BY DEF Stored
<1> QED BY <1>1, <1>4, <1>5, <1>6

\* A deletion takes the draft with it that was on the screen.
LEMMA confirmRemoveKeeps ==
  ASSUME IInv, NEW answered \in BOOLEAN, confirmRemove(answered) PROVE IInv'
<1>1. PICK d : d = job.doc
  OBVIOUS
<1>2. /\ job.at = "delete" /\ d \in alive /\ alive' = alive \ {d}
      /\ owed' = owed \ ({e \in page.draft : page.doc = d} \cup Texts(d))
      /\ job' = NoJob /\ Lost(answered)
      /\ late' \subseteq late \cup {Asked}
      /\ UNCHANGED <<versions, page, dialog, books, exported>>
      /\ pending' = Without(d) /\ ids' = ids
  BY <1>1 DEF confirmRemove, Delete, Texts
<1> USE DEF books
<1>3. d \in Doc
  BY <1>2 DEF IInv, Typed
<1>4. trouble' \in 0..MaxTrouble
  BY <1>2, Counted
<1>5. Gone' /\ owed' \cap Stored(alive) \subseteq Stored(alive)'
  BY <1>2, <1>3, Going
<1>6. owed \subseteq Stored(alive) \/ (owed \subseteq page.draft \cup Stored(alive) /\ page.doc = d)
  BY <1>1, <1>2, Idle DEF IInv, Safe, AtRisk
<1>7. Safe'
  BY <1>2, <1>5, <1>6 DEF Safe
<1>8. Typed'
  BY <1>2, <1>4, WithoutWaits, NoThings DEF IInv, Typed, Offers, Latest
<1>9. NavFits(dialog.nav)' /\ NavFits(job.nav)'
  BY <1>2, Idle DEF IInv, Fits, NavFits, Has, Latest
<1>10. Fits'
  BY <1>2, <1>9, Idle DEF IInv, Fits, Has, Latest
<1> QED BY <1>2, <1>5, <1>7, <1>8, <1>10 DEF IInv

\* Elsewhere a document goes with its versions, and the draft stays on the screen.
LEMMA DeleteElsewhereKeeps == ASSUME IInv, NEW d \in Doc, DeleteElsewhere(d) PROVE IInv'
<1>1. /\ alive' = alive \ {d} /\ owed' = owed \ Texts(d)
      /\ UNCHANGED <<versions, page, dialog, job, late, books, exported>>
      /\ pending' = Without(d) /\ ids' = ids
      /\ trouble' \in 0..MaxTrouble
  BY DEF DeleteElsewhere, Delete, Texts, Troubled, IInv, Typed
<1> USE DEF books
<1>2. Gone' /\ owed' \cap Stored(alive) \subseteq Stored(alive)'
  BY <1>1, Going
<1>3. Typed'
  BY <1>1, WithoutWaits DEF IInv, Typed, Offers, Latest
<1>4. Fits'
  BY <1>1 DEF IInv, Fits, NavFits, Has, Latest
<1>5. (Safe \/ AtRisk)'
  BY <1>1, <1>2 DEF IInv, Safe, AtRisk
<1> QED BY <1>1, <1>2, <1>3, <1>4, <1>5 DEF IInv

\* Elsewhere a version is restored, and the draft stays on the screen.
LEMMA EditElsewhereKeeps == ASSUME IInv, NEW d \in Doc, EditElsewhere(d) PROVE IInv'
<1>1. PICK v \in 1..Latest(d) : Commits(d, Latest(d), versions[d][v])
  BY DEF EditElsewhere
<1>2. PICK base, text : base = Latest(d) /\ text = versions[d][v]
  OBVIOUS
<1>3. /\ Commits(d, base, text)
      /\ UNCHANGED <<alive, page, dialog, job, late, books, owed, exported>>
      /\ trouble' \in 0..MaxTrouble
  BY <1>1, <1>2 DEF EditElsewhere, Troubled, IInv, Typed
<1> USE DEF books
<1>4. text \in SUBSET Edit
  BY <1>2 DEF IInv, Typed, Offers, Latest
<1>5. Gone' /\ Stored(alive) \subseteq Stored(alive)'
  BY <1>3, <1>4, CommitKeeps DEF IInv
<1>6. /\ versions' \in [Doc -> Seq(SUBSET Edit)]
      /\ Offers'
      /\ \A c \in Doc : Latest(c)' \in 1..MaxVersions[c]
      /\ \A c \in Doc : \A w \in 1..Latest(c) :
           w \in 1..Latest(c)' /\ versions'[c][w] = versions[c][w]
  BY <1>3, <1>4, Committing DEF IInv
<1>7. Typed'
  BY <1>3, <1>6 DEF IInv, Typed
<1>8. PageFits(page, versions)'
  BY <1>3, <1>4, CommitShows
<1>9. Fits'
  BY <1>3, <1>6, <1>8 DEF IInv, Fits, NavFits, Has
<1>10. (Safe \/ AtRisk)'
  BY <1>3, <1>5 DEF IInv, Safe, AtRisk
<1> QED BY <1>3, <1>5, <1>7, <1>9, <1>10 DEF IInv

-----------------------------------------------------------------------------
(* The refresh after a deletion.                                           *)

\* While the refresh of a deletion is under way nothing is at risk.
LEMMA LateSafe == ASSUME IInv, late # {} PROVE Safe
BY DEF IInv, AtRisk

\* The refresh reads the list and a document of it, or finds none.
LEMMA LateReadKeeps == ASSUME IInv, LateRead PROVE IInv'
<1>1. Safe /\ Asked \in late /\ UNCHANGED <<stored, owed, exported, trouble>>
  BY LateSafe DEF LateRead
<1> USE DEF stored, books
<1>2. /\ page \in Page /\ PageFits(page, versions) /\ trouble' \in 0..MaxTrouble
      /\ Offers' /\ adrift \subseteq Called /\ job \in Job
  BY <1>1 DEF IInv, Typed, Offers, Fits
<1>3. ASSUME NEW d \in alive, late' = (late \ {Asked}) \cup {[doc |-> d, base |-> Latest(d)]},
             UNCHANGED <<page, dialog, job, books>>
      PROVE  IInv'
  <2>1. d \in Doc
    BY DEF IInv, Typed
  <2>2. Has(d, Latest(d)) /\ Latest(d) \in Versions
    BY <2>1, NewestFits
  <2>3. \A r \in late' : r = Asked \/ (r \in [doc : Doc, base : Versions] /\ Has(r.doc, r.base))
    BY <1>3, <2>1, <2>2, LateFits
  <2> QED BY <1>1, <1>2, <1>3, <2>3, ReplaceKeeps
<1>4. CASE page' = Away("create") /\ dialog' = NoDialog /\ job' = NoJob /\ Forget
           /\ late' = late \ {Asked}
  <2>1. PICK q \in Page : q = Away("create") /\ PageFits(q, versions)
    BY AwayFits
  <2>2. \A r \in late' : r = Asked \/ (r \in [doc : Doc, base : Versions] /\ Has(r.doc, r.base))
    BY <1>4, LateFits
  <2>3. adrift' \subseteq Called
    BY <1>4, Forgotten DEF IInv
  <2>4. job' \in Job /\ job'.nav = NoNav /\ job'.at = "none"
    BY <1>4, Idle, NoThings
  <2> QED BY <1>1, <1>2, <1>4, <2>1, <2>2, <2>3, <2>4, ReplaceKeeps
<1> QED BY <1>3, <1>4 DEF LateRead

\* Its answer may replace the draft.
LEMMA LateLandsKeeps == ASSUME IInv, NEW r \in late, LateLands(r) PROVE IInv'
<1>1. /\ Safe /\ r \in late \ {Asked} /\ late' = late \ {r}
      /\ UNCHANGED <<stored, dialog, job, books, owed, exported, trouble>>
      /\ \/ page' = page
         \/ page' = Show(page, r.doc, r.base, versions, pending)
  BY LateSafe DEF LateLands
<1> USE DEF stored, books
<1>2. /\ page \in Page /\ PageFits(page, versions) /\ versions \in [Doc -> Seq(SUBSET Edit)]
      /\ trouble' \in 0..MaxTrouble /\ job' \in Job
      /\ Offers' /\ pending \in Waiting
      /\ adrift' \subseteq Called
  BY <1>1 DEF IInv, Typed, Offers, Fits
<1>3. PICK d \in Doc, v \in Versions : d = r.doc /\ v = r.base /\ v \in 1..Len(versions[d])
  BY <1>1, LateFits DEF Has, Latest
<1>4. \E q \in Page : q = Show(page, d, v, versions, pending) /\ PageFits(q, versions)
  BY <1>2, <1>3, ShowFits
<1>5. PICK q \in Page : page' = q /\ PageFits(q, versions)
  BY <1>1, <1>2, <1>3, <1>4
<1>6. \A x \in late' : x = Asked \/ (x \in [doc : Doc, base : Versions] /\ Has(x.doc, x.base))
  BY <1>1, LateFits
<1> QED BY <1>1, <1>2, <1>5, <1>6, ReplaceKeeps

\* It may fail as well.
LEMMA LateFailsKeeps == ASSUME IInv, NEW r \in late, LateFails(r) PROVE IInv'
<1>1. /\ Safe /\ late' = late \ {r}
      /\ UNCHANGED <<stored, page, dialog, job, books, owed, exported, trouble>>
  BY LateSafe DEF LateFails
<1> USE DEF stored, books
<1>2. PICK q \in Page : q = page /\ PageFits(q, versions)
  BY DEF IInv, Typed, Fits
<1>3. /\ trouble' \in 0..MaxTrouble /\ adrift' \subseteq Called
      /\ Offers' /\ job' \in Job
  BY <1>1 DEF IInv, Typed, Offers
<1>4. \A x \in late' : x = Asked \/ (x \in [doc : Doc, base : Versions] /\ Has(x.doc, x.base))
  BY <1>1, LateFits
<1> QED BY <1>1, <1>2, <1>3, <1>4, ReplaceKeeps

-----------------------------------------------------------------------------
(* Every step.                                                             *)

\* At first all documents are empty and one is shown.
LEMMA Opens == Init => IInv /\ Clicked
<1> SUFFICES ASSUME Init PROVE IInv /\ Clicked
  OBVIOUS
<1>1. PICK d \in Doc : page = [Away("workspace") EXCEPT !.doc = d, !.base = 1]
  BY DEF Init
<1>2. /\ alive = Doc /\ versions = [c \in Doc |-> <<{}>>] /\ pending = NoProposal
      /\ ids = [c \in Doc |-> 0]
      /\ dialog = NoDialog /\ job = NoJob /\ late = {} /\ adrift = {}
      /\ owed = {} /\ exported = TRUE /\ trouble = 0
  BY DEF Init
<1>3. <<{}>> \in Seq(SUBSET Edit) /\ Len(<<{}>>) = 1 /\ <<{}>>[1] = {}
  OBVIOUS
<1>4. \A c \in Doc : 1 \in 1..MaxVersions[c]
  OBVIOUS
<1>5. /\ page \in Page /\ page.view = "workspace" /\ page.doc = d /\ page.base = 1
      /\ page.draft = {}
  <2>1. 1 \in Versions
    BY <1>4, VersionBound
  <2> QED BY <1>1, <2>1, NoThings DEF Away, Page
<1>6. versions \in [Doc -> Seq(SUBSET Edit)] /\ \A c \in Doc : Latest(c) \in 1..MaxVersions[c]
  BY <1>2, <1>3, <1>4 DEF Latest
<1>7. Typed
  BY <1>2, <1>5, <1>6, NoThings DEF Typed, Offers, Waiting, NoProposal
<1>8. PageFits(page, versions)
  BY <1>2, <1>3, <1>5 DEF PageFits
<1>9. Fits
  BY <1>2, <1>8, Idle DEF Fits
<1>10. Gone /\ Safe
  BY <1>2 DEF Gone, Safe
<1>11. Clicked
  BY <1>2, Idle DEF Clicked, NoDialog
<1> QED BY <1>2, <1>7, <1>9, <1>10, <1>11 DEF IInv

\* Where the author goes decides what he clicks next.
LEMMA PerformClicked == ASSUME NEW nav \in Nav, NEW p, Perform(nav, p) PROVE Clicked'
<1>1. CASE nav.to = "open"
  <2>1. dialog' = NoDialog /\ job' = [NoJob EXCEPT !.do = "open", !.at = "open", !.doc = nav.doc]
    BY <1>1 DEF Perform
  <2>2. dialog'.kind = "none" /\ job'.at = "open"
    BY <2>1 DEF NoDialog, NoJob
  <2> QED BY <2>2 DEF Clicked
<1>2. CASE nav.to \in {"create", "login"}
  BY <1>2 DEF Perform, Clicked, NoDialog, NoJob
<1>3. CASE nav.to = "restore"
  BY <1>3 DEF Perform, Clicked, NoDialog, NoJob
<1> QED BY <1>1, <1>2, <1>3 DEF Perform

\* No step restores or refuses what was not clicked.
LEMMA StaysClicked == ASSUME IInv, Clicked, [Next]_vars PROVE Clicked'
<1>1. CASE UNCHANGED vars
  BY <1>1 DEF Clicked, vars
<1>2. ASSUME NEW e \in Edit, updateParagraph(e) PROVE Clicked'
  BY <1>2 DEF updateParagraph, Clicked
<1>3. ASSUME NEW do, NEW next \in {"save", "export", "post"}, Click(do, next) \/ propose
      PROVE  Clicked'
  <2>1. ASSUME Click(do, next)
        PROVE  dialog' = dialog /\ job'.at \in {"save", "export", "session", "post"}
    BY <2>1 DEF Click, Begin, NoJob
  <2>2. ASSUME propose
        PROVE  dialog' = dialog /\ job'.at \in {"save", "export", "session", "post"}
    <3>1. PICK session : job'.at = IF page.dirty THEN "save"
                                   ELSE IF session = NoSession THEN "session" ELSE "post"
      BY <2>2 DEF propose
    <3> QED BY <2>2, <3>1 DEF propose
  <2>3. dialog' = dialog /\ job'.at \in {"save", "export", "session", "post"}
    BY <1>3, <2>1, <2>2
  <2> QED BY <2>3 DEF Clicked
<1>4. ASSUME NEW do \in {"accept", "reject", "batch", "decline"}, NEW session, NEW patch,
             Decide(do, session, patch)
      PROVE  Clicked'
  BY <1>4 DEF Decide, Clicked, NoJob
<1>5. ASSUME NEW nav \in Goals, navigate(nav) PROVE Clicked'
  <2>1. nav \in Nav
    BY <1>5, GoalFits DEF navigate, Ready, AtWork
  <2>2. CASE page.dirty
    BY <1>5, <2>2 DEF navigate, Clicked
  <2>3. CASE ~page.dirty
    BY <1>5, <2>1, <2>3, PerformClicked DEF navigate
  <2> QED BY <2>2, <2>3
<1>6. ASSUME NEW save, leaveDraft(save) PROVE Clicked'
  <2>1. PICK nav \in Nav : nav = dialog.nav
    BY DEF IInv, Typed, Dialog
  <2>2. CASE save /\ page.dirty
    BY <1>6, <2>2 DEF leaveDraft, Clicked, NoJob
  <2>3. CASE ~(save /\ page.dirty)
    BY <1>6, <2>1, <2>3, PerformClicked DEF leaveDraft
  <2> QED BY <2>2, <2>3
<1>7. CASE cancelDialog \/ remove \/ reload
  BY <1>7 DEF cancelDialog, remove, reload, Clicked, NoDialog, NoJob
<1>8. CASE Confirm
  BY <1>8 DEF Confirm, Clicked, NoJob
<1>9. ASSUME NEW answered \in BOOLEAN, SaveDraft(answered) PROVE Clicked'
  <2>1. PICK nav \in Nav : nav = job.nav
    BY DEF IInv, Typed, Job
  <2>2. job \in Job
    BY DEF IInv, Typed
  <2>3. CASE Over
    BY <2>3 DEF Over, Clicked, NoJob
  <2>4. CASE \E p : Perform(nav, p)
    BY <2>4, PerformClicked
  <2>5. CASE /\ UNCHANGED dialog
             /\ \/ job' = NoJob
                \/ job' = [[job EXCEPT !.base = job.base + 1] EXCEPT !.at = "export"]
                \/ job' = [[job EXCEPT !.base = job.base + 1]
                             EXCEPT !.at = IF job.do = "message" THEN "session" ELSE "post",
                                    !.text = {}]
    <3>1. job'.at \in {"none", "export", "session", "post"}
      BY <2>2, <2>5, Idle DEF Job
    <3>2. dialog' = dialog
      BY <2>5
    <3> QED BY <3>1, <3>2 DEF Clicked
  <2> QED BY <1>9, <2>1, <2>3, <2>4, <2>5 DEF SaveDraft
<1>10. CASE PaidCall
  <2>1. job \in Job
    BY DEF IInv, Typed
  <2>2. dialog' = dialog /\ (job' = job \/ job'.at \in {"none", "post", "run", "refresh"})
    BY <1>10, <2>1, Idle
    DEF PaidCall, createSession, StartPaid, PostPaid, PaidFails, GiveUp, Adrift, Job
  <2> QED BY <2>2 DEF Clicked
<1>11. ASSUME NEW answered \in BOOLEAN,
              \/ Accepts(answered) \/ reject_patch(answered) \/ Declines(answered)
              \/ confirmRestore(answered) \/ confirmRemove(answered)
       PROVE  Clicked'
  BY <1>11 DEF Accepts, reject_patch, Declines, confirmRestore, confirmRemove, Over, Clicked, NoJob, NoDialog
<1>12. CASE downloadExport \/ fetchDocument \/ CallFails \/ LateRead
  BY <1>12 DEF downloadExport, fetchDocument, CallFails, LateRead, Over, Clicked, NoJob, NoDialog
<1>13. ASSUME NEW r \in late, LateLands(r) \/ LateFails(r) PROVE Clicked'
  BY <1>13 DEF LateLands, LateFails, Clicked
<1>14. ASSUME NEW d \in Doc, refreshList(d) \/ EditElsewhere(d) \/ DeleteElsewhere(d) PROVE Clicked'
  BY <1>14 DEF refreshList, EditElsewhere, DeleteElsewhere, Clicked
<1>15. CASE Clicks
  BY <1>2, <1>3, <1>4, <1>5, <1>6, <1>7, <1>8, <1>15
  DEF Clicks, ClickSave, exportDraft, analyze, initialOneClickRewrite, accept, reject,
      decideBatch
<1>16. CASE Answers
  BY <1>9, <1>10, <1>11, <1>12, <1>13, <1>14, <1>16 DEF Answers, Call
<1> QED BY <1>1, <1>14, <1>15, <1>16 DEF Next, Elsewhere

\* Every step keeps the invariant.
LEMMA Keeps == ASSUME IInv, Clicked, [Next]_vars PROVE IInv'
<1>1. CASE UNCHANGED vars
  <2>1. Typed'
    BY <1>1 DEF IInv, Typed, Offers, vars, stored, books, Latest
  <2>2. Fits'
    BY <1>1 DEF IInv, Fits, NavFits, Has, vars, stored, books, Latest
  <2>3. Gone' /\ (Safe \/ AtRisk)'
    BY <1>1 DEF IInv, Gone, Texts, Safe, AtRisk, Stored, vars, stored, books
  <2>4. exported'
    BY <1>1 DEF IInv, vars
  <2> QED BY <2>1, <2>2, <2>3, <2>4 DEF IInv
<1>2. CASE Clicks
  <2>1. CASE ClickSave \/ exportDraft \/ analyze \/ initialOneClickRewrite
    BY <2>1, ClickKeeps DEF ClickSave, exportDraft, analyze, initialOneClickRewrite
  <2>2. CASE accept \/ reject
    <3>1. page.patch \in Patch
      BY <2>2 DEF accept, reject, IInv, Typed, Page, SomePatch
    <3>2. PICK session \in Session, patch \in SomePatch : session = page.patch.of /\ patch = page.patch
      BY <3>1 DEF Patch, SomePatch
    <3> QED BY <2>2, <3>2, DecideKeeps DEF accept, reject, Undisturbed
  <2>3. CASE decideBatch
    <3>1. PICK session \in Session : session = page.batch
      BY <2>3 DEF decideBatch, IInv, Typed, Page, SomeSession
    <3> QED BY <2>3, <3>1, DecideKeeps, NoThings DEF decideBatch, Undisturbed
  <2> QED BY <1>2, <2>1, <2>2, <2>3, updateParagraphKeeps, proposeKeeps, navigateKeeps,
             leaveDraftKeeps, DialogKeeps, ConfirmKeeps, reloadKeeps DEF Clicks
<1>3. CASE Answers
  BY <1>3, SaveDraftKeeps, AcceptsKeeps, reject_patchKeeps, DeclinesKeeps, confirmRestoreKeeps,
     confirmRemoveKeeps, createSessionKeeps, AwaitedKeeps, PostPaidKeeps, AdriftKeeps,
     downloadExportKeeps, fetchDocumentKeeps, CallFailsKeeps, LateReadKeeps,
     LateLandsKeeps, LateFailsKeeps, refreshListKeeps DEF Answers, Call, PaidCall
<1>4. CASE Elsewhere
  BY <1>4, EditElsewhereKeeps, DeleteElsewhereKeeps DEF Elsewhere
<1> QED BY <1>1, <1>2, <1>3, <1>4 DEF Next

\* The invariant holds of every behaviour.
LEMMA Invariant == Spec => [](IInv /\ Clicked)
<1>1. IInv /\ Clicked /\ [Next]_vars => (IInv /\ Clicked)'
  BY Keeps, StaysClicked
<1> QED BY <1>1, Opens, PTL DEF Spec

\* Every variable keeps its type.
THEOREM TypeCorrect == Spec => []TypeOK
<1>1. IInv => TypeOK
  <2> SUFFICES ASSUME IInv PROVE TypeOK
    OBVIOUS
  <2>1. /\ \A d \in Doc : versions[d] \in Seq(SUBSET Edit) /\ Latest(d) \in 1..MaxVersions[d]
        /\ \A d \in Doc : ids[d] \in 0..MaxIds[d]
        /\ pending.patches \subseteq Patch /\ pending.batches \subseteq Session
    BY DEF IInv, Typed, Offers, Waiting
  <2>2. page.view = "workspace" =>
          /\ page.doc \in Doc /\ page.base \in 1..Latest(page.doc) /\ page.draft \subseteq Edit
          /\ page.dirty \/ page.draft = versions[page.doc][page.base]
    BY DEF IInv, Typed, Fits, PageFits, Page, Latest
  <2> QED BY <2>1, <2>2 DEF IInv, Typed, Page, Dialog, Job, At, SomePatch, SomeSession, TypeOK
<1> QED BY <1>1, Invariant, PTL

\* Whatever fails, is lost or overlaps, an edit that was not given up is on the screen
\* or in a version of a stored document, and an export holds what was on the screen.
THEOREM HoldsDrafts == Spec => []DraftHolds
<1>1. IInv => DraftHolds
  BY DEF IInv, Safe, AtRisk, DraftHolds
<1> QED BY <1>1, Invariant, PTL

-----------------------------------------------------------------------------
(* What is charged.                                                        *)

\* What a charge that was not answered was for.
Asks == {a \in [do : Paid, on : Place, prev : SomePatch] : a.do = "message" => a.on \in Session}

\* The paid calls that run on the server, whether the page waits for them or not.
Mine    == [request |-> Request(job), begun |-> TRUE, held |-> TRUE]
Running == {c \in adrift : c.begun} \cup {c \in {Mine} : job.at = "run"}

\* A patch has an id that was given; one that waits is of the current version.
Numbered(p) == p \in Patch => p.id <= ids[p.of.doc]
Current ==
  \A p \in pending.patches :
    p.of.doc \in alive /\ p.of.base = Latest(p.of.doc) /\ Numbered(p)

\* A message that runs refines a patch of its session.
Placed(c) ==
  c.request.do = "message" =>
    /\ c.request.on.base <= Latest(c.request.on.doc)
    /\ c.request.prev # NoPatch => c.request.prev.of = c.request.on
    /\ Numbered(c.request.prev)

\* A call that runs under a key that is held has a unit for it, and was not charged
\* before; no two calls run in one session, or under one key that is held.
Unpaid(c) == c.held => operation(c.request) \in key /\ Ask(c.request) \notin paid
Alike(c1, c2) ==
  \/ /\ c1.request.do = "message" /\ c2.request.do = "message"
     /\ c1.request.on = c2.request.on
  \/ c1.held /\ c2.held /\ operation(c1.request) = operation(c2.request)

\* What was charged and not answered is not taken up again: an analysis or first pass
\* because its key has a unit, a message because the patch it refines waits no more, or
\* its session has one that it would have to refine, or its version is superseded.
Keyed(a) ==
  a.do # "message" => a.prev = NoPatch /\ [do |-> a.do, on |-> a.on, shown |-> 0] \in key
Spent(a) ==
  a.do = "message" =>
    IF a.prev # NoPatch THEN a.prev \notin pending.patches /\ Numbered(a.prev)
    ELSE \/ a.on.base < Latest(a.on.doc) \/ a.on.doc \notin alive
         \/ \E p \in pending.patches : p.of = a.on

\* Only a message has a patch in its name.
Plain(r) == r.do \in Paid \ {"message"} => r.prev = NoPatch /\ r.shown = 0
PlainJob == job.do \in Paid \ {"message"} => job.patch = NoPatch /\ job.shown = 0

Distinct ==
  /\ \A c1, c2 \in Running : Alike(c1, c2) => c1 = c2
  /\ job.at = "run" => Mine \notin adrift
Booked ==
  /\ once /\ paid \subseteq Asks /\ Current /\ Distinct
  /\ \A c \in Running : Placed(c) /\ Unpaid(c)
  /\ \A a \in paid : Keyed(a) /\ Spent(a)
  /\ \A c \in adrift : Plain(c.request)
  /\ PlainJob

\* What a step may do to the documents and their proposals, and to the operation that runs.
Onward ==
  /\ Current'
  /\ \A c \in Called : Placed(c) => Placed(c)'
  /\ \A a \in Asks : Spent(a) => Spent(a)'
JobOn == (job' = job \/ job'.at # "run") /\ (PlainJob => PlainJob')

\* Numbers of versions and ids are natural.
LEMMA Counts ==
  ASSUME Typed
  PROVE  /\ \A d \in Doc : Latest(d) \in Nat /\ ids[d] \in Nat
         /\ \A p \in Patch : p.of \in Session /\ p.of.doc \in Doc /\ p.of.base \in Nat /\ p.id \in Nat
         /\ \A s \in Session : s.doc \in Doc /\ s.base \in Nat
         /\ pending.patches \subseteq Patch
<1>1. \A d \in Doc : Latest(d) \in Nat
  BY DEF Typed
<1>2. Versions \subseteq Nat
  <2>1. ASSUME NEW d \in Doc PROVE 1..MaxVersions[d] \subseteq Nat
    BY DEF Typed
  <2> QED BY <2>1 DEF Versions
<1>3. \A s \in Session : s.doc \in Doc /\ s.base \in Nat
  BY <1>2 DEF Session
<1>4. \A p \in Patch : p.of \in Session /\ p.id \in Nat
  BY DEF Patch
<1> QED BY <1>1, <1>3, <1>4 DEF Typed, Offers, Waiting

\* Where nothing is added and only ids are given, all stays as it is.
LEMMA Still ==
  ASSUME Typed, Current, UNCHANGED <<alive, versions>>, pending'.patches = pending.patches,
         \A d \in Doc : ids'[d] \in Nat /\ ids[d] <= ids'[d]
  PROVE  Onward
<1>1. ASSUME NEW p, Numbered(p) PROVE Numbered(p)'
  BY <1>1, Counts DEF Numbered
<1>2. \A d : Latest(d)' = Latest(d)
  BY DEF Latest
<1>3. Current'
  BY <1>1, <1>2 DEF Current
<1>4. ASSUME NEW c, Placed(c) PROVE Placed(c)'
  BY <1>1, <1>2, <1>4 DEF Placed
<1>5. ASSUME NEW a, Spent(a) PROVE Spent(a)'
  BY <1>1, <1>2, <1>5 DEF Spent
<1> QED BY <1>3, <1>4, <1>5 DEF Onward

\* What goes on when the proposals of a document are dropped.
LEMMA Dropping ==
  ASSUME Typed, Current, NEW d \in Doc, pending' = Without(d), ids' = ids,
         \A c \in Doc : Latest(c)' \in Nat /\ Latest(c) <= Latest(c)',
         \A c \in Doc \ {d} : Latest(c)' = Latest(c) /\ (c \in alive' <=> c \in alive),
         d \in alive' => d \in alive /\ Latest(d) < Latest(d)'
  PROVE  Onward
<1>1. pending'.patches = {p \in pending.patches : p.of.doc # d}
  BY DEF Without
<1>2. ASSUME NEW p, Numbered(p) PROVE Numbered(p)'
  BY <1>2 DEF Numbered
<1>3. Current'
  BY <1>1, <1>2, Counts DEF Current
<1>4. ASSUME NEW c \in Called, Placed(c) PROVE Placed(c)'
  <2>1. CASE c.request.do # "message"
    BY <2>1 DEF Placed
  <2>2. CASE c.request.do = "message"
    <3>1. c.request.on.doc \in Doc /\ c.request.on.base \in Nat
      BY <2>2, Counts DEF Called
    <3>2. PICK s, n : s = c.request.on /\ n = s.base
      OBVIOUS
    <3>3. n <= Latest(s.doc)'
      <4>1. s.doc \in Doc /\ n \in Nat /\ Latest(s.doc) \in Nat /\ n <= Latest(s.doc)
        BY <1>4, <2>2, <3>1, <3>2, Counts DEF Placed
      <4> QED BY <4>1
    <3> QED BY <1>2, <1>4, <2>2, <3>2, <3>3 DEF Placed
  <2> QED BY <2>1, <2>2
<1>5. ASSUME NEW a \in Asks, Spent(a) PROVE Spent(a)'
  <2>1. CASE a.do # "message"
    BY <2>1 DEF Spent
  <2>2. CASE a.do = "message" /\ a.prev # NoPatch
    BY <1>1, <1>2, <1>5, <2>2 DEF Spent
  <2>3. CASE a.do = "message" /\ a.prev = NoPatch
    <3>1. PICK s \in Session, e \in Doc, n \in Nat : s = a.on /\ e = s.doc /\ n = s.base
      BY <2>3, Counts DEF Asks
    <3>2. n < Latest(e) \/ e \notin alive \/ \E p \in pending.patches : p.of = s
      BY <1>5, <2>3, <3>1 DEF Spent
    <3>3. CASE n < Latest(e)
      <4>1. n < Latest(e)'
        BY <3>3, Counts
      <4> QED BY <2>3, <3>1, <4>1 DEF Spent
    <3>4. CASE e \notin alive
      <4>1. e \notin alive'
        BY <3>4
      <4> QED BY <2>3, <3>1, <4>1 DEF Spent
    <3>5. ASSUME NEW p \in pending.patches, p.of = s PROVE Spent(a)'
      <4>1. CASE e # d
        BY <1>1, <2>3, <3>1, <3>5, <4>1 DEF Spent
      <4>2. CASE e = d
        <5>1. n = Latest(d)
          BY <3>1, <3>5, <4>2 DEF Current
        <5> QED BY <2>3, <3>1, <4>2, <5>1 DEF Spent
      <4> QED BY <4>1, <4>2
    <3> QED BY <3>2, <3>3, <3>4, <3>5
  <2> QED BY <2>1, <2>2, <2>3
<1> QED BY <1>3, <1>4, <1>5 DEF Onward

\* A version more supersedes what was proposed for the one before.
LEMMA Superseding ==
  ASSUME Typed, Current, NEW d, NEW base, NEW text \in SUBSET Edit, Commits(d, base, text),
         alive' = alive
  PROVE  Onward
<1>1. /\ d \in Doc /\ d \in alive /\ base = Latest(d) /\ pending' = Without(d) /\ ids' = ids
      /\ \A c \in Doc : \A v \in 1..Latest(c) : v \in 1..Latest(c)'
      /\ base + 1 \in 1..Latest(d)' /\ \A c \in Doc : Latest(c)' \in 1..MaxVersions[c]
  BY Committing DEF Commits
<1>2. \A c \in Doc : Latest(c) \in 1..MaxVersions[c]
  BY DEF Typed
<1>3. \A c \in Doc : Latest(c)' \in Nat /\ Latest(c) <= Latest(c)'
  <2>1. ASSUME NEW c \in Doc, NEW m, NEW n, m = Latest(c), n = Latest(c)'
        PROVE  n \in Nat /\ m <= n
    <3>1. m \in Nat /\ n \in Nat /\ m \in 1..m
      BY <1>1, <1>2, <2>1
    <3>2. m \in 1..n
      BY <1>1, <2>1, <3>1
    <3> QED BY <3>1, <3>2
  <2> QED BY <2>1
<1>4. Latest(d) < Latest(d)'
  <2>1. base \in Nat /\ Latest(d)' \in Nat
    BY <1>1, <1>2
  <2> QED BY <1>1, <2>1
<1>5. \A c \in Doc \ {d} : Latest(c)' = Latest(c)
  BY DEF Commits, Typed, Latest
<1> QED BY <1>1, <1>3, <1>4, <1>5, Dropping

\* A document that goes takes its proposals with it.
LEMMA Deleting ==
  ASSUME Typed, Current, NEW d \in Doc, Delete(d), versions' = versions PROVE Onward
<1>1. /\ pending' = Without(d) /\ ids' = ids /\ alive' = alive \ {d}
      /\ \A c \in Doc : Latest(c)' = Latest(c)
  BY DEF Delete, Latest
<1> QED BY <1>1, Counts, Dropping

\* What a call leaves when it is carried out: it may be asked for again no more.
LEMMA Leaves ==
  ASSUME Typed, Current, NEW c \in Called, Placed(c), CarriedOut(c.request),
         UNCHANGED <<alive, versions>>
  PROVE  Onward /\ Spent(Ask(c.request))'
<1>1. PICK r \in Asking : r = c.request /\ (r.do = "message" => r.on \in Session)
  BY DEF Called
<1>2. PICK on, prev, d : on = r.on /\ prev = r.prev /\ d = on.doc
  OBVIOUS
<1>3. PICK new : new = ids[d] + 1
  OBVIOUS
<1>4. /\ d \in alive /\ d \in Doc /\ new \in Nat /\ \A e \in Doc : Latest(e)' = Latest(e)
  <2>1. d \in alive
    BY <1>1, <1>2 DEF CarriedOut
  <2>2. d \in Doc
    BY <2>1 DEF Typed
  <2>3. new \in Nat
    BY <1>3, <2>2, Counts
  <2> QED BY <2>1, <2>2, <2>3 DEF Latest
<1>5. \/ ids' = ids
      \/ ids' = [ids EXCEPT ![d] = new]
  BY <1>1, <1>2, <1>3 DEF CarriedOut, NextId
<1>6. \A e \in Doc : ids'[e] \in Nat /\ ids[e] <= ids'[e]
  <2>1. ids \in [Doc -> Nat]
    BY DEF Typed, Offers
  <2> QED BY <1>3, <1>4, <1>5, <2>1
<1>7. CASE r.do # "message"
  <2>1. pending'.patches = pending.patches
    BY <1>1, <1>7 DEF CarriedOut, Asking, Paid, Typed, Offers, Waiting
  <2>2. Spent(Ask(c.request))'
    BY <1>1, <1>7 DEF Spent, Ask
  <2> QED BY <1>6, <2>1, <2>2, Still
<1>8. CASE r.do = "message"
  <2>1. PICK patch : patch = [id |-> new, of |-> on]
    OBVIOUS
  <2>2. /\ patch.id = new /\ patch.of = on /\ patch.of.doc = d
        /\ on \in Session /\ on.base \in Nat
        /\ on.base <= Latest(d) /\ (prev # NoPatch => prev.of = on) /\ Numbered(prev)
    BY <1>1, <1>2, <1>8, <2>1, Counts DEF Placed
  <2>3. ids' = [ids EXCEPT ![d] = new]
    BY <1>1, <1>2, <1>3, <1>8 DEF CarriedOut, NextId
  <2>4. pending'.patches = IF on.base = Latest(d) THEN (pending.patches \ {prev}) \cup {patch}
                           ELSE pending.patches
    BY <1>1, <1>2, <1>3, <1>8, <2>1 DEF CarriedOut, Typed, Offers, Waiting
  <2>5. ids'[d] = new
    BY <1>4, <2>3 DEF Typed, Offers
  <2>6. ASSUME NEW p, Numbered(p) PROVE Numbered(p)' /\ p # patch
    <3>1. CASE p \notin Patch
      <4>1. patch \in Patch
        <5>1. new \in Nat \ {0}
          BY <1>3, <1>4, Counts
        <5> QED BY <2>1, <2>2, <5>1 DEF Patch
      <4> QED BY <3>1, <4>1 DEF Numbered
    <3>2. CASE p \in Patch
      <4>1. PICK i \in Nat, e \in Doc : i = p.id /\ e = p.of.doc /\ i <= ids[e]
        BY <2>6, <3>2, Counts DEF Numbered
      <4>2. i <= ids'[e]
        BY <1>6, <4>1, Counts
      <4>3. e = d => i < new
        BY <1>3, <1>4, <4>1, Counts
      <4>4. p # patch
        BY <1>4, <2>2, <4>1, <4>3
      <4> QED BY <4>1, <4>2, <4>4 DEF Numbered
    <3> QED BY <3>1, <3>2
  <2>7. Numbered(patch)'
    BY <1>4, <2>2, <2>5 DEF Numbered
  <2>8. Current'
    <3>1. ASSUME NEW p \in pending'.patches
          PROVE  p.of.doc \in alive' /\ p.of.base = Latest(p.of.doc)' /\ Numbered(p)'
      <4>1. CASE p = patch
        <5>1. CASE on.base = Latest(d)
          BY <1>4, <2>2, <2>7, <4>1, <5>1
        <5>2. CASE on.base # Latest(d)
          BY <2>4, <2>6, <4>1, <5>2 DEF Current
        <5> QED BY <5>1, <5>2
      <4>2. CASE p # patch
        <5>1. p \in pending.patches
          BY <2>4, <3>1, <4>2
        <5> QED BY <1>4, <2>6, <5>1, Counts DEF Current
      <4> QED BY <4>1, <4>2
    <3> QED BY <3>1 DEF Current
  <2>9. ASSUME NEW b \in Called, Placed(b) PROVE Placed(b)'
    BY <1>4, <2>6, <2>9, Counts DEF Placed, Called
  <2>10. ASSUME NEW a \in Asks, Spent(a) PROVE Spent(a)'
    <3>1. CASE a.do # "message"
      BY <3>1 DEF Spent
    <3>2. CASE a.do = "message" /\ a.prev # NoPatch
      BY <2>4, <2>6, <2>10, <3>2 DEF Spent
    <3>3. CASE a.do = "message" /\ a.prev = NoPatch
      <4>1. PICK s \in Session, e \in Doc : s = a.on /\ e = s.doc
        BY <3>3, Counts DEF Asks
      <4>2. s.base < Latest(e) \/ e \notin alive \/ \E p \in pending.patches : p.of = s
        BY <2>10, <3>3, <4>1 DEF Spent
      <4>3. CASE s.base < Latest(e) \/ e \notin alive
        BY <1>4, <3>3, <4>1, <4>3 DEF Spent
      <4>4. ASSUME NEW p \in pending.patches, p.of = s PROVE \E q \in pending'.patches : q.of = s
        <5>1. CASE on.base # Latest(d) \/ p # prev
          BY <2>4, <4>4, <5>1
        <5>2. CASE on.base = Latest(d) /\ p = prev
          <6>1. s = on
            <7>1. p \in Patch
              BY Counts
            <7>2. NoPatch \notin Patch
              BY DEF NoPatch, Patch
            <7> QED BY <2>2, <4>4, <5>2, <7>1, <7>2
          <6> QED BY <2>2, <2>4, <5>2, <6>1
        <5> QED BY <5>1, <5>2
      <4> QED BY <3>3, <4>1, <4>2, <4>3, <4>4 DEF Spent
    <3> QED BY <3>1, <3>2, <3>3
  <2>11. Spent(Ask(c.request))'
    <3>1. PICK a : a = Ask(c.request)
      OBVIOUS
    <3>2. a.do = "message" /\ a.on = on /\ a.prev = prev
      BY <1>1, <1>2, <1>8, <3>1 DEF Ask
    <3>3. ASSUME prev # NoPatch PROVE Spent(a)'
      <4>1. prev # patch /\ Numbered(prev)'
        BY <2>2, <2>6
      <4>2. prev \notin pending'.patches
        <5>1. CASE on.base = Latest(d)
          BY <2>4, <4>1, <5>1
        <5>2. CASE on.base # Latest(d)
          <6>1. prev \in pending.patches => on.base = Latest(d)
            BY <1>2, <2>2, <3>3 DEF Current
          <6> QED BY <2>4, <5>2, <6>1
        <5> QED BY <5>1, <5>2
      <4> QED BY <3>2, <3>3, <4>1, <4>2 DEF Spent
    <3>4. ASSUME prev = NoPatch PROVE Spent(a)'
      <4>1. CASE on.base = Latest(d)
        <5>1. patch \in pending'.patches /\ patch.of = on
          BY <2>2, <2>4, <4>1
        <5> QED BY <3>2, <3>4, <5>1 DEF Spent
      <4>2. CASE on.base # Latest(d)
        <5>1. on.base < Latest(d)
          BY <1>4, <2>2, <4>2, Counts
        <5> QED BY <1>2, <1>4, <3>2, <3>4, <5>1 DEF Spent
      <4> QED BY <4>1, <4>2
    <3> QED BY <3>1, <3>3, <3>4
  <2> QED BY <2>8, <2>9, <2>10, <2>11 DEF Onward
<1> QED BY <1>7, <1>8

\* What runs is a call, and only a message has a patch in its name.
LEMMA Runs ==
  ASSUME Typed, Fits
  PROVE  /\ Running \subseteq Called
         /\ Booked => \A c \in Running : Plain(c.request)
<1>1. job.at = "run" => Mine \in Called
  BY Waited DEF Mine
<1>2. PlainJob => Plain(Mine.request)
  BY DEF PlainJob, Plain, Mine, Request
<1> QED BY <1>1, <1>2 DEF Running, Typed, Booked

\* A step that begins no call and charges for nothing.
LEMMA Calm ==
  ASSUME Typed, Fits, Booked, Current',
         \A c \in Called : Placed(c) => Placed(c)',
         \A a \in paid' : a \in paid /\ Spent(a)',
         Running' \subseteq Running, key' = key, once' = once,
         job'.at = "run" => Mine' \notin adrift',
         \A c \in adrift' : Plain(c.request), PlainJob'
  PROVE  Booked'
<1>1. once' /\ paid' \subseteq Asks
  BY DEF Booked
<1>2. Distinct'
  <2>1. \A c1, c2 \in Running : Alike(c1, c2) => c1 = c2
    BY DEF Booked, Distinct
  <2>2. \A c1, c2 \in Running' : Alike(c1, c2) => c1 = c2
    BY <2>1
  <2> QED BY <2>2 DEF Distinct, Alike
<1>3. \A c \in Running' : Placed(c)' /\ Unpaid(c)'
  <2>1. ASSUME NEW c \in Running' PROVE Placed(c)' /\ Unpaid(c)'
    <3>1. c \in Running /\ c \in Called /\ Placed(c) /\ Unpaid(c)
      BY Runs DEF Booked
    <3> QED BY <3>1 DEF Unpaid
  <2> QED BY <2>1
<1>4. \A a \in paid' : Keyed(a)' /\ Spent(a)'
  BY DEF Booked, Keyed
<1> QED BY <1>1, <1>2, <1>3, <1>4 DEF Booked

\* A step that leaves the books alone.
LEMMA Quiet == ASSUME Typed, Fits, Booked, Onward, JobOn, UNCHANGED books PROVE Booked'
<1>1. key' = key /\ adrift' = adrift /\ paid' = paid /\ once' = once
  BY DEF books
<1>2. Running' \subseteq Running /\ (job'.at = "run" => Mine' \notin adrift')
  <2>1. CASE job' = job
    <3>1. Mine' = Mine
      BY <2>1 DEF Mine, Request
    <3> QED BY <1>1, <2>1, <3>1 DEF Running, Booked, Distinct
  <2>2. CASE job'.at # "run"
    BY <1>1, <2>2 DEF Running
  <2> QED BY <2>1, <2>2 DEF JobOn
<1>3. \A a \in paid' : a \in paid /\ Spent(a)'
  BY <1>1 DEF Booked, Onward
<1>4. (\A c \in adrift' : Plain(c.request)) /\ PlainJob'
  BY <1>1 DEF Booked, JobOn
<1> QED BY <1>1, <1>2, <1>3, <1>4, Calm DEF Onward

\* A page that goes holds no keys; its calls run on, and are charged for themselves.
LEMMA Forgets ==
  ASSUME Typed, Fits, Booked, Onward, Forget, job'.at # "run", PlainJob' PROVE Booked'
<1>1. key' = {} /\ paid' = {} /\ once'
  BY DEF Forget, Booked
<1>2. ASSUME NEW c \in adrift'
      PROVE  \E b \in adrift \cup Underway : c = [b EXCEPT !.held = FALSE]
  BY DEF Forget
<1>3. \A b \in adrift \cup Underway : b \in Called /\ Plain(b.request) /\ (b.begun => b \in Running)
  <2>1. ASSUME NEW b \in Underway PROVE b \in Called /\ Plain(b.request) /\ (b.begun => b \in Running)
    <3>1. /\ job.at \in {"post", "run"}
          /\ b = [request |-> Request(job), begun |-> job.at = "run", held |-> TRUE]
      BY DEF Underway
    <3>2. b \in Called
      BY <3>1, Waited
    <3>3. Plain(b.request)
      BY <3>1 DEF PlainJob, Plain, Request, Booked
    <3>4. b.begun => b = Mine /\ job.at = "run"
      BY <3>1 DEF Mine
    <3> QED BY <3>2, <3>3, <3>4 DEF Running
  <2>2. ASSUME NEW b \in adrift PROVE b \in Called /\ Plain(b.request) /\ (b.begun => b \in Running)
    BY DEF Typed, Booked, Running
  <2> QED BY <2>1, <2>2
<1>4. ASSUME NEW c \in adrift'
      PROVE  /\ Plain(c.request) /\ ~c.held
             /\ c.begun => \E b \in Running : /\ c.request = b.request
                                              /\ c = [b EXCEPT !.held = FALSE]
  <2>1. PICK b \in adrift \cup Underway : c = [b EXCEPT !.held = FALSE]
    BY <1>2
  <2>2. c.request = b.request /\ c.begun = b.begun /\ ~c.held
    BY <1>3, <2>1 DEF Called
  <2> QED BY <1>3, <2>1, <2>2
<1>5. Running' = {c \in adrift' : c.begun}
  BY DEF Running
<1>6. ASSUME NEW c \in Running' PROVE Placed(c)' /\ Unpaid(c)'
  <2>1. PICK b \in Running : c.request = b.request /\ ~c.held
    BY <1>4, <1>5
  <2>2. Placed(b)'
    BY Runs DEF Booked, Onward
  <2> QED BY <2>1, <2>2 DEF Placed, Unpaid
<1>7. ASSUME NEW c1 \in Running', NEW c2 \in Running', Alike(c1, c2) PROVE c1 = c2
  <2>1. ~c1.held /\ ~c2.held
    BY <1>4, <1>5
  <2>2. PICK b1 \in Running : c1.request = b1.request /\ c1 = [b1 EXCEPT !.held = FALSE]
    BY <1>4, <1>5
  <2>3. PICK b2 \in Running : c2.request = b2.request /\ c2 = [b2 EXCEPT !.held = FALSE]
    BY <1>4, <1>5
  <2>4. Alike(b1, b2)
    BY <1>7, <2>1, <2>2, <2>3 DEF Alike
  <2>5. b1 = b2
    BY <2>4 DEF Booked, Distinct
  <2> QED BY <2>2, <2>3, <2>5
<1>8. Distinct'
  BY <1>7 DEF Distinct, Alike
<1>9. Current'
  BY DEF Onward
<1> QED BY <1>1, <1>4, <1>6, <1>8, <1>9 DEF Booked

\* A call that the server takes up was not charged before, and has its session and
\* its key to itself.
LEMMA Begins ==
  ASSUME Typed, Fits, Booked, NEW c \in Called, Admitted(c.request), Plain(c.request),
         c.held => operation(c.request) \notin key
  PROVE  /\ Placed(c)
         /\ c.held => Ask(c.request) \notin paid
         /\ \A b \in Running : ~Alike(b, c) /\ ~Alike(c, b)
<1>1. PICK r \in Asking : r = c.request /\ (r.do = "message" => r.on \in Session)
  BY DEF Called
<1>2. CASE r.do # "message"
  <2>1. Placed(c)
    BY <1>1, <1>2 DEF Placed
  <2>2. c.held => Ask(r) \notin paid
    <3>1. PICK a : a = Ask(r)
      OBVIOUS
    <3>2. r.do \in Paid \ {"message"} /\ r.shown = 0
      BY <1>1, <1>2 DEF Asking, Plain
    <3>3. a.do = r.do /\ a.on = r.on
      BY <3>1 DEF Ask
    <3>4. a \in paid => operation(r) \in key
      BY <1>2, <3>2, <3>3 DEF Booked, Keyed, operation
    <3> QED BY <1>1, <3>1, <3>4
  <2>3. ASSUME NEW b \in Running PROVE ~Alike(b, c) /\ ~Alike(c, b)
    BY <1>1, <1>2 DEF Alike, Booked, Unpaid
  <2> QED BY <1>1, <2>1, <2>2, <2>3
<1>3. CASE r.do = "message"
  <2>1. PICK on \in Session, prev \in SomePatch, d \in Doc : on = r.on /\ prev = r.prev /\ d = on.doc
    BY <1>1, <1>3, Counts DEF Asking
  <2>2. /\ d \in alive /\ on.base = Latest(d) /\ ~Locked(on)
        /\ IF prev = NoPatch THEN \A p \in pending.patches : p.of # on
           ELSE prev \in pending.patches /\ prev.of = on
    BY <1>1, <1>3, <2>1 DEF Admitted
  <2>3. Placed(c)
    <3>1. Numbered(prev)
      <4>1. CASE prev = NoPatch
        BY <4>1 DEF Numbered, NoPatch, Patch
      <4>2. CASE prev # NoPatch
        BY <2>2, <4>2 DEF Booked, Current
      <4> QED BY <4>1, <4>2
    <3>2. on.base <= Latest(d)
      BY <2>1, <2>2, Counts
    <3> QED BY <1>1, <2>1, <2>2, <3>1, <3>2 DEF Placed
  <2>4. Ask(r) \notin paid
    <3>1. PICK a : a = Ask(r)
      OBVIOUS
    <3>2. a.do = "message" /\ a.on = on /\ a.prev = prev
      BY <1>3, <2>1, <3>1 DEF Ask
    <3>3. a \in paid => Spent(a)
      BY DEF Booked
    <3>4. ~Spent(a)
      <4>1. ~(on.base < Latest(d))
        BY <2>1, <2>2, Counts
      <4> QED BY <2>1, <2>2, <3>2, <4>1 DEF Spent
    <3> QED BY <3>1, <3>3, <3>4
  <2>5. ASSUME NEW b \in Running PROVE ~Alike(b, c) /\ ~Alike(c, b)
    <3>1. ~(b.request.do = "message" /\ b.request.on = on)
      <4>1. CASE b \in adrift /\ b.begun
        BY <2>2, <4>1 DEF Locked
      <4>2. CASE b = Mine /\ job.at = "run"
        BY <2>2, <4>2 DEF Locked, Mine, Request
      <4> QED BY <4>1, <4>2 DEF Running
    <3>2. ~(b.held /\ c.held /\ operation(b.request) = operation(r))
      BY <1>1 DEF Booked, Unpaid
    <3> QED BY <1>1, <1>3, <2>1, <3>1, <3>2 DEF Alike
  <2> QED BY <1>1, <2>3, <2>4, <2>5
<1> QED BY <1>2, <1>3

\* A step in which the server takes up a call.
LEMMA Starts ==
  ASSUME Typed, Fits, Booked, NEW c \in Called, Admitted(c.request), Plain(c.request),
         c.held => operation(c.request) \notin key, UNCHANGED stored,
         Running' \subseteq Running \cup {c},
         key' = IF c.held THEN key \cup {operation(c.request)} ELSE key,
         paid' = paid, once' = once,
         job'.at = "run" => Mine' \notin adrift',
         \A b \in adrift' : Plain(b.request), PlainJob'
  PROVE  Booked'
<1>1. /\ Placed(c)
      /\ c.held => Ask(c.request) \notin paid
      /\ \A b \in Running : ~Alike(b, c) /\ ~Alike(c, b)
  BY Begins
<1>2. Onward
  BY Still, Counts DEF stored, Booked
<1>3. \A b \in Running' : Placed(b)' /\ Unpaid(b)'
  <2>1. ASSUME NEW b \in Running' PROVE Placed(b)'
    BY <1>1, <1>2, Runs DEF Booked, Onward
  <2>2. ASSUME NEW b \in Running' PROVE Unpaid(b)'
    BY <1>1 DEF Booked, Unpaid
  <2> QED BY <2>1, <2>2
<1>4. Distinct'
  <2>1. ASSUME NEW c1 \in Running', NEW c2 \in Running', Alike(c1, c2) PROVE c1 = c2
    BY <1>1, <2>1 DEF Booked, Distinct
  <2> QED BY <2>1 DEF Distinct, Alike
<1>5. \A a \in paid' : Keyed(a)' /\ Spent(a)'
  BY <1>2 DEF Booked, Keyed, Onward
<1> QED BY <1>2, <1>3, <1>4, <1>5 DEF Booked, Onward

\* A step in which a call ends: it fails, is charged, or is charged and answered.
LEMMA Ends ==
  ASSUME Typed, Fits, Booked, Onward, NEW c \in Running, Running' \subseteq Running \ {c},
         adrift' \subseteq adrift, once' = (once /\ (c.held => Ask(c.request) \notin paid)),
         job'.at = "run" => Mine' \notin adrift', PlainJob',
         \/ key' = key /\ paid' \subseteq paid
         \/ c.held /\ key' = key \ {operation(c.request)} /\ paid' \subseteq paid
         \/ c.held /\ key' = key /\ paid' = paid \cup {Ask(c.request)} /\ Spent(Ask(c.request))'
  PROVE  Booked'
<1>1. PICK r \in Asking : r = c.request /\ (r.do = "message" => r.on \in Session) /\ Plain(r)
  BY Runs DEF Called
<1>2. PICK op, ask : op = operation(r) /\ ask = Ask(r)
  OBVIOUS
<1>3. /\ c.held => op \in key /\ ask \notin paid
      /\ once'
  BY <1>1, <1>2 DEF Booked, Unpaid
<1>4. op = [do |-> r.do, on |-> r.on, shown |-> r.shown] /\ ask = [do |-> r.do, on |-> r.on, prev |-> r.prev]
  BY <1>2 DEF operation, Ask
<1>5. ask \in Asks
  BY <1>1, <1>4 DEF Asks, Asking
<1>6. paid' \subseteq Asks /\ paid' \subseteq paid \cup {ask}
  BY <1>1, <1>2, <1>5 DEF Booked
<1>7. ASSUME NEW b \in Running' PROVE Placed(b)' /\ Unpaid(b)'
  <2>1. b \in Running /\ b \in Called /\ b # c /\ Placed(b) /\ Unpaid(b) /\ Plain(b.request)
    BY Runs DEF Booked
  <2>2. ~Alike(b, c)
    BY <2>1 DEF Booked, Distinct
  <2>3. Placed(b)'
    BY <2>1 DEF Onward
  <2>4. ASSUME b.held, c.held PROVE operation(b.request) # op
    BY <1>1, <1>2, <2>2, <2>4 DEF Alike
  <2>5. ASSUME b.held, c.held PROVE Ask(b.request) # ask
    <3>1. PICK q \in Asking : q = b.request
      BY <2>1 DEF Called
    <3>2. SUFFICES ASSUME Ask(q) = ask PROVE FALSE
      BY <3>1
    <3>3. q.do = r.do /\ q.on = r.on /\ q.prev = r.prev
      BY <1>4, <3>2 DEF Ask
    <3>4. CASE r.do = "message"
      BY <1>1, <2>2, <3>1, <3>3, <3>4 DEF Alike
    <3>5. CASE r.do # "message"
      <4>1. q.shown = 0 /\ r.shown = 0
        BY <1>1, <2>1, <3>1, <3>3, <3>5 DEF Plain, Asking
      <4>2. operation(q) = op
        BY <1>4, <3>3, <4>1 DEF operation
      <4> QED BY <2>4, <2>5, <3>1, <4>2
    <3> QED BY <3>4, <3>5
  <2>6. ASSUME b.held PROVE operation(b.request) \in key' /\ Ask(b.request) \notin paid'
    <3>1. operation(b.request) \in key /\ Ask(b.request) \notin paid
      BY <2>1, <2>6 DEF Unpaid
    <3> QED BY <1>1, <1>2, <2>4, <2>5, <2>6, <3>1
  <2> QED BY <2>3, <2>6 DEF Unpaid
<1>8. Distinct'
  <2>1. ASSUME NEW c1 \in Running', NEW c2 \in Running', Alike(c1, c2) PROVE c1 = c2
    BY <2>1 DEF Booked, Distinct
  <2> QED BY <2>1 DEF Distinct, Alike
<1>9. ASSUME NEW a \in paid' PROVE Keyed(a)' /\ Spent(a)'
  <2>1. CASE a \in paid
    <3>1. a \in Asks /\ Keyed(a) /\ Spent(a) /\ Spent(a)'
      BY <2>1 DEF Booked, Onward
    <3>2. Keyed(a)'
      <4>1. SUFFICES ASSUME a.do # "message"
                     PROVE  a.prev = NoPatch /\ [do |-> a.do, on |-> a.on, shown |-> 0] \in key'
        BY DEF Keyed
      <4>2. a.prev = NoPatch /\ [do |-> a.do, on |-> a.on, shown |-> 0] \in key
        BY <3>1, <4>1 DEF Keyed
      <4>3. CASE key' = key
        BY <4>2, <4>3
      <4>4. CASE c.held /\ key' = key \ {op}
        <5>1. [do |-> a.do, on |-> a.on, shown |-> 0] # op
          <6>1. SUFFICES ASSUME [do |-> a.do, on |-> a.on, shown |-> 0] = op PROVE FALSE
            OBVIOUS
          <6>2. a.do = r.do /\ a.on = r.on
            BY <1>4, <6>1
          <6>3. r.prev = NoPatch
            BY <1>1, <4>1, <6>2 DEF Plain, Asking
          <6>4. a = [do |-> a.do, on |-> a.on, prev |-> a.prev]
            BY <3>1 DEF Asks
          <6>5. a = ask
            BY <1>4, <4>2, <6>2, <6>3, <6>4
          <6> QED BY <1>3, <2>1, <4>4, <6>5
        <5> QED BY <4>2, <4>4, <5>1
      <4> QED BY <1>1, <1>2, <4>3, <4>4
    <3> QED BY <3>1, <3>2
  <2>2. CASE a \notin paid
    <3>1. a = ask /\ c.held /\ key' = key /\ Spent(a)'
      BY <1>1, <1>2, <1>9, <2>2
    <3>2. a.do = r.do /\ a.on = r.on /\ a.prev = r.prev
      BY <1>4, <3>1
    <3>3. Keyed(a)'
      <4>1. SUFFICES ASSUME r.do # "message"
                     PROVE  r.prev = NoPatch /\ [do |-> r.do, on |-> r.on, shown |-> 0] \in key'
        BY <3>2 DEF Keyed
      <4>2. r.prev = NoPatch /\ r.shown = 0
        BY <1>1, <4>1 DEF Plain, Asking
      <4> QED BY <1>3, <1>4, <3>1, <4>2
    <3> QED BY <3>1, <3>3
  <2> QED BY <2>1, <2>2
<1>10. \A b \in adrift' : Plain(b.request)
  BY DEF Booked
<1> QED BY <1>3, <1>6, <1>7, <1>8, <1>9, <1>10 DEF Booked, Onward

\* At first nothing is proposed, asked for or charged.
LEMMA OpensBooked == Init => Booked
<1> SUFFICES ASSUME Init PROVE Booked
  OBVIOUS
<1>1. /\ pending = NoProposal /\ job = NoJob /\ adrift = {} /\ paid = {} /\ once
  BY DEF Init
<1>2. job.at # "run" /\ job.do = "none"
  BY <1>1 DEF NoJob
<1>3. Running = {}
  BY <1>1, <1>2 DEF Running
<1>4. PlainJob /\ Distinct /\ Current
  BY <1>1, <1>2, <1>3 DEF PlainJob, Distinct, Current, NoProposal, Paid
<1> QED BY <1>1, <1>3, <1>4 DEF Booked

\* What is stored stays, and so does what it says of calls and charges.
LEMMA Unstored == ASSUME IInv, Booked, UNCHANGED stored PROVE Onward
BY Still, Counts DEF stored, IInv, Booked

\* An operation that is over, or begins with no patch in its name.
LEMMA JobOver ==
  ASSUME \/ job' = NoJob
         \/ job'.at # "run" /\ job'.do \notin Paid \ {"message"}
  PROVE  JobOn /\ job'.at # "run" /\ PlainJob'
BY DEF JobOn, PlainJob, NoJob

\* Where the author goes, the keys are held or forgotten.
LEMMA PerformBooked ==
  ASSUME IInv, Booked, Onward, NEW nav, NEW p, Perform(nav, p) PROVE Booked'
<1>1. CASE nav.to = "open"
  <2>1. job' = [NoJob EXCEPT !.do = "open", !.at = "open", !.doc = nav.doc] /\ UNCHANGED books
    BY <1>1 DEF Perform
  <2>2. job'.at # "run" /\ job'.do \notin Paid
    BY <2>1 DEF NoJob, Paid
  <2> QED BY <2>1, <2>2, JobOver, Quiet DEF IInv
<1>2. CASE nav.to \in {"create", "login"}
  BY <1>2, JobOver, Forgets DEF Perform, IInv
<1>3. CASE nav.to = "restore"
  BY <1>3, JobOver, Quiet DEF Perform, IInv
<1> QED BY <1>1, <1>2, <1>3 DEF Perform

\* A click begins an operation at most.
LEMMA ClicksBooked == ASSUME IInv, Booked, Clicks PROVE Booked'
<1>1. ASSUME NEW do, NEW next \in {"save", "export", "post"}, Click(do, next) PROVE Booked'
  <2>1. PICK at \in {"save", "export", "post"} : at = IF page.dirty THEN "save" ELSE next
    OBVIOUS
  <2>2. /\ job' = [NoJob EXCEPT !.do = do, !.at = at, !.doc = page.doc, !.base = page.base,
                                !.text = page.draft]
        /\ UNCHANGED stored /\ UNCHANGED books
    BY <1>1, <2>1 DEF Click, Begin
  <2>3. job'.at # "run" /\ job'.patch = NoPatch /\ job'.shown = 0
    BY <2>1, <2>2 DEF NoJob
  <2> QED BY <2>2, <2>3, Unstored, Quiet DEF IInv, JobOn, PlainJob
<1>2. CASE propose
  <2>1. job'.at \in {"save", "session", "post"} /\ job'.do = "message"
        /\ UNCHANGED stored /\ UNCHANGED books
    <3>1. PICK session : job'.at = IF page.dirty THEN "save"
                                   ELSE IF session = NoSession THEN "session" ELSE "post"
      BY <1>2 DEF propose
    <3> QED BY <1>2, <3>1 DEF propose
  <2> QED BY <2>1, JobOver, Unstored, Quiet DEF IInv
<1>3. ASSUME NEW do \in {"accept", "reject", "batch", "decline"}, NEW session, NEW patch,
             Decide(do, session, patch)
      PROVE  Booked'
  <2>1. job'.at # "run" /\ job'.do \notin Paid /\ UNCHANGED stored /\ UNCHANGED books
    BY <1>3 DEF Decide, NoJob, Paid
  <2> QED BY <2>1, JobOver, Unstored, Quiet DEF IInv
<1>4. ASSUME UNCHANGED <<stored, job, books>> PROVE Booked'
  BY <1>4, Unstored, Quiet DEF IInv, JobOn, PlainJob
<1>5. CASE Confirm
  <2>1. job'.at # "run" /\ job'.do \notin Paid /\ UNCHANGED stored /\ UNCHANGED books
    BY <1>5 DEF Confirm, NoJob, Paid
  <2> QED BY <2>1, JobOver, Unstored, Quiet DEF IInv
<1>6. ASSUME NEW nav, navigate(nav) PROVE Booked'
  BY <1>4, <1>6, PerformBooked, Unstored DEF navigate
<1>7. ASSUME NEW save, leaveDraft(save) PROVE Booked'
  <2>1. CASE save /\ page.dirty
    <3>1. job'.at # "run" /\ job'.do \notin Paid /\ UNCHANGED stored /\ UNCHANGED books
      BY <1>7, <2>1 DEF leaveDraft, NoJob, Paid
    <3> QED BY <3>1, JobOver, Unstored, Quiet DEF IInv
  <2>2. CASE ~(save /\ page.dirty)
    <3>1. UNCHANGED stored /\ \E p : Perform(dialog.nav, p)
      BY <1>7, <2>2 DEF leaveDraft
    <3> QED BY <3>1, PerformBooked, Unstored
  <2> QED BY <2>1, <2>2
<1>8. CASE reload
  BY <1>8, JobOver, Unstored, Forgets DEF reload, IInv
<1>9. CASE cancelDialog \/ remove
  BY <1>4, <1>9 DEF cancelDialog, remove
<1>10. ASSUME NEW e, updateParagraph(e) PROVE Booked'
  BY <1>4, <1>10 DEF updateParagraph
<1> QED BY <1>1, <1>2, <1>3, <1>5, <1>6, <1>7, <1>8, <1>9, <1>10
    DEF Clicks, ClickSave, exportDraft, analyze, initialOneClickRewrite, accept, reject, decideBatch

\* Calls that are not charged leave the books alone.
LEMMA FreeBooked ==
  ASSUME IInv, Clicked, Booked, NEW answered \in BOOLEAN,
         \/ SaveDraft(answered) \/ Accepts(answered) \/ Declines(answered)
         \/ confirmRestore(answered) \/ confirmRemove(answered)
  PROVE  Booked'
<1>1. CASE SaveDraft(answered)
  <2>1. job \in Job /\ job.text \in SUBSET Edit
    BY DEF IInv, Typed, Job
  <2>2. Onward
    BY <1>1, <2>1, Superseding DEF SaveDraft, IInv, Booked
  <2>3. CASE \E p : Perform(job.nav, p)
    BY <2>2, <2>3, PerformBooked
  <2>4. CASE Over
    BY <2>2, <2>4, JobOver, Quiet DEF Over, IInv
  <2>5. CASE job' = NoJob /\ UNCHANGED books
    BY <2>2, <2>5, JobOver, Quiet DEF IInv
  <2>6. ASSUME NEW v, NEW at \in {"export", "session", "post"}, NEW text, UNCHANGED books,
               job' = [[job EXCEPT !.base = v] EXCEPT !.at = at, !.text = text]
        PROVE  Booked'
    <3>1. /\ job'.at = at /\ job'.do = job.do /\ job'.patch = job.patch /\ job'.shown = job.shown
      BY <2>1, <2>6 DEF Job
    <3> QED BY <2>2, <2>6, <3>1, Quiet DEF IInv, JobOn, PlainJob
  <2>7. ASSUME NEW v, UNCHANGED books, job' = [[job EXCEPT !.base = v] EXCEPT !.at = "export"]
        PROVE  Booked'
    <3>1. /\ job'.at = "export" /\ job'.do = job.do /\ job'.patch = job.patch
          /\ job'.shown = job.shown
      BY <2>1, <2>7 DEF Job
    <3> QED BY <2>2, <2>7, <3>1, Quiet DEF IInv, JobOn, PlainJob
  <2>8. PICK v : v = job.base + 1
    OBVIOUS
  <2>9. \/ Over \/ \E p : Perform(job.nav, p)
        \/ /\ UNCHANGED books
           /\ \/ job' = NoJob
              \/ job' = [[job EXCEPT !.base = v] EXCEPT !.at = "export"]
              \/ job' = [[job EXCEPT !.base = v]
                           EXCEPT !.at = IF job.do = "message" THEN "session" ELSE "post",
                                  !.text = {}]
    BY <1>1, <2>8 DEF SaveDraft
  <2> QED BY <2>3, <2>4, <2>5, <2>6, <2>7, <2>9
<1>2. CASE Accepts(answered)
  <2>1. /\ Commits(job.doc, job.base, versions[job.doc][job.base])
        /\ UNCHANGED alive /\ job' = NoJob /\ UNCHANGED books
    BY <1>2 DEF Accepts, Over
  <2>2. versions[job.doc][job.base] \in SUBSET Edit
    <3>1. job.doc \in Doc /\ job.base = Latest(job.doc)
      BY <2>1 DEF Commits, IInv, Typed
    <3>2. Has(job.doc, job.base)
      BY <3>1, NewestFits
    <3> QED BY <3>2 DEF IInv, Typed, Has, Latest
  <2>3. Onward
    BY <2>1, <2>2, Superseding DEF IInv, Booked
  <2> QED BY <2>1, <2>3, JobOver, Quiet DEF IInv
<1>3. CASE Declines(answered)
  <2>1. /\ UNCHANGED <<alive, versions, ids>> /\ job' = NoJob /\ UNCHANGED books
        /\ pending' = [pending EXCEPT !.batches = @ \ {job.session}]
    BY <1>3 DEF Declines
  <2>2. pending'.patches = pending.patches
    BY <2>1 DEF IInv, Typed, Offers, Waiting
  <2>3. Onward
    BY <2>1, <2>2, Still, Counts DEF IInv, Booked
  <2> QED BY <2>1, <2>3, JobOver, Quiet DEF IInv
<1>4. CASE confirmRestore(answered)
  <2>1. /\ job.at = "restore" /\ job.nav.doc = job.doc
        /\ Commits(job.doc, job.base, versions[job.doc][job.nav.ver])
        /\ UNCHANGED alive /\ job' = NoJob /\ UNCHANGED books
    BY <1>4 DEF confirmRestore, Over
  <2>2. versions[job.doc][job.nav.ver] \in SUBSET Edit
    BY <2>1 DEF IInv, Typed, Fits, NavFits, Has, Latest, Clicked
  <2>3. Onward
    BY <2>1, <2>2, Superseding DEF IInv, Booked
  <2> QED BY <2>1, <2>3, JobOver, Quiet DEF IInv
<1>5. CASE confirmRemove(answered)
  <2>1. Delete(job.doc) /\ UNCHANGED versions /\ job' = NoJob /\ UNCHANGED books
    BY <1>5 DEF confirmRemove, Delete
  <2>2. job.doc \in Doc
    BY <2>1 DEF Delete, IInv, Typed
  <2>3. Onward
    BY <2>1, <2>2, Deleting DEF IInv, Booked
  <2> QED BY <2>1, <2>3, JobOver, Quiet DEF IInv
<1> QED BY <1>1, <1>2, <1>3, <1>4, <1>5

\* A rejected patch waits no more, and its session may be begun anew.
LEMMA reject_patchBooked ==
  ASSUME IInv, Booked, NEW answered \in BOOLEAN, reject_patch(answered) PROVE Booked'
<1>1. /\ job' = NoJob /\ UNCHANGED <<alive, versions, ids, key, adrift, once>>
      /\ pending' = [pending EXCEPT !.patches = @ \ {job.patch}]
      /\ paid' = {a \in paid : a.on # job.patch.of \/ a.prev # NoPatch}
  BY DEF reject_patch
<1>2. pending'.patches = pending.patches \ {job.patch}
  BY <1>1 DEF IInv, Typed, Offers, Waiting
<1>3. \A d : Latest(d)' = Latest(d)
  BY <1>1 DEF Latest
<1>4. ASSUME NEW p, Numbered(p) PROVE Numbered(p)'
  BY <1>1, <1>4 DEF Numbered
<1>5. Current'
  BY <1>1, <1>2, <1>3, <1>4 DEF Booked, Current
<1>6. ASSUME NEW c, Placed(c) PROVE Placed(c)'
  BY <1>3, <1>4, <1>6 DEF Placed
<1>7. ASSUME NEW a \in paid' PROVE a \in paid /\ Spent(a)'
  <2>1. a \in paid /\ Spent(a) /\ (a.on # job.patch.of \/ a.prev # NoPatch)
    BY <1>1 DEF Booked
  <2>2. ASSUME a.on # job.patch.of, NEW p \in pending.patches, p.of = a.on
        PROVE  p \in pending'.patches
    BY <1>2, <2>2
  <2> QED BY <1>1, <1>2, <1>3, <1>4, <2>1, <2>2 DEF Spent
<1>8. job'.at # "run" /\ PlainJob'
  BY <1>1, JobOver
<1>9. Running' \subseteq Running
  BY <1>1, <1>8 DEF Running
<1>10. \A c \in adrift' : Plain(c.request)
  BY <1>1 DEF Booked
<1> QED BY <1>1, <1>5, <1>6, <1>7, <1>8, <1>9, <1>10, Calm DEF IInv

\* A paid call is taken up.
LEMMA StartPaidBooked == ASSUME IInv, Booked, StartPaid PROVE Booked'
<1>1. PICK r : r = Request(job)
  OBVIOUS
<1>2. /\ job.at = "post" /\ Admitted(r) /\ operation(r) \notin key
      /\ key' = key \cup {operation(r)} /\ job' = [job EXCEPT !.at = "run"]
      /\ UNCHANGED <<stored, adrift, paid, once>>
  BY <1>1 DEF StartPaid, requestKey
<1>3. PICK c \in Called : c = Mine
  BY <1>2, Waited DEF Mine, IInv
<1>4. c.request = r /\ c.begun /\ c.held /\ Plain(r)
  BY <1>1, <1>3 DEF Mine, Booked, PlainJob, Plain, Request
<1>5. job' = [job EXCEPT !.at = "run"] /\ job \in Job
  BY <1>2 DEF IInv, Typed
<1>6. Request(job)' = r
  <2>1. /\ job'.do = job.do /\ job'.patch = job.patch /\ job'.shown = job.shown
        /\ job'.session = job.session /\ job'.doc = job.doc /\ job'.base = job.base
    BY <1>5 DEF Job
  <2> QED BY <1>1, <2>1 DEF Request
<1>7. Mine' = c
  BY <1>1, <1>3, <1>6 DEF Mine
<1>8. c \notin adrift
  <2>1. c \in adrift => c \in Running
    BY <1>4 DEF Running
  <2> QED BY <1>2, <1>4, <2>1 DEF Booked, Unpaid
<1>9. Running' \subseteq Running \cup {c}
  BY <1>2, <1>7 DEF Running
<1>10. PlainJob'
  BY <1>5 DEF Booked, PlainJob, Job
<1>11. \A b \in adrift' : Plain(b.request)
  BY <1>2 DEF Booked
<1> QED BY <1>2, <1>4, <1>7, <1>8, <1>9, <1>10, <1>11, Starts DEF IInv

\* The answer of a paid call is there: its key and its charge are forgotten.
LEMMA PostPaidBooked == ASSUME IInv, Booked, PostPaid PROVE Booked'
<1>1. PICK r : r = Request(job)
  OBVIOUS
<1>2. /\ job.at = "run" /\ CarriedOut(r) /\ completeRequest(r)
      /\ once' = (once /\ Ask(r) \notin paid)
      /\ job' = IF job.do = "analysis" THEN [job EXCEPT !.at = "refresh"] ELSE NoJob
      /\ UNCHANGED <<alive, versions>>
  BY <1>1 DEF PostPaid
<1>3. PICK c \in Called : c = Mine
  BY <1>2, Waited DEF Mine, IInv
<1>4. c.request = r /\ c.begun /\ c.held /\ c \in Running /\ c \notin adrift /\ Placed(c)
  BY <1>1, <1>2, <1>3 DEF Mine, Booked, Distinct, Running
<1>5. Onward
  BY <1>2, <1>4, Leaves DEF IInv, Booked
<1>6. job'.at # "run" /\ (PlainJob => PlainJob')
  <2>1. CASE job.do = "analysis"
    <3>1. job' = [job EXCEPT !.at = "refresh"] /\ job \in Job
      BY <1>2, <2>1 DEF IInv, Typed
    <3> QED BY <3>1 DEF Job, PlainJob
  <2>2. CASE job.do # "analysis"
    BY <1>2, <2>2, JobOver
  <2> QED BY <2>1, <2>2
<1>7. adrift' \subseteq adrift /\ key' = key \ {operation(r)} /\ paid' \subseteq paid
  BY <1>2 DEF completeRequest
<1>8. Running' \subseteq Running \ {c}
  BY <1>4, <1>6, <1>7 DEF Running
<1>9. PlainJob'
  BY <1>6 DEF Booked
<1> QED BY <1>2, <1>4, <1>5, <1>6, <1>7, <1>8, <1>9, Ends DEF IInv

\* The work fails, and its unit is released or not.
LEMMA PaidFailsBooked == ASSUME IInv, Booked, PaidFails PROVE Booked'
<1>1. PICK r : r = Request(job)
  OBVIOUS
<1>2. /\ job.at = "run" /\ job' = NoJob /\ UNCHANGED <<stored, adrift, paid, once>>
      /\ key' = key \/ key' = key \ {operation(r)}
  BY <1>1 DEF PaidFails, Released
<1>3. PICK c : c = Mine
  OBVIOUS
<1>4. c.request = r /\ c.begun /\ c.held /\ c \in Running /\ c \notin adrift /\ Unpaid(c)
  BY <1>1, <1>2, <1>3 DEF Mine, Booked, Distinct, Running
<1>5. Onward
  BY <1>2, Unstored
<1>6. job'.at # "run" /\ PlainJob'
  BY <1>2, JobOver
<1>7. Running' \subseteq Running \ {c}
  BY <1>2, <1>4, <1>6 DEF Running
<1>8. once' = (once /\ (c.held => Ask(c.request) \notin paid))
  BY <1>2, <1>4 DEF Booked, Unpaid
<1> QED BY <1>2, <1>4, <1>5, <1>6, <1>7, <1>8, Ends DEF IInv

\* A call that is given up on runs on, or may still be taken up.
LEMMA GiveUpBooked == ASSUME IInv, Booked, GiveUp PROVE Booked'
<1>1. /\ job.at \in {"post", "run"} /\ adrift' = adrift \cup Underway /\ job' = NoJob
      /\ UNCHANGED <<stored, key, paid, once>>
  BY DEF GiveUp, Underway
<1>2. \A c \in Underway : Plain(c.request) /\ (c.begun => c = Mine /\ job.at = "run")
  <2>1. ASSUME NEW c \in Underway PROVE c = [request |-> Request(job), begun |-> job.at = "run", held |-> TRUE]
    BY DEF Underway
  <2>2. Plain(Request(job))
    BY DEF Booked, PlainJob, Plain, Request
  <2>3. ASSUME NEW c \in Underway PROVE c.request = Request(job) /\ (c.begun => c = Mine /\ job.at = "run")
    <3>1. c = [request |-> Request(job), begun |-> job.at = "run", held |-> TRUE]
      BY <2>1
    <3>2. c.request = Request(job)
      BY <3>1
    <3>3. c.begun => job.at = "run" /\ c = Mine
      BY <3>1 DEF Mine
    <3> QED BY <3>2, <3>3
  <2> QED BY <2>2, <2>3
<1>3. job'.at # "run" /\ PlainJob'
  BY <1>1, JobOver
<1>4. Running' \subseteq Running
  BY <1>1, <1>2, <1>3 DEF Running
<1>5. Onward
  BY <1>1, Unstored
<1>6. \A c \in adrift' : Plain(c.request)
  BY <1>1, <1>2 DEF Booked
<1>7. \A a \in paid' : a \in paid /\ Spent(a)'
  BY <1>1, <1>5 DEF Booked, Onward
<1> QED BY <1>1, <1>3, <1>4, <1>5, <1>6, <1>7, Calm DEF Onward, IInv

\* A call that was given up on is taken up, carried out, or comes to nothing.
LEMMA AdriftBooked == ASSUME IInv, Booked, NEW c \in adrift, Adrift(c) PROVE Booked'
<1>1. PICK r, rest : r = c.request /\ rest = adrift \ {c}
  OBVIOUS
<1>2. UNCHANGED <<alive, versions, job>> /\ PlainJob' /\ Plain(r) /\ c \in Called
  BY <1>1 DEF Adrift, Booked, PlainJob, IInv, Typed
<1>3. Mine' = Mine /\ (c.begun => c \in Running) /\ (job.at = "run" => Mine \in Running)
  BY <1>2 DEF Mine, Request, Running
<1>4. CASE /\ ~c.begun /\ Admitted(r) /\ (c.held => ~requestKey(operation(r)))
           /\ key' = IF c.held THEN key \cup {operation(r)} ELSE key
           /\ adrift' = rest \cup {[c EXCEPT !.begun = TRUE]}
           /\ UNCHANGED <<ids, pending, paid, once, trouble>>
  <2>1. PICK b : b = [c EXCEPT !.begun = TRUE]
    OBVIOUS
  <2>2. b \in Called /\ b.request = r /\ b.begun /\ b.held = c.held
    BY <1>1, <1>2, <2>1 DEF Called
  <2>3. Running' \subseteq Running \cup {b}
    BY <1>1, <1>2, <1>3, <1>4, <2>1 DEF Running
  <2>4. \A a \in adrift' : Plain(a.request)
    BY <1>1, <1>2, <1>4, <2>1, <2>2 DEF Booked
  <2>5. job'.at = "run" => Mine' \notin adrift'
    <3>1. SUFFICES ASSUME job.at = "run" PROVE Mine \notin adrift'
      BY <1>2, <1>3
    <3>2. Mine.held /\ Unpaid(Mine) /\ Mine \notin adrift
      BY <1>3, <3>1 DEF Mine, Booked, Distinct
    <3>3. Mine # b
      BY <1>4, <2>2, <3>2 DEF Unpaid, requestKey
    <3> QED BY <1>1, <1>4, <2>1, <3>2, <3>3
  <2>6. UNCHANGED stored
    BY <1>2, <1>4 DEF stored
  <2>7. b.held => operation(b.request) \notin key
    BY <1>4, <2>2 DEF requestKey
  <2> QED BY <1>2, <1>4, <2>2, <2>3, <2>4, <2>5, <2>6, <2>7, Starts DEF IInv
<1>5. ASSUME adrift' = rest
      PROVE  /\ Running' \subseteq Running \ {c} /\ adrift' \subseteq adrift
             /\ job'.at = "run" => Mine' \notin adrift'
  BY <1>1, <1>2, <1>3, <1>5 DEF Running, Booked, Distinct
<1>6. CASE /\ c.begun /\ CarriedOut(r) /\ adrift' = rest
           /\ paid' = IF c.held THEN paid \cup {Ask(r)} ELSE paid
           /\ once' = (once /\ (c.held => Ask(r) \notin paid))
           /\ UNCHANGED <<key, trouble>>
  <2>1. Onward /\ Spent(Ask(c.request))'
    BY <1>1, <1>2, <1>3, <1>6, Leaves DEF IInv, Booked
  <2> QED BY <1>1, <1>2, <1>3, <1>5, <1>6, <2>1, Ends DEF IInv
<1>7. CASE /\ adrift' = rest
           /\ IF c.begun /\ c.held THEN Released(operation(r)) ELSE UNCHANGED <<key, trouble>>
           /\ UNCHANGED <<ids, pending, paid, once>>
  <2>1. Onward
    BY <1>2, <1>7, Unstored DEF stored
  <2>2. CASE c.begun
    <3>1. once' = (once /\ (c.held => Ask(c.request) \notin paid))
      BY <1>3, <1>7, <2>2 DEF Booked, Unpaid
    <3>2. key' = key \/ (c.held /\ key' = key \ {operation(c.request)})
      BY <1>1, <1>7, <2>2 DEF Released
    <3> QED BY <1>2, <1>3, <1>5, <1>7, <2>1, <2>2, <3>1, <3>2, Ends DEF IInv
  <2>3. CASE ~c.begun
    <3>1. key' = key /\ paid' = paid /\ once' = once
      BY <1>7, <2>3
    <3>2. \A b \in adrift' : Plain(b.request)
      BY <1>5, <1>7 DEF Booked
    <3>3. \A a \in paid' : a \in paid /\ Spent(a)'
      BY <2>1, <3>1 DEF Booked, Onward
    <3> QED BY <1>2, <1>5, <1>7, <2>1, <3>1, <3>2, <3>3, Calm DEF Onward, IInv
  <2> QED BY <2>2, <2>3
<1> QED BY <1>1, <1>4, <1>6, <1>7 DEF Adrift

\* Every step keeps the books.
LEMMA KeepsBooked == ASSUME IInv, Clicked, Booked, [Next]_vars PROVE Booked'
<1>1. CASE UNCHANGED vars
  <2>1. UNCHANGED stored /\ UNCHANGED books /\ job' = job
    BY <1>1 DEF vars
  <2> QED BY <2>1, Unstored, Quiet DEF IInv, JobOn, PlainJob
<1>2. CASE createSession
  <2>1. /\ UNCHANGED <<alive, versions, pending>> /\ UNCHANGED books
        /\ job.at = "session" /\ NextId(job.doc) /\ job.doc \in Doc
        /\ \E session : job' = [job EXCEPT !.at = "post", !.session = session]
    BY <1>2 DEF createSession, IInv, Typed
  <2>2. job.do = "message" /\ job \in Job
    BY <2>1 DEF IInv, Typed, Fits
  <2>3. job'.at = "post" /\ job'.do = "message"
    BY <2>1, <2>2 DEF Job
  <2>4. \A d \in Doc : ids'[d] \in Nat /\ ids[d] <= ids'[d]
    <3>1. ids \in [Doc -> Nat]
      BY DEF IInv, Typed, Offers
    <3>2. PICK e \in Doc : ids' = [ids EXCEPT ![e] = @ + 1]
      BY <2>1 DEF NextId
    <3> QED BY <3>1, <3>2
  <2>5. Onward
    BY <2>1, <2>4, Still DEF IInv, Booked
  <2> QED BY <2>1, <2>3, <2>5, JobOver, Quiet DEF IInv
<1>3. CASE downloadExport \/ fetchDocument \/ CallFails
  <2>1. UNCHANGED stored /\ UNCHANGED books /\ job' = NoJob
    BY <1>3 DEF downloadExport, fetchDocument, CallFails, Over
  <2> QED BY <2>1, JobOver, Unstored, Quiet DEF IInv
<1>4. ASSUME UNCHANGED <<stored, job, books>> PROVE Booked'
  BY <1>4, Unstored, Quiet DEF IInv, JobOn, PlainJob
<1>5. CASE LateRead
  <2>1. CASE UNCHANGED <<job, books>>
    BY <1>4, <1>5, <2>1 DEF LateRead
  <2>2. CASE job' = NoJob /\ Forget
    BY <1>5, <2>2, JobOver, Unstored, Forgets DEF LateRead, IInv
  <2> QED BY <1>5, <2>1, <2>2 DEF LateRead
<1>6. ASSUME NEW r \in late, LateLands(r) \/ LateFails(r) PROVE Booked'
  BY <1>4, <1>6 DEF LateLands, LateFails
<1>7. ASSUME NEW d \in Doc, refreshList(d) PROVE Booked'
  BY <1>4, <1>7 DEF refreshList
<1>8. ASSUME NEW d \in Doc, EditElsewhere(d) PROVE Booked'
  <2>1. PICK v \in 1..Latest(d) : Commits(d, Latest(d), versions[d][v])
    BY <1>8 DEF EditElsewhere
  <2>2. versions[d][v] \in SUBSET Edit
    BY DEF IInv, Typed, Latest
  <2>3. UNCHANGED <<alive, job>> /\ UNCHANGED books
    BY <1>8 DEF EditElsewhere
  <2>4. Onward
    BY <2>1, <2>2, <2>3, Superseding DEF IInv, Booked
  <2> QED BY <2>3, <2>4, Quiet DEF IInv, JobOn, PlainJob
<1>9. ASSUME NEW d \in Doc, DeleteElsewhere(d) PROVE Booked'
  <2>1. Delete(d) /\ UNCHANGED <<versions, job>> /\ UNCHANGED books
    BY <1>9 DEF DeleteElsewhere, Delete
  <2>2. Onward
    BY <2>1, Deleting DEF IInv, Booked
  <2> QED BY <2>1, <2>2, Quiet DEF IInv, JobOn, PlainJob
<1>10. CASE PaidCall
  BY <1>2, <1>10, StartPaidBooked, PostPaidBooked, PaidFailsBooked, GiveUpBooked, AdriftBooked
  DEF PaidCall
<1>11. CASE Answers
  BY <1>3, <1>5, <1>6, <1>7, <1>10, <1>11, FreeBooked, reject_patchBooked DEF Answers, Call
<1>12. CASE Elsewhere
  BY <1>8, <1>9, <1>12 DEF Elsewhere
<1> QED BY <1>1, <1>11, <1>12, ClicksBooked DEF Next

\* However often an analysis or first pass of a version, or a message in a session, is
\* asked for again, and however late a call that was given up on is carried out, it is
\* charged once.
THEOREM PaysOnce == Spec => []PaidOnce
<1>1. IInv /\ Clicked /\ Booked /\ [Next]_vars => Booked'
  BY KeepsBooked
<1>2. Booked => PaidOnce
  BY DEF Booked, PaidOnce
<1> QED BY <1>1, <1>2, Invariant, OpensBooked, PTL DEF Spec
=============================================================================
