------------------------------ MODULE Accounts ------------------------------
(***************************************************************************)
(* Member accounts, their sessions and what an account owns: accounts.py,  *)
(* security.py, the capacity checks of billing.py, and the creation,       *)
(* resizing and removal of documents with their uploaded originals.        *)
(*                                                                         *)
(* A request authenticates and commits before its handler works, and the   *)
(* handler goes on whatever happens to the session.  The row of a user is  *)
(* locked by whoever changes its credentials or deletes it, the row of a   *)
(* billing account by whoever counts its documents.  An original is put    *)
(* into the object store before the database commits the document it is    *)
(* of, and removed before the database commits a deletion.                 *)
(*                                                                         *)
(* A credential is a version: every change hashes with a fresh salt.  The  *)
(* owner of the deployment has no row to change and is left out.           *)
(***************************************************************************)
EXTENDS Integers, FiniteSetsExt, FiniteSets

CONSTANTS
  Account,      \* user ids, never used twice
  NameOf,       \* [Account -> user names]
  First,        \* the account that is registered at the start
  Old,          \* the document it may have by then
  Call,         \* requests; a session has the identity of the request it came from
  Doc,          \* document ids, never used twice
  Scenarios,    \* sets of requests to explore, each in [Call -> Op]
  MaxAccounts,  \* public_max_accounts
  DocLimit,     \* [Plan -> Nat]
  ByteLimit,    \* [Plan -> Nat]
  Contents,     \* sizes of texts, in bytes
  Original      \* the size of an uploaded original

Op   == {"register", "login", "logout", "recover", "password", "delete",
         "create", "save", "remove", "checkout"}
Plan == {"free", "pro"}
Unauthenticated == {"register", "login", "recover"}

ASSUME AccountsAssumption ==
  /\ IsFiniteSet(Account) /\ IsFiniteSet(Call) /\ IsFiniteSet(Doc)
  /\ First \in Account /\ First \notin Call /\ Old \in Doc
  /\ Scenarios \subseteq [Call -> Op]
  /\ MaxAccounts \in Nat \ {0}
  /\ DocLimit \in [Plan -> Nat] /\ ByteLimit \in [Plan -> Nat]
  /\ Contents \subseteq Nat \ {0} /\ Original \in Nat \ {0}

\* The session of the first account is named like it.
Sid       == Call \cup {First}
NoSession == <<First, 0>>
NoDoc     == "no document"

\* A payment record is a checkout attempt, with what Stripe made of it.
Payment == {"attempt", "paying", "lapsed"}
Billing == Payment \cup {"none", "free"}

Pc == {"idle", "registering", "verified", "identified", "presented", "authenticated",
       "locked", "checked", "ensured", "counted", "put", "removing", "done"}
CallRecord == [op : Op, pc : Pc, acct : Account, sid : Sid, knows : Nat, id : Account \X Nat,
               seen : Billing, docs : SUBSET Doc, erase : BOOLEAN, held : BOOLEAN, text : Contents \cup {0},
               original : {0, Original}]

VARIABLES
  account,  \* the user_accounts table; deleted rows are kept as history
  session,  \* the sessions table: the identity that each row stores
  billing,  \* the billing_accounts table and its checkout attempts, per account
  doc,      \* the documents table
  object,   \* the documents whose original is in the object store
  lost,     \* history: documents whose creation died after the original was put
  call      \* requests

vars == <<account, session, billing, doc, object, lost, call>>

Live == {a \in Account : account[a].life = "live"}

\* session_identity: the user's id and a fingerprint of the password hash.
Identity(a) == <<a, account[a].hash>>

Valid(s) == session[s] # NoSession /\ \E a \in Live : session[s] = Identity(a)

NoDocument == [life |-> "unused", owner |-> First, text |-> 0, original |-> 0, aged |-> FALSE]
Init ==
  /\ account = [a \in Account |->
       [life |-> IF a = First THEN "live" ELSE "unused", hash |-> 1, key |-> 1]]
  /\ session = [s \in Sid |-> IF s = First THEN Identity(First) ELSE NoSession]
  /\ \/ /\ doc = [d \in Doc |-> NoDocument]
        /\ object = {}
        /\ billing = [a \in Account |-> "none"]
     \/ /\ \E text \in Contents :
             doc = [d \in Doc |-> IF d # Old THEN NoDocument ELSE
                      [NoDocument EXCEPT !.life = "stored", !.text = text, !.original = Original]]
        /\ object = {Old}
        /\ billing = [a \in Account |-> IF a = First THEN "free" ELSE "none"]
  /\ lost = {}
  /\ \E ops \in Scenarios :
       call = [c \in Call |->
         [op |-> ops[c], pc |-> "idle", acct |-> First, sid |-> First, knows |-> 0,
          id |-> <<First, 0>>, seen |-> "none", docs |-> {}, erase |-> FALSE, held |-> FALSE, text |-> 0,
          original |-> 0]]

-----------------------------------------------------------------------------
(* Locks are held by the requests that are past the step that took them.    *)

At(pcs) == {c \in Call : call[c].pc \in pcs}
Asks(c, pc, ops) == call[c].pc = pc /\ call[c].op \in ops

\* Fault: the user is read without FOR UPDATE.
NobodyLocksUser(a) == TRUE
UserFree(a) == \A c \in At({"locked", "checked"}) : call[c].acct # a

\* Fault: the billing account is read without FOR UPDATE.
NobodyLocksBilling(a) == TRUE
BillingFree(a) ==
  \A c \in At({"ensured", "counted", "put"}) : call[c].acct = a => ~call[c].held

DocFree(d) ==
  \A c \in At({"ensured", "counted", "removing", "checked"}) : d \notin call[c].docs

Stored == {d \in Doc : doc[d].life = "stored"}
Owned(a) == {d \in Stored : doc[d].owner = a}
\* get_owned_document and _capacity_usage look at what has not expired.
Current(a) == {d \in Owned(a) : ~doc[d].aged}
Bytes(a) == MapThenSumSet(LAMBDA d : doc[d].text + doc[d].original, Current(a))

PlanOf(b) == IF b = "paying" THEN "pro" ELSE "free"

Goto(c, pc) == call' = [call EXCEPT ![c].pc = pc]
\* The request ends; what it read and locked is gone.
End(c) == call' = [call EXCEPT ![c] = [@ EXCEPT !.pc = "done", !.knows = 0, !.id = <<First, 0>>,
                                        !.seen = "none", !.docs = {}, !.erase = FALSE, !.held = FALSE,
                                        !.text = 0, !.original = 0]]

-----------------------------------------------------------------------------
(* Registration: the count and the insert under one advisory lock.         *)

\* Fault: no advisory lock.
RegisterUnserialized(c) ==
  /\ Asks(c, "idle", {"register"})
  /\ Cardinality(Live) < MaxAccounts
  /\ \E a \in Account :
       /\ account[a].life = "unused" /\ \A x \in At({"registering"}) : call[x].acct # a
       /\ call' = [call EXCEPT ![c].pc = "registering", ![c].acct = a]
  /\ UNCHANGED <<account, session, billing, doc, object, lost>>
Register(c) ==
  /\ Asks(c, "idle", {"register"}) /\ At({"registering"}) = {}
  /\ Cardinality(Live) < MaxAccounts
  /\ \E a \in Account :
       /\ account[a].life = "unused"
       /\ call' = [call EXCEPT ![c].pc = "registering", ![c].acct = a]
  /\ UNCHANGED <<account, session, billing, doc, object, lost>>

\* Full: 503.
RefuseRegistration(c) ==
  /\ Asks(c, "idle", {"register"}) /\ At({"registering"}) = {}
  /\ Cardinality(Live) >= MaxAccounts
  /\ End(c)
  /\ UNCHANGED <<account, session, billing, doc, object, lost>>

\* The unique user name decides, at the insert, between a member and a 409.
FinishRegistration(c) ==
  /\ call[c].pc = "registering"
  /\ LET a == call[c].acct IN
     IF \E b \in Live : NameOf[b] = NameOf[a] THEN UNCHANGED <<account, session>>
     ELSE /\ account' = [account EXCEPT ![a].life = "live"]
          /\ session' = [session EXCEPT ![c] = Identity(a)]
  /\ End(c)
  /\ UNCHANGED <<billing, doc, object, lost>>

-----------------------------------------------------------------------------
(* Login reads the account for the password, reads it again for the        *)
(* identity, and inserts the session.                                      *)

VerifyLogin(c) ==
  /\ Asks(c, "idle", {"login"})
  /\ \E a \in Live : call' = [call EXCEPT ![c].pc = "verified", ![c].acct = a]
  /\ UNCHANGED <<account, session, billing, doc, object, lost>>

IdentifyLogin(c) ==
  /\ call[c].pc = "verified"
  /\ IF call[c].acct \in Live
       THEN call' = [call EXCEPT ![c].pc = "identified", ![c].id = Identity(call[c].acct)]
       ELSE End(c)
  /\ UNCHANGED <<account, session, billing, doc, object, lost>>

\* Fault: the session is stored for the account, without an identity.
FinishLoginOfAccount(c) ==
  /\ call[c].pc = "identified"
  /\ session' = [session EXCEPT ![c] = <<call[c].acct>>]
  /\ End(c)
  /\ UNCHANGED <<account, billing, doc, object, lost>>
FinishLogin(c) ==
  /\ call[c].pc = "identified"
  /\ session' = [session EXCEPT ![c] = call[c].id]
  /\ End(c)
  /\ UNCHANGED <<account, billing, doc, object, lost>>

-----------------------------------------------------------------------------
(* Credentials.                                                            *)

\* A recovery key is typed in: the newest one, an older one fails anyway.
Present(c) ==
  /\ Asks(c, "idle", {"recover"})
  /\ \E a \in Live :
       call' = [call EXCEPT ![c].pc = "presented", ![c].acct = a, ![c].knows = account[a].key]
  /\ UNCHANGED <<account, session, billing, doc, object, lost>>

\* current_owner, and the password that goes with the request where one does.
Authenticate(c) ==
  /\ Asks(c, "idle", Op \ Unauthenticated)
  /\ \E s \in Sid : /\ Valid(s)
                    /\ call' = [call EXCEPT ![c].pc = "authenticated", ![c].acct = session[s][1],
                                            ![c].sid = s, ![c].knows = account[session[s][1]].hash]
  /\ UNCHANGED <<account, session, billing, doc, object, lost>>

Logout(c) ==
  /\ Asks(c, "authenticated", {"logout"})
  /\ session' = [session EXCEPT ![call[c].sid] = NoSession]
  /\ End(c)
  /\ UNCHANGED <<account, billing, doc, object, lost>>

Credential(c) == IF call[c].op = "recover" THEN account[call[c].acct].key
                                           ELSE account[call[c].acct].hash

\* SELECT ... FOR UPDATE, then the credential is verified.  A deletion goes on to
\* read the billing account, without a lock, and the list of documents.
LockUser(c) ==
  /\ call[c].pc \in {"presented", "authenticated"}
  /\ call[c].op \in {"recover", "password", "delete"}
  /\ UserFree(call[c].acct)
  /\ LET a == call[c].acct IN
     IF \/ a \notin Live \/ call[c].knows # Credential(c)
        \/ call[c].op = "delete" /\ billing[a] = "paying"
     THEN End(c)
     ELSE call' = [call EXCEPT ![c].pc = "locked", ![c].seen = billing[a],
                               ![c].docs = IF call[c].op = "delete" THEN Owned(a) ELSE {}]
  /\ UNCHANGED <<account, session, billing, doc, object, lost>>

\* DELETE FROM sessions WHERE the identity is that of the old password.
EndSessions(a) ==
  [s \in Sid |-> IF session[s] = Identity(a) THEN NoSession ELSE session[s]]

\* recover and change_password.
FinishPassword(c) ==
  /\ Asks(c, "locked", {"recover", "password"})
  /\ LET a == call[c].acct IN
     /\ account' = [account EXCEPT ![a].hash = @ + 1,
                                   ![a].key = IF call[c].op = "recover" THEN @ + 1 ELSE @]
     /\ session' = EndSessions(a)
  /\ End(c)
  /\ UNCHANGED <<billing, doc, object, lost>>

-----------------------------------------------------------------------------
(* delete_account.                                                         *)

\* No customer and no subscription when the account was read, no checkout now.
Erasable(c) == call[c].seen = "free" /\ billing[call[c].acct] = "free"

\* The trees that were listed are deleted, which locks their rows and empties
\* the object store at once; then checkouts are looked for.
CheckDelete(c) ==
  /\ Asks(c, "locked", {"delete"})
  /\ \A d \in call[c].docs : DocFree(d)
  /\ object' = object \ call[c].docs
  /\ call' = [call EXCEPT ![c].pc = "checked", ![c].erase = Erasable(c)]
  /\ UNCHANGED <<account, session, billing, doc, lost>>

Remove(ds) ==
  doc' = [d \in Doc |-> IF d \in ds /\ d \in Stored THEN [NoDocument EXCEPT !.life = "gone"]
                                                   ELSE doc[d]]

\* The rows of a billing account go with its checkout attempts (ON DELETE CASCADE).
FinishDelete(c) ==
  /\ call[c].pc = "checked"
  /\ LET a == call[c].acct IN
     /\ call[c].erase => BillingFree(a)
     /\ account' = [account EXCEPT ![a].life = "deleted"]
     /\ session' = EndSessions(a)
     /\ billing' = IF call[c].erase THEN [billing EXCEPT ![a] = "none"] ELSE billing
  /\ Remove(call[c].docs)
  /\ End(c)
  /\ UNCHANGED <<object, lost>>

-----------------------------------------------------------------------------
(* Documents: creation and saves within the capacity of the plan.          *)

\* ensure_billing_account reads the plan before the row is locked; the insert
\* of a missing row keeps everybody else out to the end.  A save has locked its
\* document before.
EnsureAccount(c) ==
  /\ Asks(c, "authenticated", {"create", "save"})
  /\ LET a == call[c].acct IN
     /\ billing[a] = "none" => BillingFree(a)
     /\ \E text \in Contents, original \in {0, Original}, ds \in SUBSET Doc :
          /\ IF call[c].op = "create" THEN ds = {}
             ELSE original = 0 /\ \E d \in Current(a) : ds = {d} /\ DocFree(d)
          /\ call' = [call EXCEPT ![c].pc = "ensured", ![c].seen = billing[a],
                                  ![c].held = billing[a] = "none", ![c].docs = ds,
                                  ![c].text = text, ![c].original = original]
  /\ UNCHANGED <<account, session, billing, doc, object, lost>>

\* What the request adds: a save counts only the growth of the text.
Growth(c) ==
  IF call[c].op = "create" THEN call[c].text + call[c].original
  ELSE LET d == CHOOSE d \in call[c].docs : TRUE IN
       IF call[c].text > doc[d].text THEN call[c].text - doc[d].text ELSE 0

Fits(c) ==
  LET a == call[c].acct  p == PlanOf(call[c].seen) IN
  /\ Cardinality(Current(a)) + (IF call[c].op = "create" THEN 1 ELSE 0) <= DocLimit[p]
  /\ Bytes(a) + Growth(c) <= ByteLimit[p]

\* enforce_document_capacity.  If the billing account was deleted since it was
\* read, there is no row to lock and the request goes on with what it read.
Count(c) ==
  /\ call[c].pc = "ensured"
  /\ LET a == call[c].acct IN
     /\ call[c].held \/ BillingFree(a)
     /\ IF Fits(c)
          THEN call' = [call EXCEPT ![c].pc = "counted", ![c].held = @ \/ billing[a] # "none"]
          ELSE End(c)
  /\ UNCHANGED <<account, session, billing, doc, object, lost>>

\* A new random id, whichever.
Unused == {d \in Doc : doc[d].life = "unused" /\ \A c \in At({"put"}) : d \notin call[c].docs} \ lost
Fresh == IF Unused = {} THEN {} ELSE {CHOOSE d \in Unused : TRUE}

PutOriginal(c) ==
  /\ Asks(c, "counted", {"create"}) /\ call[c].original > 0
  /\ \E d \in Fresh :
       /\ object' = object \cup {d}
       /\ call' = [call EXCEPT ![c].pc = "put", ![c].docs = {d}]
  /\ UNCHANGED <<account, session, billing, doc, lost>>

\* A row that was inserted for this request appears with its document.
KeepAccount(c) ==
  billing' = IF call[c].held /\ billing[call[c].acct] = "none"
               THEN [billing EXCEPT ![call[c].acct] = "free"] ELSE billing

CommitDocument(c) ==
  /\ call[c].op = "create"
  /\ \/ call[c].pc = "put"
     \/ call[c].pc = "counted" /\ call[c].original = 0
  /\ \E d \in IF call[c].pc = "put" THEN call[c].docs ELSE Fresh :
       doc' = [doc EXCEPT ![d] = [life |-> "stored", owner |-> call[c].acct, text |-> call[c].text,
                                  original |-> call[c].original, aged |-> FALSE]]
  /\ KeepAccount(c)
  /\ End(c)
  /\ UNCHANGED <<account, session, object, lost>>

CommitSave(c) ==
  /\ Asks(c, "counted", {"save"})
  /\ doc' = [d \in Doc |-> IF d \in call[c].docs THEN [doc[d] EXCEPT !.text = call[c].text]
                                                ELSE doc[d]]
  /\ KeepAccount(c)
  /\ End(c)
  /\ UNCHANGED <<account, session, object, lost>>

-----------------------------------------------------------------------------
(* Removal of documents.                                                   *)

RemoveDocument(c) ==
  /\ Asks(c, "authenticated", {"remove"})
  /\ \E d \in Current(call[c].acct) :
       /\ DocFree(d)
       /\ object' = object \ {d}
       /\ call' = [call EXCEPT ![c].pc = "removing", ![c].docs = {d}]
  /\ UNCHANGED <<account, session, billing, doc, lost>>

FinishRemoval(c) ==
  /\ call[c].pc = "removing"
  /\ Remove(call[c].docs)
  /\ End(c)
  /\ UNCHANGED <<account, session, billing, object, lost>>

Expired == {d \in Stored : doc[d].aged}

\* Faults: the rows go without their objects; or only those of members go.
CleanUpRows ==
  /\ Expired # {} /\ \A d \in Expired : DocFree(d)
  /\ Remove(Expired)
  /\ UNCHANGED <<account, session, billing, object, lost, call>>
CleanUpOfMembers ==
  /\ Expired # {} /\ \A d \in Expired : DocFree(d) /\ doc[d].owner \in Live
  /\ Remove(Expired)
  /\ object' = object \ Expired
  /\ UNCHANGED <<account, session, billing, lost, call>>
\* cleanup_expired_documents, by anybody who lists documents, and at every start.
CleanUp ==
  /\ Expired # {} /\ \A d \in Expired : DocFree(d)
  /\ Remove(Expired)
  /\ object' = object \ Expired
  /\ UNCHANGED <<account, session, billing, lost, call>>

\* The retention period of a document is over.
Expire(d) ==
  /\ d \in Stored /\ ~doc[d].aged
  /\ doc' = [doc EXCEPT ![d].aged = TRUE]
  /\ UNCHANGED <<account, session, billing, object, lost, call>>

-----------------------------------------------------------------------------
(* Payments, as far as accounts depend on them, and failures.              *)

\* create_checkout_session commits an attempt; who pays is sent to the portal.
Checkout(c) ==
  /\ Asks(c, "authenticated", {"checkout"})
  /\ BillingFree(call[c].acct)
  /\ billing' = [billing EXCEPT ![call[c].acct] = IF @ \in Payment THEN @ ELSE "attempt"]
  /\ End(c)
  /\ UNCHANGED <<account, session, doc, object, lost>>

\* The webhooks of the subscription; StripeBilling has the rest.
Webhook(a) ==
  /\ BillingFree(a)
  /\ \/ billing[a] = "attempt" /\ billing' = [billing EXCEPT ![a] = "paying"]
     \/ billing[a] = "paying" /\ billing' = [billing EXCEPT ![a] = "lapsed"]
  /\ UNCHANGED <<account, session, doc, object, lost, call>>

\* The process dies, or the handler raises: the transaction rolls back, the
\* object store does not.  Elsewhere only the request is lost.
Crash(c) ==
  /\ call[c].pc \in {"checked", "put", "removing"}
  /\ lost' = IF call[c].pc = "put" THEN lost \cup call[c].docs ELSE lost
  /\ End(c)
  /\ UNCHANGED <<account, session, billing, doc, object>>

Identify(c) == Register(c) \/ RefuseRegistration(c) \/ VerifyLogin(c) \/ Present(c) \/ Authenticate(c)
Work(c) ==
  \/ FinishRegistration(c) \/ IdentifyLogin(c) \/ FinishLogin(c) \/ Logout(c)
  \/ LockUser(c) \/ FinishPassword(c) \/ CheckDelete(c) \/ FinishDelete(c)
  \/ EnsureAccount(c) \/ Count(c) \/ PutOriginal(c) \/ CommitDocument(c) \/ CommitSave(c)
  \/ RemoveDocument(c) \/ FinishRemoval(c) \/ Checkout(c)

Next ==
  \/ \E c \in Call : Identify(c) \/ Work(c) \/ Crash(c)
  \/ CleanUp
  \/ \E d \in Doc : Expire(d)
  \/ \E a \in Account : Webhook(a)

Spec == Init /\ [][Next]_vars

\* Handlers go on, time passes, and somebody lists documents now and then.
FairSpec ==
  /\ Spec
  /\ WF_vars(\E c \in Call : Work(c)) /\ WF_vars(\E d \in Doc : Expire(d)) /\ WF_vars(CleanUp)

-----------------------------------------------------------------------------
TypeOK ==
  /\ account \in [Account -> [life : {"unused", "live", "deleted"}, hash : Nat, key : Nat]]
  /\ session \in [Sid -> Account \X Nat]
  /\ billing \in [Account -> Billing]
  /\ doc \in [Doc -> [life : {"unused", "stored", "gone"}, owner : Account,
                      text : Contents \cup {0}, original : {0, Original}, aged : BOOLEAN]]
  /\ object \subseteq Doc /\ lost \subseteq Doc
  /\ call \in [Call -> CallRecord]

\* public_max_accounts holds however many register at once, and a user name belongs
\* to one member: the count is taken under the lock that the insert is made under.
AccountCap ==
  /\ Cardinality(Live) <= MaxAccounts
  /\ \A a, b \in Live : NameOf[a] = NameOf[b] => a = b

\* docs/PUBLIC_LAUNCH.md:40: after a recovery the old key is dead.  Of the changes,
\* recoveries and deletions that were asked for with one credential, one wins: what
\* a request has verified is still the account's credential when it commits.
OneWinner ==
  \A c \in At({"locked", "checked"}) :
    call[c].acct \in Live /\ call[c].knows = Credential(c)

\* The documents of a member never come to exceed, in number or bytes, the plan that
\* was read for the request that adds to them, whatever else is created and saved
\* beside it.
WithinCapacity ==
  [][\A c \in At({"counted", "put"}) :
       call'[c].pc = "done" /\ call[c].acct \in Live' /\ lost' = lost
         => /\ Cardinality(Current(call[c].acct))' <= DocLimit[PlanOf(call[c].seen)]
            /\ Bytes(call[c].acct)' <= ByteLimit[PlanOf(call[c].seen)]]_vars

\* An original in the store belongs to a document, or to a request that is about to
\* commit it, or to one that died in between: deletion, retention and the deletion
\* of accounts leave none behind.
FilesBelong ==
  object \subseteq Stored \cup lost \cup UNION {call[c].docs : c \in At({"put"})}

\* docs/PUBLIC_LAUNCH.md:44, retention: what requests in flight leave of a deleted
\* account goes in the end.
Leftovers == {d \in Stored : doc[d].owner \notin Live}
LeftoversGo == Leftovers # {} ~> Leftovers = {}
=============================================================================
