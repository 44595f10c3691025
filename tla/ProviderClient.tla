--------------------------- MODULE ProviderClient ---------------------------
(***************************************************************************)
(* One call to a provider: a Pangram detection (detectors.py: discover the *)
(* models, submit, poll) or a DeepSeek rewrite (rewriters.py: rewrite,     *)
(* then validate), over bounded retries (http_client.py).                  *)
(*                                                                         *)
(* The provider is external: it may answer, answer late, work without      *)
(* answering, or never be reached.  Texts of rewrites are abstracted to    *)
(* what the checks tell apart; those of detections are SpanMapping's.      *)
(***************************************************************************)
EXTENDS SpanMapping

CONSTANTS
  Char,        \* the characters a text may hold
  Paragraphs,  \* the texts sent to Pangram
  Reports,     \* what a completed task may report: [text, windows, sound]
  Passages,    \* how many passages a first pass sends; their ids are 1..Passages
  Drafts,      \* what DeepSeek may write: sequences of Row
  Verdicts,    \* what its validator may say: sequences of Item
  MaxAfter,    \* max_retry_after_seconds in ticks; a backoff is one tick, doubled
  MaxPoll      \* pangram_max_poll_seconds in ticks

Row  == [id : Int, valid : BOOLEAN, kept : BOOLEAN, changed : BOOLEAN]
Item == [id : Int, approved : BOOLEAN, meaning : BOOLEAN, facts : {"none", "added", "absent"},
         protected : BOOLEAN, issues : BOOLEAN]

\* The bounds of a window are integers (_integer).
Text   == Seq(Char)
Window == [start : Int, end : Int, risk : BOOLEAN, exact : BOOLEAN]

ASSUME ClientAssumption ==
  /\ Space \in Char /\ Paragraphs \in Seq(Text)
  /\ Reports \subseteq [text : Text, windows : Seq(Window), sound : BOOLEAN]
  /\ MaxAfter \in Nat /\ MaxPoll \in Nat \ {0} /\ Passages \in Nat \ {0}
  /\ Drafts \subseteq Seq(Row) /\ Verdicts \subseteq Seq(Item)

Kind      == {"detection", "rewrite", "first pass"}
Completion == {"rewrite", "validation"}
Paid      == Completion \cup {"submit"}
Op        == Paid \cup {"models", "poll"}
Retryable == {"limited", "down"}   \* 429; 408, 425, 500, 502, 503 and 504
\* "rejected" is 400, 404, 409, 413 or 422; "other" is any other status, 501 and 520 too.
HttpStatus == Retryable \cup {"ok", "denied", "credit", "rejected", "other"}
Seen      == HttpStatus \cup {"connect", "timeout", "broken"}
NoHeader  == -1
After     == {NoHeader} \cup 0..(MaxAfter + 1)   \* Retry-After

VARIABLES
  kind,
  pc,      \* the request the call is about to make or makes, or where it is between two
  http,    \* the request: [state, attempts, attempt, seen, delay]
  sent,    \* [Paid -> how many times it was sent]
  task,    \* the Pangram task: "none", "made", "succeeded", "failed"
  left,    \* ticks to the deadline of the polling
  usage,   \* [Completion -> status of its reservation in the ledger]
  read,    \* what the provider wrote: [report, draft, verdict]
  result   \* [code, reference, spans, revisions]

vars == <<kind, pc, http, sent, task, left, usage, read, result>>

NoHttp   == [state |-> "off", attempts |-> 0, attempt |-> 0, seen |-> "ok",
             delay |-> 0]
NoReport == [text |-> <<>>, windows |-> <<>>, sound |-> FALSE]
NoResult == [code |-> "none", reference |-> FALSE, spans |-> {}, revisions |-> <<>>]

Init ==
  /\ kind \in Kind
  /\ pc = "begin"
  /\ http = NoHttp
  /\ sent = [o \in Paid |-> 0]
  /\ task = "none"
  /\ left = 0
  /\ usage = [o \in Completion |-> IF kind = "detection" THEN "none" ELSE "reserved"]
  /\ read = [report |-> NoReport, draft |-> <<>>, verdict |-> <<>>]
  /\ result = NoResult

-----------------------------------------------------------------------------
(* request_json_with_retry.                                                *)

\* Fault: a submission is repeated like any other request.
AttemptsTwo(op) == 2
Attempts(op) == IF op = "submit" THEN 1 ELSE 2

Request(op) ==
  /\ pc' = op
  /\ http' = [NoHttp EXCEPT !.state = "ready", !.attempts = Attempts(op)]

Send ==
  /\ http.state \in {"ready", "sleeping"}
  /\ http' = [http EXCEPT !.state = "sent", !.attempt = @ + 1, !.delay = 0]
  /\ sent' = [o \in Paid |-> IF o = pc THEN sent[o] + 1 ELSE sent[o]]
  /\ UNCHANGED <<kind, pc, task, left, usage, read, result>>

Backoff == [a \in 1..3 |-> 2 ^ (a - 1)]

Delay(asked) ==
  Smaller(IF asked = NoHeader THEN Backoff[http.attempt] ELSE asked, MaxAfter)

\* Fault: one attempt too many.
TriesAgainOnce(seen, asked) ==
  /\ http.attempt <= http.attempts
  /\ seen \in Retryable \cup {"connect", "timeout"}
  /\ asked <= MaxAfter
TriesAgain(seen, asked) ==
  /\ http.attempt < http.attempts
  /\ seen \in Retryable \cup {"connect", "timeout"}
  /\ asked <= MaxAfter

\* A request may have been carried out although no answer says so.
Unclear == {"down", "other", "timeout", "broken"}
TaskAfter(seen) ==
  CASE pc = "submit" /\ seen = "ok" -> {"made"}
    [] pc = "submit" /\ seen \in Unclear -> {task, "made"}
    [] OTHER -> {task}

Answer(seen, asked) ==
  /\ http.state = "sent"
  /\ seen \notin Retryable => asked = NoHeader
  /\ task' \in TaskAfter(seen)
  /\ http' = IF TriesAgain(seen, asked)
             THEN [http EXCEPT !.state = "sleeping", !.delay = Delay(asked)]
             ELSE [http EXCEPT !.state = "over", !.seen = seen]
  /\ UNCHANGED <<kind, pc, sent, left, usage, read, result>>

Over(op) == http.state = "over" /\ pc = op

\* The end of a call.  A handler of a rewrite cancels in its finally clause the
\* reservations whose use was not observed.
\* Fault: it does not.
CancelNone(u) == u
CancelUnused(u) == [o \in Completion |-> IF u[o] = "reserved" THEN "cancelled" ELSE u[o]]

End(res, u) ==
  /\ pc' = "done"
  /\ http' = NoHttp
  /\ left' = 0
  /\ result' = res
  /\ usage' = CancelUnused(u)
Fails(code, reference) ==
  End([NoResult EXCEPT !.code = code, !.reference = reference], usage)

-----------------------------------------------------------------------------
(* The detection.                                                          *)

\* _raise_for_provider_status
StatusCode == [denied |-> "authentication_failed", credit |-> "insufficient_credits",
               limited |-> "rate_limited", rejected |-> "invalid_request",
               down |-> "service_unavailable", other |-> "provider_failed"]

BeginDetection ==
  /\ kind = "detection" /\ pc = "begin"
  /\ \/ Request("models") /\ UNCHANGED <<left, usage, result>>
     \/ Fails("not configured", FALSE)
  /\ UNCHANGED <<kind, sent, task, read>>

\* _unexpected_provider_failure: whatever else is raised over an answer, such as by a
\* body that is nested too deep or a number that is infinite, forgets the task.
FailsUnexpectedly == Fails("provider_failed", FALSE)

\* _require_available_model
ModelsDone(body) ==
  /\ Over("models")
  /\ \/ /\ http.seen \notin HttpStatus
        /\ Fails("model_discovery_unavailable", FALSE)
     \/ http.seen \in DOMAIN StatusCode /\ Fails(StatusCode[http.seen], FALSE)
     \/ /\ http.seen = "ok"
        /\ \/ body = "good" /\ Request("submit") /\ UNCHANGED <<left, usage, result>>
           \/ body = "unlisted" /\ Fails("model_not_available", FALSE)
           \/ body = "bad" /\ Fails("invalid_response", FALSE)
           \/ body = "unreadable" /\ FailsUnexpectedly
  /\ UNCHANGED <<kind, sent, task, read>>

SubmitDone(body) ==
  /\ Over("submit")
  /\ \/ /\ http.seen \notin HttpStatus
        /\ Fails("submission_outcome_unknown", FALSE)
     \/ http.seen \in DOMAIN StatusCode /\ Fails(StatusCode[http.seen], FALSE)
     \/ /\ http.seen = "ok"
        /\ \/ /\ body = "good"
              /\ left' = MaxPoll
              /\ pc' = "wait" /\ http' = NoHttp
              /\ UNCHANGED <<usage, result>>
           \/ body = "bad" /\ Fails("invalid_response", FALSE)
           \/ body = "unreadable" /\ FailsUnexpectedly
  /\ UNCHANGED <<kind, sent, task, read>>

\* Pangram works on the task in its own time.
TaskEnds ==
  /\ task = "made"
  /\ task' \in {"succeeded", "failed"}
  /\ UNCHANGED <<kind, pc, http, sent, left, usage, read, result>>

\* Fault: the deadline is not looked at.
MayPollAlways == TRUE
MayPoll == left > 0

PollOrGiveUp ==
  /\ pc = "wait"
  /\ \/ MayPoll /\ Request("poll") /\ UNCHANGED <<left, usage, result>>
     \/ ~MayPoll /\ Fails("polling_timeout", TRUE)
  /\ UNCHANGED <<kind, sent, task, read>>

\* The time of the requests and of the pause goes by before the next look.
PollDone(body) ==
  /\ Over("poll")
  /\ \/ http.seen = "timeout" /\ Fails("polling_timeout", TRUE)
     \/ http.seen \in {"connect", "broken"} /\ Fails("service_unavailable", TRUE)
     \/ http.seen \in DOMAIN StatusCode /\ Fails(StatusCode[http.seen], TRUE)
     \/ /\ http.seen = "ok"
        /\ \/ body = "bad" /\ \E ref \in BOOLEAN : Fails("invalid_response", ref)
           \/ body = "unreadable" /\ FailsUnexpectedly
           \/ body = "good" /\ task = "failed" /\ Fails("provider_failed", TRUE)
           \/ /\ body = "good" /\ task = "succeeded"
              /\ pc' = "report" /\ http' = NoHttp /\ left' = 0
              /\ UNCHANGED <<usage, result>>
           \/ /\ body = "good" /\ task = "made"
              /\ pc' = "wait" /\ http' = NoHttp
              /\ left' \in 0..Larger(left - 1, 0)
              /\ UNCHANGED <<usage, result>>
  /\ UNCHANGED <<kind, sent, task, read>>

\* sound: the fractions are numbers from 0 to 1 that sum to one, the version is
\* a Pangram 4, and the prediction and every window have the fields they must.
Usable(report) == report.sound /\ Mappable(Paragraphs, report)
ReadReport ==
  /\ pc = "report"
  /\ \E report \in Reports :
       /\ read' = [read EXCEPT !.report = report]
       /\ \/ /\ Usable(report)
             /\ End([NoResult EXCEPT !.code = "success", !.reference = TRUE,
                                     !.spans = ReportSpans(Paragraphs, report)], usage)
          \/ ~Usable(report) /\ Fails("invalid report", TRUE)
          \/ ~report.sound /\ FailsUnexpectedly
  /\ UNCHANGED <<kind, sent, task>>

-----------------------------------------------------------------------------
(* The rewrites.  An id is a passage; one message rewrites passage 1.      *)

Ids == IF kind = "rewrite" THEN 1..1 ELSE 1..Passages

\* A handler refuses a candidate that lost protected content, an original that
\* has gone, a first pass with no passage, and runs only with a key.
BeginRewrite ==
  /\ kind # "detection" /\ pc = "begin"
  /\ \/ Request("rewrite") /\ UNCHANGED <<left, usage, result>>
     \/ Fails("refused", FALSE)
  /\ UNCHANGED <<kind, sent, task, read>>

\* _deepseek_completion, unless it succeeds: its use is observed, except that a
\* body that is JSON but no object stops _response_usage before it can be.
Observed(op, status) == [usage EXCEPT ![op] = status]
CompletionFails(op, body) ==
  /\ Over(op) /\ op \in Completion
  /\ \/ /\ http.seen = "timeout"
        /\ End([NoResult EXCEPT !.code = "timed out"], Observed(op, "outcome_unknown"))
     \/ /\ http.seen \in {"connect", "broken"}
        /\ End([NoResult EXCEPT !.code = "unreachable"], Observed(op, "outcome_unknown"))
     \/ http.seen \in HttpStatus /\ body = "no object" /\ Fails("error", FALSE)
     \/ /\ http.seen \in DOMAIN StatusCode /\ body # "no object"
        /\ End([NoResult EXCEPT !.code = "provider"], Observed(op, "failed"))
     \/ /\ http.seen = "ok" /\ body = "bad"
        /\ End([NoResult EXCEPT !.code = "invalid"], Observed(op, "failed"))
  /\ UNCHANGED <<kind, sent, task, read>>

\* Every row is well formed and keeps the protected tokens of its passage; those
\* of a first pass are the passages, each once and in their order.
DraftValid(draft) ==
  /\ Len(draft) = Cardinality(Ids)
  /\ \A i \in DOMAIN draft : draft[i].valid /\ draft[i].kept
  /\ kind = "first pass" => \A i \in DOMAIN draft : draft[i].id = i

RewriteDone ==
  /\ Over("rewrite") /\ http.seen = "ok"
  /\ \E draft \in Drafts :
       /\ read' = [read EXCEPT !.draft = draft]
       /\ \/ DraftValid(draft) /\ Request("validation")
             /\ usage' = Observed("rewrite", "success") /\ UNCHANGED <<left, result>>
          \/ ~DraftValid(draft)
             /\ End([NoResult EXCEPT !.code = "invalid"], Observed("rewrite", "success"))
  /\ UNCHANGED <<kind, sent, task>>

\* A single rewrite passes unless facts are said to be added; an item of a first
\* pass has to say that none are.
Approves(item) ==
  /\ item.approved /\ item.meaning /\ item.protected
  /\ IF kind = "rewrite" THEN item.facts # "added" ELSE item.facts = "none"

VerdictValid(verdict) ==
  /\ Len(verdict) = Cardinality(Ids)
  /\ \A i \in DOMAIN verdict : verdict[i].issues
  /\ kind = "first pass" =>
       /\ \A i \in DOMAIN verdict : verdict[i].id \in Ids
       /\ \A i, j \in DOMAIN verdict : i # j => verdict[i].id # verdict[j].id

\* Fault: one approved item speaks for all.
PassesSome(verdict) == VerdictValid(verdict) /\ \E i \in DOMAIN verdict : Approves(verdict[i])
Passes(verdict) == VerdictValid(verdict) /\ \A i \in DOMAIN verdict : Approves(verdict[i])

\* A first pass leaves out the passages it did not change.
Changed(draft) ==
  LET upTo[n \in 0..Len(draft)] ==
        IF n = 0 THEN <<>>
        ELSE IF draft[n].changed THEN Append(upTo[n - 1], draft[n]) ELSE upTo[n - 1]
  IN  upTo[Len(draft)]
Kept(draft) == IF kind = "rewrite" THEN draft ELSE Changed(draft)

ValidationDone ==
  /\ Over("validation") /\ http.seen = "ok"
  /\ \E verdict \in Verdicts :
       /\ read' = [read EXCEPT !.verdict = verdict]
       /\ End(IF Passes(verdict) /\ Kept(read.draft) # <<>>
              THEN [NoResult EXCEPT !.code = "success", !.revisions = Kept(read.draft)]
              ELSE [NoResult EXCEPT !.code = "refused"],
              Observed("validation", "success"))
  /\ UNCHANGED <<kind, sent, task>>

-----------------------------------------------------------------------------
Body == {"good", "bad", "unreadable", "unlisted", "no object"}

Requests ==
  \/ BeginDetection \/ BeginRewrite
  \/ Send
  \/ \E seen \in Seen, asked \in After : Answer(seen, asked)
  \/ PollOrGiveUp

Readings ==
  \/ \E body \in Body : ModelsDone(body) \/ SubmitDone(body) \/ PollDone(body)
  \/ ReadReport \/ RewriteDone \/ ValidationDone
  \/ \E op \in Completion, body \in Body : CompletionFails(op, body)

Next == Requests \/ Readings \/ TaskEnds

\* The handler runs on, and httpx ends every request with an answer or an error:
\* a request that is over and a report that is there are read, which every step of
\* Readings, and no other, does by moving pc.  Pangram owes nothing: a task may be
\* pending for ever.
MovesOn == (http.state = "over" \/ pc = "report")
           /\ pc' \in (Op \cup {"wait", "report", "done"}) \ {pc}

Spec == Init /\ [][Next]_vars /\ WF_vars(Requests) /\ WF_pc(MovesOn)

-----------------------------------------------------------------------------
\* Every variable keeps its type.
TypeOK ==
  /\ kind \in Kind
  /\ pc \in Op \cup {"begin", "wait", "report", "done"}
  /\ http \in [state : {"off", "ready", "sent", "sleeping", "over"}, attempts : 0..2,
               attempt : 0..2, seen : Seen, delay : 0..MaxAfter]
  /\ sent \in [Paid -> 0..2]
  /\ task \in {"none", "made", "succeeded", "failed"}
  /\ left \in 0..MaxPoll
  /\ usage \in [Completion -> {"none", "reserved", "success", "failed", "outcome_unknown",
                               "cancelled"}]
  /\ DOMAIN result = {"code", "reference", "spans", "revisions"}

\* A text is submitted once and a completion asked for twice at most, and the code
\* of a failure is true: one that says nothing was submitted means it, a task is
\* referenced only if it exists, a task that exists is referenced unless the answer to
\* its submission was unclear or an answer of Pangram could not be read, and a success is
\* the task's own.
OneSubmission ==
  /\ sent["submit"] <= 1
  /\ \A o \in Completion : sent[o] <= 2
  /\ result.code \in {"not configured", "model_discovery_unavailable", "model_not_available"}
       => sent["submit"] = 0 /\ task = "none"
  /\ result.reference => task # "none"
  /\ pc = "done" /\ task # "none" /\ ~result.reference =>
       result.code \in {"submission_outcome_unknown", "service_unavailable", "invalid_response",
                       "provider_failed"}
  /\ kind = "detection" /\ result.code = "success" => task = "succeeded"

\* When a rewrite has ended both reservations are settled, one that was never sent
\* is cancelled, a validation is used only after a rewrite, and a success used both.
UsageSettled ==
  pc = "done" /\ kind # "detection" =>
    /\ \A o \in Completion :
         /\ usage[o] # "reserved"
         /\ sent[o] = 0 => usage[o] = "cancelled"
    /\ usage["validation"] # "cancelled" => usage["rewrite"] = "success"
    /\ result.code = "success" => usage["validation"] = "success"

\* What a rewrite returns keeps its protected tokens, and every passage of it was
\* approved in all four respects by an item of its own; a first pass returns each
\* changed passage once, in the order of the document.
ApprovedOnly ==
  kind # "detection" /\ result.code = "success" =>
    LET rows == result.revisions
    IN  /\ rows # <<>>
        /\ \A i \in DOMAIN rows :
             /\ rows[i].valid /\ rows[i].kept
             /\ \E j \in DOMAIN read.verdict :
                  LET item == read.verdict[j]
                  IN  /\ kind = "first pass" => item.id = rows[i].id
                      /\ item.approved /\ item.meaning /\ item.protected
                      /\ item.facts # "added"
        /\ kind = "first pass" =>
             \A i, j \in DOMAIN rows : i < j => rows[i].id < rows[j].id

\* The spans of a detection mark the characters that Pangram marked, all of them and
\* no others, whatever it did to the white space, and no two of them overlap.  A sound
\* report is refused only if it changed more than white space, if its windows are no
\* disjoint quotes of its text, or if one of them is all blank.
MarksTheSameText ==
  LET r == read.report
  IN  /\ kind = "detection" /\ result.code = "success" =>
           /\ MarkedHere(Paragraphs, result.spans) = MarkedByProvider(r)
           /\ \A s, t \in result.spans : s # t /\ s.paragraph = t.paragraph => Apart(s, t)
      /\ result.code = "invalid report" /\ r.sound
         /\ Normalized(DocumentText(Paragraphs), r.text) /\ WindowsValid(r.text, r.windows)
           => \E i \in DOMAIN r.windows : Content(Slice(r.text, r.windows[i])) = <<>>

\* Every call ends, even if its task never does.
CallsEnd == <>(pc = "done")
=============================================================================
