------------------------ MODULE ProviderClientProofs ------------------------
(***************************************************************************)
(* Proofs about one provider call.  TypeOK, OneSubmission and UsageSettled *)
(* are about what a call has ended with; the invariant says, for every     *)
(* place the call may be at before, what it has sent, whether Pangram may  *)
(* hold its task, and which reservations have been settled.  ApprovedOnly  *)
(* needs two facts about the data: that the changed rows stand in the      *)
(* draft at increasing places, and that the items of a verdict answer for  *)
(* the passages one to one.  MarksTheSameText rests on one fact about the  *)
(* operators of SpanMapping: between two boundaries and the boundaries     *)
(* they are mapped to, and between those and the paragraphs they fall in,  *)
(* there are the same characters that are not white space.                 *)
(***************************************************************************)
EXTENDS ProviderClient, TLAPS, WellFoundedInduction, FiniteSetTheorems, SequenceTheorems

\* A request under way: it has attempts left while it waits to be sent, and the
\* attempts at a paid request are what was sent of it.
Wire ==
  /\ pc \notin Op => http = NoHttp
  /\ pc \in Op =>
       /\ http.state # "off" /\ http.attempts = Attempts(pc)
       /\ http.attempt <= http.attempts
       /\ http.state = "ready" => http.attempt = 0
       /\ http.state = "sleeping" => http.attempt = 1 /\ http.attempts = 2
       /\ http.state \in {"sent", "over"} => http.attempt >= 1
  /\ pc \in Paid => sent[pc] = http.attempt

\* Pangram holds a task from the submission on, and only an answer that leaves it
\* open may hide it.
Detects ==
  kind = "detection" =>
    /\ pc \notin Completion
    /\ sent["submit"] <= 1 /\ \A o \in Completion : sent[o] = 0
    /\ pc \in {"begin", "models"} => sent["submit"] = 0 /\ task = "none"
    /\ pc = "submit" =>
         /\ http.state # "over" => task = "none"
         /\ http.state = "over" /\ http.seen = "ok" => task # "none"
         /\ http.state = "over" /\ task # "none" => http.seen \in Unclear \cup {"ok"}
    /\ pc \in {"wait", "poll"} => task # "none"
    /\ pc = "report" => task = "succeeded"

\* The validation is asked for after a rewrite whose use was observed.
Rewrites ==
  kind # "detection" =>
    /\ pc \in Completion \cup {"begin", "done"}
    /\ task = "none" /\ sent["submit"] = 0
    /\ pc = "begin" => sent["rewrite"] = 0
    /\ pc \in {"begin", "rewrite"} =>
         /\ usage["rewrite"] = "reserved" /\ usage["validation"] = "reserved"
         /\ sent["validation"] = 0
    /\ pc = "validation" =>
         /\ usage["rewrite"] = "success" /\ usage["validation"] = "reserved"
         /\ sent["rewrite"] # 0

Pending == pc # "done" => result.code = "none" /\ ~result.reference

IInv == TypeOK /\ Wire /\ Detects /\ Rewrites /\ Pending /\ OneSubmission /\ UsageSettled

\* A one-to-one function on 1..n reaches every number.
LEMMA OneToOne ==
  ASSUME NEW n \in Nat, NEW f, f \in Injection(1..n, 1..n)
  PROVE  \A p \in 1..n : \E j \in 1..n : f[j] = p
<1>1. IsFiniteSet(1..n)
  BY FS_Interval
<1>2. f \in Surjection(1..n, 1..n)
  BY <1>1, FS_Injection
<1> QED BY <1>2 DEF Surjection

\* As many items as passages, and no two of them about one passage: every passage has
\* an item of its own.
LEMMA ItemForEach ==
  ASSUME NEW m \in Nat, NEW v \in Seq(Item), Len(v) = m,
         \A i \in DOMAIN v : v[i].id \in 1..m,
         \A i, j \in DOMAIN v : i # j => v[i].id # v[j].id
  PROVE  \A p \in 1..m : \E j \in DOMAIN v : v[j].id = p
<1>1. DOMAIN v = 1..m
  OBVIOUS
<1>2. PICK g : g = [j \in 1..m |-> v[j].id]
  OBVIOUS
<1>3. \A i \in 1..m : g[i] = v[i].id /\ g[i] \in 1..m
  BY <1>1, <1>2
<1>4. g \in Injection(1..m, 1..m)
  <2>1. g \in [1..m -> 1..m]
    BY Zenon, <1>2, <1>3
  <2>2. ASSUME NEW i \in 1..m, NEW j \in 1..m, g[i] = g[j] PROVE i = j
    <3>1. v[i].id = v[j].id
      BY <1>3, <2>2
    <3> QED BY <1>1, <3>1
  <2> QED BY <2>1, <2>2 DEF Injection, IsInjective
<1>5. \A p \in 1..m : \E j \in 1..m : g[j] = p
  BY <1>4, OneToOne
<1> SUFFICES ASSUME NEW p \in 1..m PROVE \E j \in 1..m : v[j].id = p
  BY <1>1
<1>6. PICK j \in 1..m : g[j] = p
  BY <1>5
<1>7. v[j].id = p
  BY <1>3, <1>6
<1> QED BY <1>7

\* The domains and values TypeOK speaks of.
Fields == {"code", "reference", "spans", "revisions"}
Status == {"none", "reserved", "success", "failed", "outcome_unknown", "cancelled"}
Http   == [state : {"off", "ready", "sent", "sleeping", "over"}, attempts : 0..2,
           attempt : 0..2, seen : Seen, delay : 0..MaxAfter]
USE ClientAssumption DEF ClientAssumption

\* The codes of the statuses a provider refuses with: only a status of its own
\* failure leaves open whether it worked (_raise_for_provider_status).
LEMMA Codes ==
  ASSUME NEW s \in DOMAIN StatusCode
  PROVE  /\ s \in HttpStatus \ {"ok"}
         /\ StatusCode[s] \notin {"none", "success", "not configured",
                                  "model_discovery_unavailable", "model_not_available"}
         /\ s = "down" => StatusCode[s] = "service_unavailable"
         /\ s = "other" => StatusCode[s] = "provider_failed"
<1>1. s \in {"denied", "credit", "limited", "rejected", "down", "other"}
  BY DEF StatusCode
<1>2. CASE s = "denied"   BY <1>2 DEF StatusCode, HttpStatus
<1>3. CASE s = "credit"   BY <1>3 DEF StatusCode, HttpStatus
<1>4. CASE s = "limited"  BY <1>4 DEF StatusCode, HttpStatus, Retryable
<1>5. CASE s = "rejected" BY <1>5 DEF StatusCode, HttpStatus
<1>6. CASE s = "down"     BY <1>6 DEF StatusCode, HttpStatus, Retryable
<1>7. CASE s = "other"    BY <1>7 DEF StatusCode, HttpStatus
<1> QED BY <1>1, <1>2, <1>3, <1>4, <1>5, <1>6, <1>7

\* Cancelling what was not used leaves no reservation open and touches no other.
LEMMA Cancelling ==
  ASSUME NEW u \in [Completion -> Status]
  PROVE  /\ CancelUnused(u) \in [Completion -> Status]
         /\ \A o \in Completion :
              CancelUnused(u)[o] = IF u[o] = "reserved" THEN "cancelled" ELSE u[o]
BY DEF CancelUnused, Completion, Status

\* A request that is about to be sent is well formed.
LEMMA Requesting ==
  ASSUME NEW op \in Op, Request(op), TypeOK
  PROVE  /\ pc' = op /\ http' \in Http
         /\ http'.state = "ready" /\ http'.attempt = 0 /\ http'.attempts = Attempts(op)
<1>1. Attempts(op) \in 1..2
  BY DEF Attempts
<1>2. http' = [state |-> "ready", attempts |-> Attempts(op), attempt |-> 0, seen |-> "ok",
               delay |-> 0]
  BY DEF Request, NoHttp
<1>3. "ok" \in Seen /\ 0 \in 0..MaxAfter /\ pc' = op
  BY DEF Request, Seen, HttpStatus
<1> QED BY <1>1, <1>2, <1>3 DEF Http

\* No time is left outside the polling.
LEMMA Timeless == 0 \in 0..MaxPoll
OBVIOUS

\* The absence of a request has the type of one.
LEMMA NoHttpType == NoHttp \in Http
BY DEF NoHttp, Http, Seen, HttpStatus

-----------------------------------------------------------------------------
(* What is approved.  The changed rows are selected by a recursion over    *)
(* the draft: an induction over it finds them at increasing places of the  *)
(* draft.  The items of a verdict answer for the passages one to one.      *)

\* A set of numbers has a least one: the induction over data of these proofs.
LEMMA Least ==
  ASSUME NEW T, T \subseteq Nat, T # {}
  PROVE  \E m \in T : \A n \in T : m <= n
<1>1. PICK m \in T : \A n \in T : ~(<<n, m>> \in OpToRel(<, Nat))
  BY WFMin, NatLessThanWellFounded, Zenon
<1>2. \A n \in T : ~(n < m)
  BY <1>1 DEF OpToRel
<1> QED BY <1>2

\* What holds of 0, and of n + 1 where it holds of n, holds up to every L.
LEMMA UpTo ==
  ASSUME NEW T, NEW L \in Nat, 0 \in T, \A n \in 0..L : n \in T /\ n < L => n + 1 \in T
  PROVE  L \in T
<1> DEFINE Out == {n \in 0..L : n \notin T}
<1> SUFFICES ASSUME Out # {} PROVE FALSE
  OBVIOUS
<1>1. Out \subseteq Nat
  OBVIOUS
<1>2. PICK m \in Out : \A n \in Out : m <= n
  BY <1>1, Least
<1>3. m # 0 /\ m - 1 \in 0..L /\ m - 1 \notin Out
  BY <1>2
<1>4. m - 1 \in T /\ (m - 1) + 1 = m
  BY <1>3
<1> QED BY <1>3, <1>4

\* One step of the selection, from the rows selected before.
Select(d, g, n) == IF n = 0 THEN <<>>
                   ELSE IF d[n].changed THEN Append(g[n - 1], d[n]) ELSE g[n - 1]
Selects(d, g, L) == g = [n \in 0..L |-> Select(d, g, n)]

\* The recursion defines the rows selected up to every place.
LEMMA SelectionExists ==
  ASSUME NEW d, NEW L \in Nat
  PROVE  \E g : Selects(d, g, L)
<1> DEFINE T == {m \in 0..L : \E g : Selects(d, g, m)}
<1>1. 0 \in T
  <2> DEFINE g == [n \in 0..0 |-> <<>>]
  <2>1. Selects(d, g, 0)
    BY DEF Selects, Select
  <2> QED BY <2>1
<1>2. ASSUME NEW m \in 0..L, m \in T, m < L PROVE m + 1 \in T
  <2>1. PICK g : Selects(d, g, m)
    BY <1>2
  <2> DEFINE h == [n \in 0..(m + 1) |-> IF n = m + 1 THEN Select(d, g, n) ELSE g[n]]
  <2>2. ASSUME NEW n \in 0..(m + 1) PROVE h[n] = Select(d, h, n)
    <3>1. n # 0 => n - 1 \in 0..m /\ h[n - 1] = g[n - 1]
      OBVIOUS
    <3>2. Select(d, h, n) = Select(d, g, n)
      BY <3>1 DEF Select
    <3>3. n \in 0..m => g[n] = Select(d, g, n)
      BY <2>1 DEF Selects
    <3> QED BY <3>2, <3>3
  <2>3. Selects(d, h, m + 1)
    BY <2>2 DEF Selects
  <2> QED BY <1>2, <2>3
<1> HIDE DEF T
<1>3. L \in T
  BY <1>1, <1>2, UpTo
<1> QED BY <1>3 DEF T

\* The places of d at which the rows of k stand, in the order of d.
Places(d, k, n, at) ==
  /\ at \in [1..Len(k) -> 1..n]
  /\ \A i \in 1..Len(k) : k[i] = d[at[i]] /\ d[at[i]].changed
  /\ \A i, j \in 1..Len(k) : i < j => at[i] < at[j]

\* The changed rows of a draft stand in it, each once and in its order.
LEMMA ChangedStand ==
  ASSUME NEW d \in Seq(Row)
  PROVE  /\ Changed(d) \in Seq(Row)
         /\ \E at : Places(d, Changed(d), Len(d), at)
<1>1. Len(d) \in Nat
  OBVIOUS
<1>2. PICK g : Selects(d, g, Len(d)) /\ Changed(d) = g[Len(d)]
  <2>1. \E g : Selects(d, g, Len(d))
    BY <1>1, SelectionExists
  <2> QED BY <2>1 DEF Changed, Selects, Select
<1>3. \A n \in 0..Len(d) : g[n] = Select(d, g, n)
  BY <1>2 DEF Selects
<1> DEFINE T == {n \in 0..Len(d) : g[n] \in Seq(Row) /\ \E at : Places(d, g[n], n, at)}
<1>4. 0 \in T
  <2>1. g[0] = <<>>
    BY <1>1, <1>3 DEF Select
  <2>2. <<>> \in Seq(Row) /\ Len(<<>>) = 0
    OBVIOUS
  <2>3. PICK k \in Seq(Row) : k = <<>> /\ Len(k) = 0
    BY <2>2, Zenon
  <2>4. PICK at : at = [i \in 1..0 |-> 1]
    OBVIOUS
  <2>5. Places(d, k, 0, at)
    BY <2>3, <2>4 DEF Places
  <2>6. g[0] = k /\ 0 \in 0..Len(d)
    BY <1>1, <2>1, <2>3
  <2> QED BY <2>5, <2>6
<1>5. ASSUME NEW n \in 0..Len(d), n \in T, n < Len(d) PROVE n + 1 \in T
  <2>1. PICK at : Places(d, g[n], n, at)
    BY <1>5
  <2>2. PICK k \in Seq(Row) : k = g[n]
    BY <1>5
  <2>3. n + 1 \in 1..Len(d) /\ d[n + 1] \in Row
    BY <1>1, <1>5
  <2>4. CASE ~d[n + 1].changed
    <3>1. g[n + 1] = k
      BY <1>1, <1>3, <1>5, <2>2, <2>4 DEF Select
    <3>2. Places(d, k, n + 1, at)
      BY <1>5, <2>1, <2>2 DEF Places
    <3> QED BY <2>3, <3>1, <3>2
  <2>5. CASE d[n + 1].changed
    <3> DEFINE to == [i \in 1..(Len(k) + 1) |-> IF i = Len(k) + 1 THEN n + 1 ELSE at[i]]
    <3>1. PICK l : l = Append(k, d[n + 1])
      OBVIOUS
    <3>2. g[n + 1] = l
      <4>1. g[n + 1] = Select(d, g, n + 1) /\ n + 1 # 0 /\ (n + 1) - 1 = n
        BY <1>1, <1>3, <2>3
      <4> QED BY <2>2, <2>5, <3>1, <4>1 DEF Select
    <3>3. /\ l \in Seq(Row) /\ Len(l) = Len(k) + 1
          /\ \A i \in 1..Len(k) : l[i] = k[i]
          /\ l[Len(k) + 1] = d[n + 1]
      BY <2>2, <2>3, <3>1
    <3>4. Places(d, l, n + 1, to)
      <4>1. to \in [1..Len(l) -> 1..(n + 1)]
        <5>1. Len(k) \in Nat /\ at \in [1..Len(k) -> 1..n]
          BY <2>1, <2>2 DEF Places
        <5>2. \A i \in 1..(Len(k) + 1) : i = Len(k) + 1 \/ i \in 1..Len(k)
          BY <5>1
        <5>3. \A i \in 1..(Len(k) + 1) : to[i] \in 1..(n + 1)
          <6> SUFFICES ASSUME NEW i \in 1..(Len(k) + 1) PROVE to[i] \in 1..(n + 1)
            OBVIOUS
          <6>1. CASE i = Len(k) + 1
            BY <1>5, <6>1
          <6>2. CASE i # Len(k) + 1
            <7>1. i \in 1..Len(k) /\ to[i] = at[i]
              BY <5>2, <6>2
            <7>2. at[i] \in 1..n
              BY <5>1, <7>1
            <7> QED BY <1>5, <7>1, <7>2
          <6> QED BY <6>1, <6>2
        <5> QED BY <3>3, <5>3
      <4>2. \A i \in 1..Len(l) : l[i] = d[to[i]] /\ d[to[i]].changed
        BY <2>1, <2>2, <2>5, <3>3 DEF Places
      <4>3. ASSUME NEW i \in 1..Len(l), NEW j \in 1..Len(l), i < j PROVE to[i] < to[j]
        <5>1. Len(k) \in Nat /\ at \in [1..Len(k) -> 1..n]
          BY <2>1, <2>2 DEF Places
        <5>2. i \in 1..Len(k)
          BY <3>3, <4>3, <5>1
        <5>3. i \in 1..Len(k) /\ to[i] = at[i] /\ at[i] \in 1..n
          BY <5>1, <5>2
        <5>4. CASE j = Len(k) + 1
          <6>1. to[j] = n + 1
            BY <3>3, <5>4, <5>1
          <6> QED BY <1>1, <1>5, <5>3, <6>1
        <5>5. CASE j \in 1..Len(k)
          BY <2>1, <2>2, <4>3, <5>3, <5>5 DEF Places
        <5> QED BY <3>3, <5>4, <5>5
      <4> QED BY <4>1, <4>2, <4>3 DEF Places
    <3> QED BY <2>3, <3>2, <3>3, <3>4
  <2> QED BY <2>4, <2>5
<1> HIDE DEF T
<1>6. Len(d) \in T
  BY <1>1, <1>4, <1>5, UpTo
<1> QED BY <1>2, <1>6 DEF T

-----------------------------------------------------------------------------
\* Before the call begins nothing was sent, and nothing is known.
LEMMA Opens == Init => IInv
<1> SUFFICES ASSUME Init PROVE IInv OBVIOUS
<1> USE DEF Init
<1>1. TypeOK
  BY NoHttpType DEF TypeOK, Http, Op, Paid, Completion, NoResult
<1>2. Wire
  BY DEF Wire, Op, Paid, Completion
<1>3. \A o \in Paid : sent[o] = 0
  OBVIOUS
<1>4. kind # "detection" => usage["rewrite"] = "reserved" /\ usage["validation"] = "reserved"
  BY DEF Completion
<1>5. Detects
  BY <1>3 DEF Detects, Completion, Paid
<1>6. Rewrites
  BY <1>3, <1>4 DEF Rewrites, Completion, Paid
<1>7. Pending
  BY DEF Pending, NoResult
<1>8. OneSubmission /\ UsageSettled
  BY DEF OneSubmission, UsageSettled, NoResult, Paid, Completion
<1> QED BY <1>1, <1>2, <1>8, <1>5, <1>6, <1>7 DEF IInv

-----------------------------------------------------------------------------
\* What a step that asks for the next request owes: it is asked for for the first
\* time, and where its kind of call asks for it.
LEMMA Asks ==
  ASSUME IInv, pc # "done", NEW op \in Op, Request(op),
         UNCHANGED <<kind, sent, task, left, result>>, usage' \in [Completion -> Status],
         op \in Paid => sent[op] = 0,
         kind = "detection" =>
           /\ op \notin Completion
           /\ op \in {"models", "submit"} => sent["submit"] = 0 /\ task = "none"
           /\ op = "poll" => task # "none",
         kind # "detection" =>
           /\ op \in Completion /\ usage'["validation"] = "reserved"
           /\ op = "rewrite" => usage'["rewrite"] = "reserved" /\ sent["validation"] = 0
           /\ op = "validation" => usage'["rewrite"] = "success" /\ sent["rewrite"] # 0
  PROVE  IInv'
<1> USE DEF IInv
<1>1. /\ pc' = op /\ http' \in Http
      /\ http'.state = "ready" /\ http'.attempt = 0 /\ http'.attempts = Attempts(op)
  BY Requesting
<1>2. TypeOK'
  BY <1>1 DEF TypeOK, Http, Status
<1>3. Attempts(op) \in 1..2
  BY DEF Attempts
<1>4. Wire'
  BY <1>1, <1>3 DEF Wire, Op, Paid
<1>5. Detects'
  BY <1>1 DEF Detects, Op, Paid, Completion
<1>6. Rewrites'
  BY <1>1 DEF Rewrites, Op, Paid, Completion
<1>7. Pending' /\ UsageSettled'
  BY <1>1 DEF Pending, UsageSettled, Op, Paid, Completion
<1>8. OneSubmission'
  BY <1>1 DEF OneSubmission, Pending, Op, Paid, Completion
<1> QED BY <1>2, <1>4, <1>5, <1>6, <1>7, <1>8

\* What a step that ends the call owes: its code is true of what was submitted, and
\* a completion that was sent is settled as used before the rest is cancelled.
LEMMA Ends ==
  ASSUME IInv, UNCHANGED <<kind, sent, task>>,
         NEW res, NEW u \in [Completion -> Status], End(res, u), DOMAIN res = Fields,
         res.code \in {"not configured", "model_discovery_unavailable", "model_not_available"}
           => sent["submit"] = 0 /\ task = "none",
         res.reference => task # "none",
         task # "none" /\ ~res.reference =>
           res.code \in {"submission_outcome_unknown", "service_unavailable",
                        "invalid_response", "provider_failed"},
         kind = "detection" /\ res.code = "success" => task = "succeeded",
         kind # "detection" =>
           /\ \A o \in Completion : sent[o] = 0 => u[o] \in {"reserved", "cancelled"}
           /\ u["validation"] \notin {"reserved", "cancelled"} => u["rewrite"] = "success"
           /\ res.code = "success" => u["validation"] = "success"
  PROVE  IInv'
<1> USE DEF IInv
<1>1. /\ pc' = "done" /\ http' = NoHttp /\ left' = 0 /\ result' = res
      /\ usage' = CancelUnused(u)
  BY DEF End
<1>2. /\ usage' \in [Completion -> Status]
      /\ \A o \in Completion : usage'[o] = IF u[o] = "reserved" THEN "cancelled" ELSE u[o]
  BY <1>1, Cancelling
<1>3. TypeOK'
  <2>1. http' \in Http /\ DOMAIN result' = Fields
    BY <1>1, NoHttpType
  <2>2. left' \in 0..MaxPoll /\ pc' = "done"
    BY <1>1, Timeless
  <2> QED BY <1>2, <2>1, <2>2 DEF TypeOK, Http, Status, Fields
<1>4. Wire' /\ Pending'
  BY <1>1 DEF Wire, Pending, Op, Paid, Completion
<1>5. Detects'
  BY <1>1 DEF Detects, Completion
<1>6. Rewrites'
  BY <1>1 DEF Rewrites, Completion
<1>7. OneSubmission'
  <2>1. sent["submit"] <= 1
    BY DEF OneSubmission
  <2>2. \A o \in Completion : sent[o] <= 2
    BY DEF OneSubmission
  <2> QED BY <1>1, <2>1, <2>2 DEF OneSubmission
<1>8. UsageSettled'
  <2>1. "rewrite" \in Completion /\ "validation" \in Completion
    BY DEF Completion
  <2>2. kind # "detection" =>
          \A o \in Completion : usage'[o] # "reserved" /\ (sent[o] = 0 => usage'[o] = "cancelled")
    BY <1>2
  <2>3. kind # "detection" /\ usage'["validation"] # "cancelled" => usage'["rewrite"] = "success"
    BY <1>2, <2>1
  <2>4. kind # "detection" /\ res.code = "success" => usage'["validation"] = "success"
    BY <1>2, <2>1
  <2> QED BY <1>1, <2>2, <2>3, <2>4 DEF UsageSettled
<1> QED BY <1>3, <1>4, <1>5, <1>6, <1>7, <1>8

\* A call that fails without an observed use: what it says is true of the task.
LEMMA FailureEnds ==
  ASSUME IInv, UNCHANGED <<kind, sent, task>>, NEW c, NEW ref \in BOOLEAN, Fails(c, ref),
         c # "success", kind # "detection" => ~ref /\ pc \in Completion \cup {"begin"},
         c \in {"not configured", "model_discovery_unavailable", "model_not_available"}
           => sent["submit"] = 0 /\ task = "none",
         ref => task # "none",
         task # "none" /\ ~ref =>
           c \in {"submission_outcome_unknown", "service_unavailable", "invalid_response",
                  "provider_failed"}
  PROVE  IInv'
<1> USE DEF IInv
<1>1. PICK res : res = [NoResult EXCEPT !.code = c, !.reference = ref]
  OBVIOUS
<1>2. PICK u : u = usage
  OBVIOUS
<1>3. End(res, u)
  BY <1>1, <1>2 DEF Fails
<1>4. DOMAIN res = Fields /\ res.code = c /\ res.reference = ref
  BY <1>1 DEF NoResult, Fields
<1>5. u \in [Completion -> Status]
  BY <1>2 DEF TypeOK, Status
<1>6. "rewrite" \in Completion /\ "validation" \in Completion
  BY DEF Completion
<1>7. kind # "detection" =>
        /\ \A o \in Completion : sent[o] = 0 => u[o] \in {"reserved", "cancelled"}
        /\ u["validation"] \notin {"reserved", "cancelled"} => u["rewrite"] = "success"
  BY <1>2 DEF Rewrites, Completion
<1> QED BY <1>3, <1>4, <1>5, <1>7, Ends

\* A request that is over was sent.
LEMMA OverWasSent ==
  ASSUME IInv, NEW op \in Paid, Over(op)
  PROVE  sent[op] # 0
<1>1. sent[op] = http.attempt /\ http.attempt >= 1
  BY DEF IInv, Over, Wire, Op
<1>2. http.attempt \in Nat
  BY DEF IInv, TypeOK
<1> QED BY <1>1, <1>2

\* A rewrite that ends with an observed use of the completion it asked for.
LEMMA UseEnds ==
  ASSUME IInv, UNCHANGED <<kind, sent, task>>, NEW op \in Completion, Over(op),
         NEW st \in Status, NEW res, End(res, Observed(op, st)),
         DOMAIN res = Fields, ~res.reference,
         res.code \notin {"not configured", "model_discovery_unavailable",
                         "model_not_available"},
         res.code = "success" => op = "validation" /\ st = "success"
  PROVE  IInv'
<1> USE DEF IInv
<1>1. PICK u : u = Observed(op, st)
  OBVIOUS
<1>2. End(res, u)
  BY <1>1
<1>3. pc = op /\ http.state = "over" /\ kind # "detection"
  BY DEF Over, Detects
<1>4. sent[op] # 0
  BY OverWasSent DEF Paid
<1>5. u \in [Completion -> Status] /\ u[op] = st /\ \A o \in Completion \ {op} : u[o] = usage[o]
  BY <1>1 DEF Observed, TypeOK, Status
<1>6. /\ \A o \in Completion : sent[o] = 0 => u[o] \in {"reserved", "cancelled"}
      /\ u["validation"] \notin {"reserved", "cancelled"} => u["rewrite"] = "success"
  <2>1. CASE op = "rewrite"
    BY <1>3, <1>4, <1>5, <2>1 DEF Rewrites, Completion
  <2>2. CASE op = "validation"
    BY <1>3, <1>4, <1>5, <2>2 DEF Rewrites, Completion
  <2> QED BY <2>1, <2>2 DEF Completion
<1>7. res.code = "success" => u["validation"] = "success"
  BY <1>5
<1>8. task = "none"
  BY <1>3 DEF Rewrites
<1> QED BY <1>2, <1>3, <1>5, <1>6, <1>7, <1>8, Ends

-----------------------------------------------------------------------------
\* A request is sent once more: one attempt that it had left.
LEMMA SendKeeps == ASSUME IInv, Send PROVE IInv'
<1> USE DEF IInv
<1>1. pc \in Op /\ pc # "done" /\ http \in Http
  BY DEF Send, Wire, NoHttp, TypeOK, Http, Op, Paid, Completion
<1>2. http.attempt \in 0..2 /\ http.attempt + 1 <= http.attempts /\ http.attempts = Attempts(pc)
  BY <1>1 DEF Send, Wire, Http, Attempts
<1>3. Attempts(pc) \in 1..2 /\ (pc = "submit" => Attempts(pc) = 1)
  BY DEF Attempts
<1>4. PICK n \in 1..2 : n = http.attempt + 1
  BY <1>2, <1>3
<1>5. /\ http' \in Http
      /\ http'.state = "sent" /\ http'.attempt = n /\ http'.attempts = http.attempts
  <2>1. PICK h \in Http : h = http
    BY <1>1
  <2>2. http' = [h EXCEPT !.state = "sent", !.attempt = n, !.delay = 0]
    BY <1>4, <2>1 DEF Send
  <2>3. 0 \in 0..MaxAfter /\ n \in 0..2
    BY <1>4
  <2> QED BY <2>1, <2>2, <2>3 DEF Http
<1>6. /\ \A o \in Paid : sent'[o] = IF o = pc THEN n ELSE sent[o]
      /\ sent' \in [Paid -> 0..2]
  <2>1. \A o \in Paid : o = pc => sent[o] + 1 = n
    BY <1>1, <1>4 DEF Wire
  <2>2. sent' = [o \in Paid |-> IF o = pc THEN n ELSE sent[o]]
    BY <2>1 DEF Send
  <2> QED BY <2>2 DEF TypeOK
<1>7. UNCHANGED <<kind, pc, task, left, usage, read, result>>
  BY DEF Send
<1>8. TypeOK'
  BY <1>5, <1>6, <1>7 DEF TypeOK, Http
<1>9. Wire'
  BY <1>1, <1>2, <1>4, <1>5, <1>6, <1>7 DEF Wire
<1>10. n <= Attempts(pc)
  BY <1>2, <1>4
<1>11. Detects'
  BY <1>1, <1>3, <1>5, <1>6, <1>7, <1>10 DEF Detects, Send, Op, Paid, Completion
<1>12. Rewrites'
  BY <1>1, <1>6, <1>7 DEF Rewrites, Op, Paid, Completion
<1>13. Pending' /\ UsageSettled'
  BY <1>1, <1>7 DEF Pending, UsageSettled
<1>14. OneSubmission'
  <2>1. sent'["submit"] <= 1
    BY <1>1, <1>3, <1>6, <1>10 DEF OneSubmission, Paid
  <2>2. \A o \in Completion : sent'[o] <= 2
    BY <1>6 DEF Paid
  <2> QED BY <1>1, <1>7, <2>1, <2>2 DEF OneSubmission, Pending
<1> QED BY <1>8, <1>9, <1>11, <1>12, <1>13, <1>14

\* A wait is what was asked for or the backoff, within max_retry_after_seconds.
LEMMA DelayWithin ==
  ASSUME NEW asked \in After, asked <= MaxAfter, http.attempt = 1
  PROVE  Delay(asked) \in 0..MaxAfter
<1>1. Backoff[1] = 1
  BY DEF Backoff
<1>2. asked = -1 \/ asked \in 0..MaxAfter
  BY DEF After, NoHeader
<1> QED BY <1>1, <1>2 DEF Delay, Smaller, NoHeader

\* An answer, or none, ends the attempt: another follows only if one is left.
LEMMA AnswerKeeps ==
  ASSUME IInv, NEW seen \in Seen, NEW asked \in After, Answer(seen, asked)
  PROVE  IInv'
<1> USE DEF IInv
<1>1. pc \in Op /\ pc # "done" /\ http \in Http /\ http.state = "sent"
  BY DEF Answer, Wire, NoHttp, TypeOK, Http, Op, Paid, Completion
<1>2. /\ http.attempt \in 1..2 /\ http.attempts \in 1..2 /\ http.attempts = Attempts(pc)
      /\ http.attempt <= http.attempts
  BY <1>1 DEF Wire, Http, Attempts
<1>3. PICK h \in Http : h = http
  BY <1>1
<1>4. UNCHANGED <<kind, pc, sent, left, usage, read, result>>
  BY DEF Answer
<1>5. /\ http' \in Http /\ http'.attempt = http.attempt /\ http'.attempts = http.attempts
      /\ \/ http'.state = "sleeping" /\ http.attempt < http.attempts
         \/ http'.state = "over" /\ http'.seen = seen
  <2>1. CASE TriesAgain(seen, asked)
    <3>1. http.attempt < http.attempts /\ asked <= MaxAfter
      BY <2>1 DEF TriesAgain
    <3>2. http.attempt = 1
      BY <1>2, <3>1
    <3>3. PICK d \in 0..MaxAfter : d = Delay(asked)
      BY <3>1, <3>2, DelayWithin
    <3>4. http' = [h EXCEPT !.state = "sleeping", !.delay = d]
      BY <1>3, <2>1, <3>3 DEF Answer
    <3> QED BY <1>3, <3>1, <3>4 DEF Http
  <2>2. CASE ~TriesAgain(seen, asked)
    <3>1. http' = [h EXCEPT !.state = "over", !.seen = seen]
      BY <1>3, <2>2 DEF Answer
    <3> QED BY <1>3, <3>1 DEF Http
  <2> QED BY <2>1, <2>2
<1>6. /\ pc # "submit" => task' = task
      /\ pc = "submit" => task' \in {task, "made"}
      /\ pc = "submit" /\ seen = "ok" => task' = "made"
      /\ pc = "submit" /\ seen \notin Unclear \cup {"ok"} => task' = task
  <2>1. task' \in TaskAfter(seen)
    BY DEF Answer
  <2>2. CASE pc # "submit"
    BY <2>1, <2>2 DEF TaskAfter
  <2>3. CASE pc = "submit" /\ seen = "ok"
    BY <2>1, <2>3 DEF TaskAfter, Unclear
  <2>4. CASE pc = "submit" /\ seen \in Unclear
    BY <2>1, <2>4 DEF TaskAfter, Unclear
  <2>5. CASE pc = "submit" /\ seen \notin Unclear \cup {"ok"}
    BY <2>1, <2>5 DEF TaskAfter
  <2> QED BY <2>2, <2>3, <2>4, <2>5
<1>7. TypeOK'
  BY <1>4, <1>5, <1>6 DEF TypeOK, Http
<1>8. Wire'
  BY <1>1, <1>2, <1>4, <1>5 DEF Wire
<1>9. Detects'
  <2> SUFFICES ASSUME kind = "detection" PROVE Detects'
    BY <1>4 DEF Detects
  <2>1. CASE pc = "submit"
    <3>1. task = "none" /\ Attempts(pc) = 1
      BY <1>1, <2>1 DEF Detects, Attempts
    <3>2. http'.state = "over" /\ http'.seen = seen
      BY <1>2, <1>5, <3>1
    <3>3. /\ seen = "ok" => task' = "made"
          /\ task' # "none" => seen \in Unclear \cup {"ok"}
      BY <1>6, <2>1, <3>1
    <3> QED BY <1>4, <2>1, <3>2, <3>3 DEF Detects
  <2>2. CASE pc # "submit"
    BY <1>4, <1>6, <2>2 DEF Detects
  <2> QED BY <2>1, <2>2
<1>10. Rewrites'
  BY <1>4, <1>6 DEF Rewrites, Completion
<1>11. Pending' /\ UsageSettled'
  BY <1>1, <1>4 DEF Pending, UsageSettled
<1>12. OneSubmission'
  BY <1>1, <1>4 DEF OneSubmission, Pending
<1> QED BY <1>7, <1>8, <1>9, <1>10, <1>11, <1>12

\* Pangram ends a task that was made: what a report or a result says of it stands.
LEMMA TaskEndsKeeps == ASSUME IInv, TaskEnds PROVE IInv'
<1> USE DEF IInv, TaskEnds
<1>1. TypeOK' /\ Wire' /\ Pending' /\ UsageSettled'
  BY DEF TypeOK, Wire, Pending, UsageSettled
<1>2. Detects' /\ Rewrites'
  BY DEF Detects, Rewrites
<1>3. OneSubmission'
  BY DEF OneSubmission
<1> QED BY <1>1, <1>2, <1>3

-----------------------------------------------------------------------------
(* The detection.                                                          *)

\* A detection refuses before it asks for the models, or asks for them.
LEMMA BeginDetectionKeeps == ASSUME IInv, BeginDetection PROVE IInv'
<1> USE DEF IInv
<1>1. kind = "detection" /\ pc = "begin" /\ UNCHANGED <<kind, sent, task, read>>
  BY DEF BeginDetection
<1>2. sent["submit"] = 0 /\ task = "none"
  BY <1>1 DEF Detects
<1>3. CASE Request("models") /\ UNCHANGED <<left, usage, result>>
  <2>1. "models" \in Op /\ "models" \notin Paid /\ "models" \notin Completion
    BY DEF Op, Paid, Completion
  <2>2. usage' \in [Completion -> Status]
    BY <1>3 DEF TypeOK, Status
  <2> QED BY <1>1, <1>2, <1>3, <2>1, <2>2, Asks
<1>4. CASE Fails("not configured", FALSE)
  BY <1>1, <1>2, <1>4, FailureEnds
<1> QED BY <1>3, <1>4 DEF BeginDetection

\* The models lead to the one submission.
LEMMA ModelsDoneKeeps == ASSUME IInv, NEW body \in Body, ModelsDone(body) PROVE IInv'
<1> USE DEF IInv
<1>1. pc = "models" /\ UNCHANGED <<kind, sent, task, read>>
  BY DEF ModelsDone, Over
<1>2. kind = "detection" /\ sent["submit"] = 0 /\ task = "none"
  BY <1>1 DEF Detects, Rewrites, Completion
<1>3. CASE Fails("model_discovery_unavailable", FALSE) \/ Fails("model_not_available", FALSE)
           \/ Fails("invalid_response", FALSE) \/ FailsUnexpectedly
  BY <1>1, <1>2, <1>3, FailureEnds DEF FailsUnexpectedly
<1>4. CASE http.seen \in DOMAIN StatusCode /\ Fails(StatusCode[http.seen], FALSE)
  <2>1. PICK c : c = StatusCode[http.seen]
    OBVIOUS
  <2>2. Fails(c, FALSE) /\ c # "success"
    BY <1>4, <2>1, Codes
  <2> QED BY <1>1, <1>2, <2>2, FailureEnds
<1>5. CASE Request("submit") /\ UNCHANGED <<left, usage, result>>
  <2>1. "submit" \in Op /\ "submit" \notin Completion
    BY DEF Op, Paid, Completion
  <2>2. usage' \in [Completion -> Status]
    BY <1>5 DEF TypeOK, Status
  <2> QED BY <1>1, <1>2, <1>5, <2>1, <2>2, Asks
<1> QED BY <1>3, <1>4, <1>5 DEF ModelsDone

\* A text is submitted once: its outcome is known, or the code says that it is not.
LEMMA SubmitDoneKeeps == ASSUME IInv, NEW body \in Body, SubmitDone(body) PROVE IInv'
<1> USE DEF IInv
<1>1. pc = "submit" /\ http.state = "over" /\ UNCHANGED <<kind, sent, task, read>>
  BY DEF SubmitDone, Over
<1>2. /\ kind = "detection"
      /\ http.seen = "ok" => task # "none"
      /\ task # "none" => http.seen \in Unclear \cup {"ok"}
  BY <1>1 DEF Detects, Rewrites, Completion
<1>3. CASE http.seen \notin HttpStatus /\ Fails("submission_outcome_unknown", FALSE)
  BY <1>1, <1>2, <1>3, FailureEnds
<1>4. CASE http.seen \in DOMAIN StatusCode /\ Fails(StatusCode[http.seen], FALSE)
  <2>1. PICK c : c = StatusCode[http.seen]
    OBVIOUS
  <2>2. /\ Fails(c, FALSE) /\ http.seen \in HttpStatus \ {"ok"}
        /\ c \notin {"success", "not configured", "model_discovery_unavailable",
                    "model_not_available"}
        /\ http.seen = "down" => c = "service_unavailable"
        /\ http.seen = "other" => c = "provider_failed"
    BY <1>4, <2>1, Codes
  <2>3. task # "none" => http.seen \in {"down", "other"}
    BY <1>2, <2>2 DEF Unclear, HttpStatus, Retryable
  <2> QED BY <1>1, <1>2, <2>2, <2>3, FailureEnds
<1>5. CASE http.seen = "ok" /\ (Fails("invalid_response", FALSE) \/ FailsUnexpectedly)
  BY <1>1, <1>2, <1>5, FailureEnds DEF FailsUnexpectedly
<1>6. CASE /\ http.seen = "ok" /\ left' = MaxPoll /\ pc' = "wait" /\ http' = NoHttp
           /\ UNCHANGED <<usage, result>>
  <2>1. TypeOK'
    <3>1. left' \in 0..MaxPoll
      BY <1>6
    <3> QED BY <1>1, <1>6, <3>1, NoHttpType DEF TypeOK, Http
  <2>2. Wire' /\ Pending' /\ UsageSettled'
    BY <1>1, <1>6 DEF Wire, Pending, UsageSettled, Op, Paid, Completion
  <2>3. Detects' /\ Rewrites'
    BY <1>1, <1>2, <1>6 DEF Detects, Rewrites, Completion
  <2>4. OneSubmission'
    BY <1>1, <1>6 DEF OneSubmission, Pending
  <2> QED BY <2>1, <2>2, <2>3, <2>4
<1> QED BY <1>3, <1>4, <1>5, <1>6 DEF SubmitDone

\* A call that gives up keeps the reference of its task.
LEMMA PollOrGiveUpKeeps == ASSUME IInv, PollOrGiveUp PROVE IInv'
<1> USE DEF IInv
<1>1. pc = "wait" /\ UNCHANGED <<kind, sent, task, read>>
  BY DEF PollOrGiveUp
<1>2. kind = "detection" /\ task # "none"
  BY <1>1 DEF Detects, Rewrites, Completion
<1>3. CASE Request("poll") /\ UNCHANGED <<left, usage, result>>
  <2>1. "poll" \in Op /\ "poll" \notin Paid /\ "poll" \notin Completion
    BY DEF Op, Paid, Completion
  <2>2. usage' \in [Completion -> Status]
    BY <1>3 DEF TypeOK, Status
  <2> QED BY <1>1, <1>2, <1>3, <2>1, <2>2, Asks
<1>4. CASE Fails("polling_timeout", TRUE)
  BY <1>1, <1>2, <1>4, FailureEnds
<1> QED BY <1>3, <1>4 DEF PollOrGiveUp

\* From the submission on every failure names the task, unless the answer is unreadable.
LEMMA PollDoneKeeps == ASSUME IInv, NEW body \in Body, PollDone(body) PROVE IInv'
<1> USE DEF IInv
<1>1. pc = "poll" /\ UNCHANGED <<kind, sent, task, read>>
  BY DEF PollDone, Over
<1>2. kind = "detection" /\ task # "none"
  BY <1>1 DEF Detects, Rewrites, Completion
<1>3. CASE \/ Fails("polling_timeout", TRUE) \/ Fails("service_unavailable", TRUE)
           \/ Fails("provider_failed", TRUE)
           \/ \E ref \in BOOLEAN : Fails("invalid_response", ref)
           \/ FailsUnexpectedly
  BY <1>1, <1>2, <1>3, FailureEnds DEF FailsUnexpectedly
<1>4. CASE http.seen \in DOMAIN StatusCode /\ Fails(StatusCode[http.seen], TRUE)
  <2>1. PICK c : c = StatusCode[http.seen]
    OBVIOUS
  <2>2. /\ Fails(c, TRUE)
        /\ c \notin {"success", "not configured", "model_discovery_unavailable",
                    "model_not_available"}
    BY <1>4, <2>1, Codes
  <2> QED BY <1>1, <1>2, <2>2, FailureEnds
<1>5. CASE \E place \in {"wait", "report"} :
             /\ place = "report" => task = "succeeded"
             /\ pc' = place /\ http' = NoHttp /\ left' \in 0..MaxPoll
             /\ UNCHANGED <<usage, result>>
  <2>1. PICK place \in {"wait", "report"} :
             /\ place = "report" => task = "succeeded"
             /\ pc' = place /\ http' = NoHttp /\ left' \in 0..MaxPoll
             /\ UNCHANGED <<usage, result>>
    BY <1>5
  <2>2. TypeOK'
    BY <1>1, <2>1, NoHttpType DEF TypeOK, Http
  <2>3. Wire' /\ Pending' /\ UsageSettled'
    BY <1>1, <2>1 DEF Wire, Pending, UsageSettled, Op, Paid, Completion
  <2>4. Detects' /\ Rewrites'
    BY <1>1, <1>2, <2>1 DEF Detects, Rewrites, Completion
  <2>5. OneSubmission'
    BY <1>1, <2>1 DEF OneSubmission, Pending
  <2> QED BY <2>2, <2>3, <2>4, <2>5
<1>6. left \in 0..MaxPoll
  BY DEF TypeOK
<1>7. left' \in 0..Larger(left - 1, 0) => left' \in 0..MaxPoll
  BY <1>6 DEF Larger
<1>8. left' = 0 => left' \in 0..MaxPoll
  BY Timeless
<1> QED BY <1>3, <1>4, <1>5, <1>7, <1>8 DEF PollDone

\* A report is read of a task that succeeded.
LEMMA ReadReportKeeps == ASSUME IInv, ReadReport PROVE IInv'
<1> USE DEF IInv
<1>1. pc = "report" /\ UNCHANGED <<kind, sent, task>>
  BY DEF ReadReport
<1>2. kind = "detection" /\ task = "succeeded"
  BY <1>1 DEF Detects, Rewrites, Completion
<1>3. PICK u : u = usage
  OBVIOUS
<1>4. u \in [Completion -> Status]
  BY <1>3 DEF TypeOK, Status
<1>5. PICK report \in Reports :
        \/ End([NoResult EXCEPT !.code = "success", !.reference = TRUE,
                               !.spans = ReportSpans(Paragraphs, report)], u)
        \/ Fails("invalid report", TRUE) \/ FailsUnexpectedly
  BY <1>3 DEF ReadReport
<1>6. CASE Fails("invalid report", TRUE) \/ FailsUnexpectedly
  BY <1>1, <1>2, <1>6, FailureEnds DEF FailsUnexpectedly
<1>7. CASE End([NoResult EXCEPT !.code = "success", !.reference = TRUE,
                              !.spans = ReportSpans(Paragraphs, report)], u)
  <2>1. PICK res : res = [NoResult EXCEPT !.code = "success", !.reference = TRUE,
                                         !.spans = ReportSpans(Paragraphs, report)]
    OBVIOUS
  <2>2. DOMAIN res = Fields /\ res.code = "success" /\ res.reference
    BY <2>1 DEF NoResult, Fields
  <2>3. End(res, u)
    BY <1>7, <2>1
  <2> QED BY <1>1, <1>2, <1>4, <2>2, <2>3, Ends
<1> QED BY <1>5, <1>6, <1>7

-----------------------------------------------------------------------------
(* The rewrites.                                                           *)

\* A rewrite that is refused before it is sent cancels both reservations.
LEMMA BeginRewriteKeeps == ASSUME IInv, BeginRewrite PROVE IInv'
<1> USE DEF IInv
<1>1. kind # "detection" /\ pc = "begin" /\ UNCHANGED <<kind, sent, task, read>>
  BY DEF BeginRewrite
<1>2. /\ sent["submit"] = 0 /\ sent["rewrite"] = 0 /\ sent["validation"] = 0 /\ task = "none"
      /\ usage["rewrite"] = "reserved" /\ usage["validation"] = "reserved"
  BY <1>1 DEF Rewrites
<1>3. CASE Request("rewrite") /\ UNCHANGED <<left, usage, result>>
  <2>1. "rewrite" \in Op /\ "rewrite" \in Completion
    BY DEF Op, Paid, Completion
  <2>2. usage' \in [Completion -> Status]
    BY <1>3 DEF TypeOK, Status
  <2> QED BY <1>1, <1>2, <1>3, <2>1, <2>2, Asks
<1>4. CASE Fails("refused", FALSE)
  BY <1>1, <1>2, <1>4, FailureEnds
<1> QED BY <1>3, <1>4 DEF BeginRewrite

\* What is known of a use is observed; a body that is no object ends the call with the
\* use unobserved, and the reservation is cancelled although the request was sent.
LEMMA CompletionFailsKeeps ==
  ASSUME IInv, NEW op \in Completion, NEW body \in Body, CompletionFails(op, body)
  PROVE  IInv'
<1> USE DEF IInv
<1>1. Over(op) /\ UNCHANGED <<kind, sent, task, read>>
  BY DEF CompletionFails
<1>2. pc \in Completion /\ kind # "detection"
  BY <1>1 DEF Over, Detects
<1>3. task = "none"
  BY <1>2 DEF Rewrites
<1>4. CASE Fails("error", FALSE)
  BY <1>1, <1>2, <1>3, <1>4, FailureEnds
<1>5. CASE \E c \in {"timed out", "unreachable", "provider", "invalid"},
              st \in {"outcome_unknown", "failed"} :
             End([NoResult EXCEPT !.code = c], Observed(op, st))
  <2>1. PICK c \in {"timed out", "unreachable", "provider", "invalid"},
             st \in {"outcome_unknown", "failed"} :
             End([NoResult EXCEPT !.code = c], Observed(op, st))
    BY <1>5
  <2>2. PICK res : res = [NoResult EXCEPT !.code = c]
    OBVIOUS
  <2>3. DOMAIN res = Fields /\ res.code = c /\ res.reference = FALSE
    BY <2>2 DEF NoResult, Fields
  <2>4. End(res, Observed(op, st)) /\ st \in Status
    BY <2>1, <2>2 DEF Status
  <2> QED BY <1>1, <2>3, <2>4, UseEnds
<1> QED BY <1>4, <1>5 DEF CompletionFails

\* A draft that is valid is validated, after its own use was observed.
LEMMA RewriteDoneKeeps == ASSUME IInv, RewriteDone PROVE IInv'
<1> USE DEF IInv
<1>1. Over("rewrite") /\ pc = "rewrite" /\ UNCHANGED <<kind, sent, task>>
  BY DEF RewriteDone, Over
<1>2. "rewrite" \in Completion /\ "rewrite" \in Paid
  BY DEF Completion, Paid
<1>3. kind # "detection" /\ sent["rewrite"] # 0
  BY <1>1, <1>2, OverWasSent DEF Detects
<1>4. sent["validation"] = 0 /\ usage["validation"] = "reserved"
  BY <1>1, <1>3 DEF Rewrites
<1>5. \/ /\ Request("validation") /\ UNCHANGED <<left, result>>
         /\ usage' = Observed("rewrite", "success")
      \/ End([NoResult EXCEPT !.code = "invalid"], Observed("rewrite", "success"))
  BY DEF RewriteDone
<1>6. CASE /\ Request("validation") /\ UNCHANGED <<left, result>>
           /\ usage' = Observed("rewrite", "success")
  <2>1. /\ usage' \in [Completion -> Status] /\ usage'["rewrite"] = "success"
        /\ usage'["validation"] = "reserved"
    BY <1>4, <1>6 DEF Observed, TypeOK, Completion, Status
  <2>2. "validation" \in Op /\ "validation" \in Completion
    BY DEF Op, Paid, Completion
  <2> QED BY <1>1, <1>3, <1>4, <1>6, <2>1, <2>2, Asks
<1>7. CASE End([NoResult EXCEPT !.code = "invalid"], Observed("rewrite", "success"))
  <2>1. PICK res : res = [NoResult EXCEPT !.code = "invalid"]
    OBVIOUS
  <2>2. DOMAIN res = Fields /\ res.code = "invalid" /\ res.reference = FALSE
    BY <2>1 DEF NoResult, Fields
  <2>3. End(res, Observed("rewrite", "success")) /\ "success" \in Status
    BY <1>7, <2>1 DEF Status
  <2> QED BY <1>1, <1>2, <2>2, <2>3, UseEnds
<1> QED BY <1>5, <1>6, <1>7

\* The verdict settles the last reservation.
LEMMA ValidationDoneKeeps == ASSUME IInv, ValidationDone PROVE IInv'
<1> USE DEF IInv
<1>1. Over("validation") /\ UNCHANGED <<kind, sent, task>>
  BY DEF ValidationDone
<1>2. PICK res : /\ End(res, Observed("validation", "success"))
                 /\ \/ \E rows : res = [NoResult EXCEPT !.code = "success", !.revisions = rows]
                    \/ res = [NoResult EXCEPT !.code = "refused"]
  BY DEF ValidationDone
<1>3. DOMAIN res = Fields /\ res.code \in {"success", "refused"} /\ res.reference = FALSE
  BY <1>2 DEF NoResult, Fields
<1>4. "validation" \in Completion /\ "success" \in Status
  BY DEF Completion, Status
<1> QED BY <1>1, <1>2, <1>3, <1>4, UseEnds

-----------------------------------------------------------------------------
\* Every step keeps the invariant.
LEMMA Keeps == IInv /\ [Next]_vars => IInv'
<1> SUFFICES ASSUME IInv, [Next]_vars PROVE IInv'
  OBVIOUS
<1>1. CASE Requests
  BY <1>1, BeginDetectionKeeps, BeginRewriteKeeps, SendKeeps, AnswerKeeps, PollOrGiveUpKeeps
     DEF Requests
<1>2. CASE Readings
  BY <1>2, ModelsDoneKeeps, SubmitDoneKeeps, PollDoneKeeps, ReadReportKeeps, RewriteDoneKeeps,
     ValidationDoneKeeps, CompletionFailsKeeps
     DEF Readings
<1>3. CASE TaskEnds
  BY <1>3, TaskEndsKeeps
<1>4. CASE UNCHANGED vars
  <2>1. UNCHANGED <<kind, pc, http, sent, task, left, usage, read, result>>
    BY <1>4 DEF vars
  <2>2. TypeOK' /\ Wire' /\ Pending'
    BY <2>1 DEF IInv, TypeOK, Wire, Pending
  <2>3. Detects' /\ Rewrites'
    BY <2>1 DEF IInv, Detects, Rewrites
  <2>4. OneSubmission' /\ UsageSettled'
    BY <2>1 DEF IInv, OneSubmission, UsageSettled
  <2> QED BY <2>2, <2>3, <2>4 DEF IInv
<1> QED BY <1>1, <1>2, <1>3, <1>4 DEF Next

\* So it holds in every state.
LEMMA Invariant == Spec => []IInv
BY Opens, Keeps, PTL DEF Spec

\* The request, the task, the reservations and the result keep their shape.
THEOREM TypeCorrect == Spec => []TypeOK
<1>1. IInv => TypeOK
  BY DEF IInv
<1> QED BY <1>1, Invariant, PTL

\* A text is submitted at most once and a completion asked for twice, and what the code
\* of a failure says of the submission is true (PangramDetectorProvider.detect:
\* attempts=1, submission_outcome_unknown).
THEOREM SubmitsOnce == Spec => []OneSubmission
<1>1. IInv => OneSubmission
  BY DEF IInv
<1> QED BY <1>1, Invariant, PTL

\* A rewrite that has ended leaves none of its two reservations open, and cancels one
\* that was never sent (cancel_unused_reservations in the finally clauses).
THEOREM SettlesUsage == Spec => []UsageSettled
<1>1. IInv => UsageSettled
  BY DEF IInv
<1> QED BY <1>1, Invariant, PTL

-----------------------------------------------------------------------------
(* Whatever a rewrite returns was approved.                                *)

\* How many texts a call has sent.
LEMMA Counting ==
  /\ kind = "rewrite" => Ids = 1..1 /\ Cardinality(Ids) = 1
  /\ kind # "rewrite" => Ids = 1..Passages /\ Cardinality(Ids) = Passages
<1>1. Cardinality(1..1) = 1
  <2>1. 1..1 = {1}
    OBVIOUS
  <2> QED BY <2>1, FS_Singleton
<1>2. Passages \in Int /\ 1 \in Int /\ ~(1 > Passages)
  OBVIOUS
<1>3. Cardinality(1..Passages) = IF 1 > Passages THEN 0 ELSE Passages - 1 + 1
  BY <1>2, FS_Interval
<1>4. Cardinality(1..Passages) = Passages
  BY <1>2, <1>3
<1> QED BY <1>1, <1>4 DEF Ids

\* What is said of each item of a verdict that passes, and what it says of the rows.
Fine(item) == item.approved /\ item.meaning /\ item.protected /\ item.facts # "added"
Approved(rows, v, k) ==
  /\ \A i \in DOMAIN rows :
       /\ rows[i].valid /\ rows[i].kept
       /\ \E j \in DOMAIN v : Fine(v[j]) /\ (k = "first pass" => v[j].id = rows[i].id)
  /\ k = "first pass" => \A i, j \in DOMAIN rows : i < j => rows[i].id < rows[j].id

\* One item speaks for a single rewrite.
LEMMA PassedOne ==
  ASSUME NEW d \in Seq(Row), NEW v \in Seq(Item), Len(v) = 1,
         \A i \in DOMAIN d : d[i].valid /\ d[i].kept, \A i \in DOMAIN v : Fine(v[i])
  PROVE  Approved(d, v, "rewrite")
<1>1. 1 \in DOMAIN v
  BY DEF Fine
<1> QED BY <1>1 DEF Approved, Fine

\* The items of a first pass speak for its rows one to one.
LEMMA PassedFirst ==
  ASSUME NEW d \in Seq(Row), NEW v \in Seq(Item), Len(d) = Passages, Len(v) = Passages,
         \A i \in DOMAIN d : d[i].valid /\ d[i].kept, \A i \in DOMAIN d : d[i].id = i,
         \A i \in DOMAIN v : Fine(v[i]), \A i \in DOMAIN v : v[i].id \in 1..Passages,
         \A i, j \in DOMAIN v : i # j => v[i].id # v[j].id
  PROVE  Approved(Changed(d), v, "first pass")
<1> USE DEF Fine
<1>1. PICK rows, n, at : rows = Changed(d) /\ n = Passages /\ Places(d, rows, n, at)
  BY ChangedStand
<1>2. rows \in Seq(Row) /\ n \in Nat
  BY <1>1, ChangedStand
<1>3. DOMAIN rows = 1..Len(rows) /\ DOMAIN d = 1..n /\ DOMAIN v = 1..n
  BY <1>1, <1>2
<1>4. \A i \in 1..Len(rows) : at[i] \in 1..n /\ rows[i] = d[at[i]]
  BY <1>1 DEF Places
<1>5. \A i \in 1..Len(rows) : rows[i].valid /\ rows[i].kept /\ rows[i].id = at[i]
  BY <1>3, <1>4
<1>6. \A i \in 1..Len(rows) : \E j \in 1..n : v[j].id = rows[i].id
  <2>1. \A p \in 1..Passages : \E j \in DOMAIN v : v[j].id = p
    <3>1. Passages \in Nat
      OBVIOUS
    <3> QED BY Zenon, <3>1, ItemForEach
  <2>2. \A p \in 1..n : \E j \in 1..n : v[j].id = p
    BY <1>1, <1>3, <2>1
  <2> QED BY <1>4, <1>5, <2>2
<1>7. \A i, j \in 1..Len(rows) : i < j => at[i] < at[j]
  BY <1>1 DEF Places
<1>8. Approved(rows, v, "first pass")
  <2>1. \A i, j \in DOMAIN rows : i < j => rows[i].id < rows[j].id
    BY <1>3, <1>5, <1>7
  <2>2. \A i \in DOMAIN rows : /\ rows[i].valid /\ rows[i].kept
                               /\ \E j \in DOMAIN v : Fine(v[j]) /\ v[j].id = rows[i].id
    <3>1. \A i \in DOMAIN rows : rows[i].valid /\ rows[i].kept
      BY <1>3, <1>5
    <3>2. \A i \in DOMAIN rows : \E j \in DOMAIN v : v[j].id = rows[i].id
      BY <1>3, <1>6
    <3> HIDE DEF Fine
    <3>3. \A j \in DOMAIN v : Fine(v[j])
      OBVIOUS
    <3> QED BY Zenon, <3>1, <3>2, <3>3
  <2> QED BY <2>1, <2>2 DEF Approved
<1> QED BY <1>1, <1>8

\* What a valid draft is.
LEMMA ValidDraft ==
  ASSUME NEW d, DraftValid(d)
  PROVE  /\ \A i \in DOMAIN d : d[i].valid /\ d[i].kept
         /\ kind = "first pass" => Len(d) = Passages /\ \A i \in DOMAIN d : d[i].id = i
BY Counting DEF DraftValid

\* What a verdict that passes says of the passages.
LEMMA PassedVerdict ==
  ASSUME NEW v, Passes(v)
  PROVE  /\ \A i \in DOMAIN v : Fine(v[i])
         /\ kind = "rewrite" => Len(v) = 1
         /\ kind = "first pass" =>
              /\ Len(v) = Passages /\ \A i \in DOMAIN v : v[i].id \in 1..Passages
              /\ \A i, j \in DOMAIN v : i # j => v[i].id # v[j].id
<1>1. \A i \in DOMAIN v : Fine(v[i])
  BY DEF Passes, Approves, Fine
<1>2. VerdictValid(v)
  BY DEF Passes
<1> QED BY <1>1, <1>2, Counting DEF VerdictValid

\* So the rows that are kept of a draft that passed are approved.
LEMMA PassedRows ==
  ASSUME NEW d \in Seq(Row), DraftValid(d), NEW v \in Seq(Item), Passes(v),
         kind \in {"rewrite", "first pass"}
  PROVE  Approved(Kept(d), v, kind)
<1>1. /\ \A i \in DOMAIN d : d[i].valid /\ d[i].kept
      /\ kind = "first pass" => Len(d) = Passages /\ \A i \in DOMAIN d : d[i].id = i
  BY ValidDraft
<1>2. /\ \A i \in DOMAIN v : Fine(v[i])
      /\ kind = "rewrite" => Len(v) = 1
      /\ kind = "first pass" =>
           /\ Len(v) = Passages /\ \A i \in DOMAIN v : v[i].id \in 1..Passages
           /\ \A i, j \in DOMAIN v : i # j => v[i].id # v[j].id
  BY PassedVerdict
<1>3. CASE kind = "rewrite"
  <2>1. Kept(d) = d
    BY <1>3 DEF Kept
  <2>2. Approved(d, v, "rewrite")
    BY <1>1, <1>2, <1>3, PassedOne, Zenon
  <2> QED BY <1>3, <2>1, <2>2
<1>4. CASE kind = "first pass"
  <2>1. Kept(d) = Changed(d)
    BY <1>4 DEF Kept
  <2>2. Approved(Changed(d), v, "first pass")
    BY <1>1, <1>2, <1>4, PassedFirst, Zenon
  <2> QED BY <1>4, <2>1, <2>2
<1> QED BY <1>3, <1>4

\* What waits for its validation is a valid draft.
Drafted ==
  /\ DOMAIN read = {"report", "draft", "verdict"}
  /\ pc = "validation" => read.draft \in Drafts /\ DraftValid(read.draft)
Approval == Drafted /\ ApprovedOnly

\* A step that neither starts a validation nor ends one leaves it so.
LEMMA ApprovalStays ==
  ASSUME Approval, UNCHANGED <<kind, read>>, pc' = "validation" => pc = "validation",
         result' = result \/ result'.code # "success" \/ kind = "detection"
  PROVE  Approval'
<1>1. Drafted'
  BY DEF Approval, Drafted, DraftValid, Ids
<1>2. ApprovedOnly'
  <2>1. CASE result' = result
    BY <2>1 DEF Approval, ApprovedOnly
  <2>2. CASE result'.code # "success" \/ kind = "detection"
    BY <2>2 DEF ApprovedOnly
  <2> QED BY <2>1, <2>2
<1> QED BY <1>1, <1>2 DEF Approval

\* Nothing is returned and nothing drafted before the call begins.
LEMMA ApprovalOpens == Init => Approval
BY DEF Init, Approval, Drafted, ApprovedOnly, NoResult

\* A draft that is kept for its validation is a valid one.
LEMMA RewriteDoneApproval == ASSUME IInv, Approval, RewriteDone PROVE Approval'
<1>1. PICK draft \in Drafts :
        /\ read' = [read EXCEPT !.draft = draft]
        /\ \/ DraftValid(draft) /\ Request("validation") /\ UNCHANGED result
           \/ End([NoResult EXCEPT !.code = "invalid"], Observed("rewrite", "success"))
  BY DEF RewriteDone
<1>2. pc = "rewrite" /\ kind' = kind
  BY DEF RewriteDone, Over
<1>3. DOMAIN read' = {"report", "draft", "verdict"} /\ read'.draft = draft
  BY <1>1 DEF Approval, Drafted
<1>4. CASE DraftValid(draft) /\ Request("validation") /\ UNCHANGED result
  <2>1. Drafted'
    BY <1>1, <1>2, <1>3, <1>4 DEF Drafted, DraftValid, Ids
  <2>2. result'.code = "none"
    BY <1>2, <1>4 DEF IInv, Pending
  <2> QED BY <2>1, <2>2 DEF Approval, ApprovedOnly
<1>5. CASE End([NoResult EXCEPT !.code = "invalid"], Observed("rewrite", "success"))
  <2>1. pc' = "done" /\ result'.code = "invalid"
    BY <1>5 DEF End, NoResult
  <2> QED BY <1>3, <2>1 DEF Approval, Drafted, ApprovedOnly
<1> QED BY <1>1, <1>4, <1>5

\* A verdict that passes approved every revision it lets through.
LEMMA ValidationDoneApproval == ASSUME IInv, Approval, ValidationDone PROVE Approval'
<1>1. PICK verdict \in Verdicts :
        /\ read' = [read EXCEPT !.verdict = verdict]
        /\ End(IF Passes(verdict) /\ Kept(read.draft) # <<>>
               THEN [NoResult EXCEPT !.code = "success", !.revisions = Kept(read.draft)]
               ELSE [NoResult EXCEPT !.code = "refused"],
               Observed("validation", "success"))
  BY DEF ValidationDone
<1>2. pc = "validation" /\ kind' = kind
  BY DEF ValidationDone, Over
<1>3. /\ DOMAIN read' = {"report", "draft", "verdict"}
      /\ read'.draft = read.draft /\ read'.verdict = verdict
  BY <1>1 DEF Approval, Drafted
<1>4. pc' = "done"
  BY <1>1 DEF End
<1>5. Drafted'
  BY <1>3, <1>4 DEF Drafted
<1>6. CASE ~(Passes(verdict) /\ Kept(read.draft) # <<>>)
  <2>1. result'.code = "refused"
    BY <1>1, <1>6 DEF End, NoResult
  <2> QED BY <1>5, <2>1 DEF Approval, ApprovedOnly
<1>7. CASE Passes(verdict) /\ Kept(read.draft) # <<>>
  <2>1. PICK d \in Seq(Row) : d = read.draft /\ DraftValid(d)
    BY <1>2 DEF Approval, Drafted
  <2>2. PICK rows : rows = Kept(d) /\ rows # <<>>
    BY <1>7, <2>1
  <2>3. result'.revisions = rows
    BY <1>1, <1>7, <2>1, <2>2 DEF End, NoResult
  <2>4. PICK v \in Seq(Item) : v = verdict /\ Passes(v)
    BY <1>7
  <2>5. kind \in {"rewrite", "first pass"}
    BY <1>2 DEF IInv, TypeOK, Kind, Detects, Completion
  <2>6. Approved(Kept(d), v, kind)
    BY <2>1, <2>4, <2>5, PassedRows
  <2>7. PICK k : k = kind /\ k = kind' /\ Approved(rows, v, k)
    BY <1>2, <2>2, <2>6
  <2>8. Approved(result'.revisions, read'.verdict, kind') /\ result'.revisions # <<>>
    BY <1>3, <2>2, <2>3, <2>4, <2>7
  <2>9. ApprovedOnly'
    BY <2>8 DEF ApprovedOnly, Approved, Fine
  <2> QED BY <1>5, <2>9 DEF Approval
<1> QED BY <1>6, <1>7

\* Every step keeps it.
LEMMA ApprovalKept == ASSUME IInv, Approval, [Next]_vars PROVE Approval'
<1>1. CASE RewriteDone
  BY <1>1, RewriteDoneApproval
<1>2. CASE ValidationDone
  BY <1>2, ValidationDoneApproval
<1>3. CASE ReadReport
  <2>1. kind = "detection" /\ kind' = kind
    BY <1>3 DEF ReadReport, IInv, Rewrites, Completion
  <2>2. pc' = "done" /\ DOMAIN read' = DOMAIN read
    BY <1>3 DEF ReadReport, End, Fails, FailsUnexpectedly
  <2> QED BY <2>1, <2>2 DEF Approval, Drafted, ApprovedOnly
<1>4. CASE \/ BeginDetection \/ BeginRewrite \/ PollOrGiveUp
           \/ \E body \in Body : ModelsDone(body) \/ SubmitDone(body) \/ PollDone(body)
           \/ \E op \in Completion, body \in Body : CompletionFails(op, body)
  <2>1. UNCHANGED <<kind, read>>
    BY <1>4 DEF BeginDetection, BeginRewrite, PollOrGiveUp, ModelsDone, SubmitDone, PollDone,
                CompletionFails
  <2>2. kind = "detection" \/ result' = result \/ result'.code # "success"
    <3>1. CASE BeginRewrite
      BY <3>1 DEF BeginRewrite, Fails, End, NoResult
    <3>2. CASE \E op \in Completion, body \in Body : CompletionFails(op, body)
      BY <3>2 DEF CompletionFails, Fails, End, NoResult
    <3>3. CASE \/ BeginDetection \/ PollOrGiveUp
               \/ \E body \in Body : ModelsDone(body) \/ SubmitDone(body) \/ PollDone(body)
      BY <3>3 DEF IInv, Rewrites, Completion, BeginDetection, PollOrGiveUp, ModelsDone,
                  SubmitDone, PollDone, Over
    <3> QED BY <1>4, <3>1, <3>2, <3>3
  <2>3. pc' # "validation"
    BY <1>4 DEF BeginDetection, BeginRewrite, PollOrGiveUp, ModelsDone, SubmitDone, PollDone,
                CompletionFails, Request, Fails, FailsUnexpectedly, End
  <2> QED BY <2>1, <2>2, <2>3, ApprovalStays
<1>5. CASE \/ Send \/ TaskEnds \/ UNCHANGED vars
           \/ \E seen \in Seen, asked \in After : Answer(seen, asked)
  BY <1>5, ApprovalStays DEF Send, TaskEnds, Answer, vars
<1> QED BY <1>1, <1>2, <1>3, <1>4, <1>5 DEF Next, Requests, Readings

\* Every row a rewrite returns is well formed, keeps its protected tokens and was approved
\* by an item of its own in all four respects, and a first pass returns the changed
\* passages once and in their order (_deepseek_first_pass: the items are matched by id;
\* propose_first_pass_rewrites: the unchanged are left out).
THEOREM ReturnsApproved == Spec => []ApprovedOnly
<1>1. IInv /\ Approval /\ [Next]_vars => Approval'
  BY ApprovalKept
<1>2. Approval => ApprovedOnly
  BY DEF Approval
<1> QED BY ApprovalOpens, Invariant, <1>1, <1>2, PTL DEF Spec

\* The lemmas about texts cite what they need of the constants.
HIDE ClientAssumption DEF ClientAssumption

-----------------------------------------------------------------------------
(* Counting the characters that are not white space.                       *)

\* Up to a boundary there are at most as many as characters, and each character adds
\* itself or nothing.
LEMMA CountStep ==
  ASSUME NEW t
  PROVE  /\ ContentCount(t, 0) = 0
         /\ \A b \in Nat :
              /\ ContentCount(t, b) \in Nat
              /\ ContentCount(t, b + 1) = ContentCount(t, b) + (IF t[b + 1] # Space THEN 1 ELSE 0)
<1> DEFINE Solid(b) == {i \in 1..b : t[i] # Space}
<1>1. \A b : ContentCount(t, b) = Cardinality(Solid(b))
  BY DEF ContentCount
<1>2. Solid(0) = {}
  OBVIOUS
<1>3. ASSUME NEW b \in Nat
      PROVE  IsFiniteSet(Solid(b)) /\ Cardinality(Solid(b)) \in Nat
  <2>1. IsFiniteSet(1..b) /\ Solid(b) \in SUBSET (1..b)
    BY FS_Interval
  <2>2. IsFiniteSet(Solid(b))
    BY <2>1, FS_Subset
  <2> QED BY <2>2, FS_CardinalityType
<1>4. ASSUME NEW b \in Nat
      PROVE  Cardinality(Solid(b + 1)) =
               Cardinality(Solid(b)) + (IF t[b + 1] # Space THEN 1 ELSE 0)
  <2>1. CASE t[b + 1] # Space
    <3>1. Solid(b + 1) = Solid(b) \cup {b + 1} /\ b + 1 \notin Solid(b)
      BY <2>1
    <3> HIDE DEF Solid
    <3> QED BY <1>3, <2>1, <3>1, FS_AddElement
  <2>2. CASE t[b + 1] = Space
    <3>1. Solid(b + 1) = Solid(b)
      BY <2>2
    <3> HIDE DEF Solid
    <3>2. Cardinality(Solid(b)) + 0 = Cardinality(Solid(b))
      BY <1>3
    <3> QED BY <2>2, <3>1, <3>2
  <2> QED BY <2>1, <2>2
<1> HIDE DEF Solid
<1> QED BY <1>1, <1>2, <1>3, <1>4, FS_EmptySet

\* The count never falls, and rises at a character that is not white space.
LEMMA CountGrows ==
  ASSUME NEW t, NEW a \in Nat, NEW b \in Nat, a <= b
  PROVE  /\ ContentCount(t, a) <= ContentCount(t, b)
         /\ a < b /\ t[b] # Space => ContentCount(t, a) < ContentCount(t, b)
<1> DEFINE T == {m \in Nat : ContentCount(t, a) <= ContentCount(t, a + m)}
<1>1. 0 \in T
  <2>1. a + 0 = a /\ ContentCount(t, a) \in Nat
    BY CountStep
  <2>2. ContentCount(t, a) <= ContentCount(t, a + 0)
    BY <2>1
  <2> QED BY <2>2
<1>2. ASSUME NEW m \in Nat, m \in T PROVE m + 1 \in T
  <2>1. a + m \in Nat /\ a + (m + 1) = (a + m) + 1
    OBVIOUS
  <2>2. ContentCount(t, a) \in Nat /\ ContentCount(t, a + m) \in Nat
    BY <2>1, CountStep
  <2>3. ContentCount(t, (a + m) + 1) =
          ContentCount(t, a + m) + (IF t[(a + m) + 1] # Space THEN 1 ELSE 0)
    BY <2>1, CountStep
  <2>4. PICK c \in Nat : c = ContentCount(t, a + m)
    BY <2>2
  <2>5. ContentCount(t, a) <= c + 0 /\ ContentCount(t, a) <= c + 1
    BY <1>2, <2>2, <2>4
  <2>6. ContentCount(t, a) <= ContentCount(t, (a + m) + 1)
    BY <2>3, <2>4, <2>5
  <2> QED BY <2>1, <2>6
<1> HIDE DEF T
<1>3. \A m \in Nat : m \in T
  BY <1>1, <1>2, UpTo
<1>4. \A m \in Nat : ContentCount(t, a) <= ContentCount(t, a + m)
  BY <1>3 DEF T
<1>5. b - a \in Nat /\ a + (b - a) = b
  OBVIOUS
<1>6. ContentCount(t, a) <= ContentCount(t, b)
  BY <1>4, <1>5
<1>7. ASSUME a < b, t[b] # Space PROVE ContentCount(t, a) < ContentCount(t, b)
  <2>1. b - a - 1 \in Nat /\ a + (b - a - 1) = b - 1 /\ b - 1 \in Nat /\ (b - 1) + 1 = b
    BY <1>7
  <2>2. ContentCount(t, a) <= ContentCount(t, b - 1)
    BY <1>4, <2>1
  <2>3. ContentCount(t, b) = ContentCount(t, b - 1) + 1
    BY <1>7, <2>1, CountStep
  <2>4. ContentCount(t, a) \in Nat /\ ContentCount(t, b - 1) \in Nat
    BY <2>1, CountStep
  <2> QED BY <2>2, <2>3, <2>4
<1> QED BY <1>6, <1>7

\* The first m characters of u stand in t after the boundary s.
Stands(u, m, t, s) == \A j \in 1..m : u[j] = t[s + j]

\* Two texts that agree on a stretch count the same there.
LEMMA CountShift ==
  ASSUME NEW t, NEW u, NEW s \in Nat, NEW m \in Nat, Stands(u, m, t, s)
  PROVE  \A j \in 0..m : ContentCount(t, s + j) = ContentCount(t, s) + ContentCount(u, j)
<1> DEFINE T == {j \in 0..m : ContentCount(t, s + j) = ContentCount(t, s) + ContentCount(u, j)}
<1>1. 0 \in T
  <2>1. s + 0 = s /\ ContentCount(t, s) \in Nat /\ ContentCount(u, 0) = 0
    BY CountStep
  <2>2. ContentCount(t, s + 0) = ContentCount(t, s) + ContentCount(u, 0)
    BY <2>1
  <2> QED BY <2>2
<1>2. ASSUME NEW j \in 0..m, j \in T, j < m PROVE j + 1 \in T
  <2>1. s + j \in Nat /\ s + (j + 1) = (s + j) + 1 /\ j \in Nat /\ j + 1 \in 1..m
    BY <1>2
  <2>2. u[j + 1] = t[(s + j) + 1]
    BY <2>1 DEF Stands
  <2>3. /\ ContentCount(t, (s + j) + 1) =
             ContentCount(t, s + j) + (IF t[(s + j) + 1] # Space THEN 1 ELSE 0)
        /\ ContentCount(t, s) \in Nat /\ ContentCount(t, s + j) \in Nat
    BY <2>1, CountStep
  <2>4. /\ ContentCount(u, j + 1) = ContentCount(u, j) + (IF u[j + 1] # Space THEN 1 ELSE 0)
        /\ ContentCount(u, j) \in Nat
    BY <2>1, CountStep
  <2>5. ContentCount(t, s + j) = ContentCount(t, s) + ContentCount(u, j)
    BY <1>2
  <2>6. PICK c \in 0..1 : c = IF u[j + 1] # Space THEN 1 ELSE 0
    OBVIOUS
  <2>7. ContentCount(t, (s + j) + 1) = ContentCount(t, s) + (ContentCount(u, j) + c)
    BY <2>2, <2>3, <2>4, <2>5, <2>6
  <2>8. ContentCount(u, j + 1) = ContentCount(u, j) + c
    BY <2>4, <2>6
  <2> QED BY <2>1, <2>7, <2>8
<1> HIDE DEF T
<1>3. ASSUME NEW j \in 0..m PROVE j \in T
  <2>1. j \in Nat /\ \A n \in 0..j : n \in T /\ n < j => n + 1 \in T
    BY <1>2
  <2> QED BY <1>1, <2>1, UpTo
<1> QED BY <1>3 DEF T

\* Every number up to the count is the count at a character that is not white space.
LEMMA CountReaches ==
  ASSUME NEW t, NEW L \in Nat, NEW k \in 1..ContentCount(t, L)
  PROVE  \E i \in 1..L : t[i] # Space /\ ContentCount(t, i) = k
<1> DEFINE T == {i \in 0..L : ContentCount(t, i) >= k}
<1>1. T \subseteq Nat /\ L \in T
  BY CountStep
<1>2. PICK m \in T : \A n \in T : m <= n
  BY <1>1, Least
<1>3. m \in 1..L /\ m - 1 \in 0..L /\ m - 1 \in Nat /\ (m - 1) + 1 = m
  BY <1>2, CountStep
<1>4. ContentCount(t, m - 1) \in Nat /\ ContentCount(t, m - 1) < k
  BY <1>2, <1>3, CountStep
<1>5. ContentCount(t, m) = ContentCount(t, m - 1) + (IF t[m] # Space THEN 1 ELSE 0)
  BY <1>3, CountStep
<1>6. ContentCount(t, m) >= k
  BY <1>2
<1> HIDE DEF T
<1> QED BY <1>3, <1>4, <1>5, <1>6

\* The positions are those of the characters that are not white space, each once, in
\* order, and the count tells which of them lie before a boundary.
LEMMA ContentStands ==
  ASSUME NEW t, Len(t) \in Nat
  PROVE  /\ ContentCount(t, Len(t)) \in Nat
         /\ DOMAIN ContentAt(t) = 1..ContentCount(t, Len(t))
         /\ \A k \in 1..ContentCount(t, Len(t)) :
              /\ ContentAt(t)[k] \in 1..Len(t) /\ t[ContentAt(t)[k]] # Space
              /\ ContentCount(t, ContentAt(t)[k]) = k
              /\ \A b \in 0..Len(t) : ContentAt(t)[k] <= b <=> k <= ContentCount(t, b)
         /\ \A i \in 1..Len(t) : t[i] # Space =>
              /\ ContentCount(t, i) \in 1..ContentCount(t, Len(t))
              /\ ContentAt(t)[ContentCount(t, i)] = i
<1> DEFINE n == ContentCount(t, Len(t))
<1>1. n \in Nat /\ DOMAIN ContentAt(t) = 1..n
  BY CountStep DEF ContentAt
<1>2. ASSUME NEW k \in 1..n
      PROVE  ContentAt(t)[k] \in 1..Len(t) /\ t[ContentAt(t)[k]] # Space
             /\ ContentCount(t, ContentAt(t)[k]) = k
  <2>1. ContentAt(t)[k] = CHOOSE i \in 1..Len(t) : t[i] # Space /\ ContentCount(t, i) = k
    BY <1>2 DEF ContentAt
  <2>2. \E i \in 1..Len(t) : t[i] # Space /\ ContentCount(t, i) = k
    BY <1>2, CountReaches
  <2> HIDE DEF n
  <2> QED BY <2>1, <2>2
<1>3. ASSUME NEW k \in 1..n, NEW b \in 0..Len(t)
      PROVE  ContentAt(t)[k] <= b <=> k <= ContentCount(t, b)
  <2>1. PICK i \in 1..Len(t) : i = ContentAt(t)[k] /\ t[i] # Space /\ ContentCount(t, i) = k
    BY <1>2
  <2>2. i \in Nat /\ b \in Nat /\ ContentCount(t, b) \in Nat
    BY CountStep
  <2>3. i <= b => k <= ContentCount(t, b)
    BY <2>1, <2>2, CountGrows
  <2>4. b < i => ContentCount(t, b) < k
    BY <2>1, <2>2, CountGrows
  <2> QED BY <2>1, <2>2, <2>3, <2>4
<1>4. ASSUME NEW i \in 1..Len(t), t[i] # Space
      PROVE  ContentCount(t, i) \in 1..n /\ ContentAt(t)[ContentCount(t, i)] = i
  <2>1. /\ i \in Nat /\ 0 < i /\ i <= Len(t) /\ ContentCount(t, 0) = 0
        /\ ContentCount(t, i) \in Nat
    BY CountStep
  <2>2. 0 < ContentCount(t, i) /\ ContentCount(t, i) <= n
    BY <1>4, <2>1, CountGrows
  <2>3. PICK k \in 1..n : k = ContentCount(t, i)
    BY <1>1, <2>1, <2>2
  <2>4. PICK j \in 1..Len(t) : j = ContentAt(t)[k] /\ t[j] # Space /\ ContentCount(t, j) = k
    BY <1>2
  <2>5. j \in Nat /\ ~(i < j) /\ ~(j < i)
    BY <1>4, <2>1, <2>3, <2>4, CountGrows
  <2> QED BY <2>1, <2>3, <2>4, <2>5
<1> QED BY <1>1, <1>2, <1>3, <1>4

\* The content of a text is the characters at those positions.
LEMMA ContentIs ==
  ASSUME NEW t, Len(t) \in Nat
  PROVE  /\ Content(t) = [k \in 1..ContentCount(t, Len(t)) |-> t[ContentAt(t)[k]]]
         /\ Len(Content(t)) = ContentCount(t, Len(t))
         /\ Content(t) = <<>> <=> ContentCount(t, Len(t)) = 0
<1>1. PICK n \in Nat : n = ContentCount(t, Len(t))
  BY ContentStands
<1>2. Content(t) = [k \in 1..n |-> t[ContentAt(t)[k]]]
  BY <1>1, ContentStands DEF Content
<1>3. Len(Content(t)) = n
  BY <1>1, <1>2
<1>4. Content(t) = <<>> <=> n = 0
  <2>1. Content(t) = <<>> => Len(Content(t)) = 0
    OBVIOUS
  <2>2. ASSUME n = 0 PROVE Content(t) = <<>>
    BY <1>2, <2>2
  <2> QED BY <1>3, <2>1, <2>2
<1> QED BY <1>1, <1>2, <1>3, <1>4

\* The content of a slice is the part of the content between its two boundaries.
LEMMA SliceContent ==
  ASSUME NEW t \in Text, NEW r, r.start \in 0..Len(t), r.end \in r.start..Len(t)
  PROVE  Content(Slice(t, r)) =
           [k \in 1..(ContentCount(t, r.end) - ContentCount(t, r.start)) |->
              t[ContentAt(t)[ContentCount(t, r.start) + k]]]
<1>1. PICK s, e : s = r.start /\ e = r.end /\ s \in 0..Len(t) /\ e \in s..Len(t)
  OBVIOUS
<1>2. Len(t) \in Nat /\ s \in Nat /\ e \in Nat /\ e - s \in Nat
  BY <1>1 DEF Text
<1>3. PICK u : u = SubSeq(t, s + 1, e)
  OBVIOUS
<1>4. PICK m \in Nat : m = e - s /\ Len(u) = m /\ Stands(u, m, t, s)
  <2>1. s + 1 \in Int /\ \A i \in (s + 1)..e : t[i] \in Char
    BY <1>1, <1>2 DEF Text
  <2>2. /\ Len(u) = IF s + 1 <= e THEN e - (s + 1) + 1 ELSE 0
        /\ \A j \in 1..(e - (s + 1) + 1) : u[j] = t[(s + 1) + j - 1]
    BY <1>2, <1>3, <2>1, SubSeqProperties
  <2> QED BY <1>2, <2>2 DEF Stands
<1>5. \A j \in 0..m : ContentCount(t, s + j) = ContentCount(t, s) + ContentCount(u, j)
  BY <1>2, <1>4, CountShift
<1>6. PICK c \in Nat, d \in Nat : c = ContentCount(t, s) /\ d = ContentCount(t, e)
  BY <1>2, CountStep
<1>7. PICK n \in Nat : n = ContentCount(u, Len(u))
  BY <1>2, <1>4, CountStep
<1>8. n = d - c
  <2>1. m \in 0..m /\ s + m = e
    BY <1>2, <1>4
  <2>2. ContentCount(t, e) = ContentCount(t, s) + ContentCount(u, m)
    BY <1>5, <2>1
  <2> QED BY <1>4, <1>6, <1>7, <2>2
<1>9. ASSUME NEW k \in 1..n PROVE u[ContentAt(u)[k]] = t[ContentAt(t)[c + k]]
  <2>1. PICK j \in 1..m : j = ContentAt(u)[k] /\ u[j] # Space /\ ContentCount(u, j) = k
    <3>1. ContentAt(u)[k] \in 1..Len(u) /\ u[ContentAt(u)[k]] # Space
          /\ ContentCount(u, ContentAt(u)[k]) = k
      BY <1>4, <1>7, ContentStands
    <3> QED BY <1>4, <3>1
  <2>2. s + j \in 1..Len(t) /\ u[j] = t[s + j]
    BY <1>1, <1>2, <1>4 DEF Stands
  <2>3. ContentCount(t, s + j) = c + k
    BY <1>5, <1>6, <2>1
  <2>4. ContentAt(t)[c + k] = s + j
    <3>1. PICK y \in 1..Len(t) : y = s + j /\ t[y] # Space /\ ContentCount(t, y) = c + k
      BY <2>1, <2>2, <2>3
    <3>2. ContentAt(t)[ContentCount(t, y)] = y
      BY <1>2, <3>1, ContentStands
    <3> QED BY <3>1, <3>2
  <2> QED BY <2>1, <2>2, <2>4
<1>10. Content(u) = [k \in 1..n |-> u[ContentAt(u)[k]]]
  BY <1>2, <1>4, <1>7, ContentIs
<1>11. Content(u) = [k \in 1..(d - c) |-> t[ContentAt(t)[c + k]]]
  BY <1>8, <1>9, <1>10
<1>12. Slice(t, r) = u
  BY <1>1, <1>3 DEF Slice
<1> QED BY <1>1, <1>6, <1>11, <1>12

-----------------------------------------------------------------------------
(* The boundary map keeps the count of every boundary, and their order.    *)

\* A boundary lies in the gap after k characters when k are before it.
LEMMA Gap ==
  ASSUME NEW t, Len(t) \in Nat, NEW k \in 0..ContentCount(t, Len(t))
  PROVE  /\ GapStart(t, k) \in 0..Len(t) /\ GapEnd(t, k) \in 0..Len(t)
         /\ GapStart(t, k) <= GapEnd(t, k)
         /\ \A b \in 0..Len(t) :
              ContentCount(t, b) = k <=> GapStart(t, k) <= b /\ b <= GapEnd(t, k)
<1>1. PICK L \in Nat, n \in Nat : L = Len(t) /\ n = ContentCount(t, L)
  BY ContentStands
<1>2. k \in 0..n
  BY <1>1
<1>3. \A i \in 1..n : ContentAt(t)[i] \in 1..L
  BY <1>1, ContentStands
<1>4. GapStart(t, k) \in 0..L
  BY <1>1, <1>2, <1>3 DEF GapStart
<1>5. GapEnd(t, k) \in 0..L
  <2>1. CASE k = n
    BY <1>1, <2>1 DEF GapEnd
  <2>2. CASE k # n
    <3>1. k + 1 \in 1..n
      BY <1>2, <2>2
    <3> QED BY <1>1, <1>3, <2>2, <3>1 DEF GapEnd
  <2> QED BY <2>1, <2>2
<1>6. ASSUME NEW b \in 0..L
      PROVE  ContentCount(t, b) = k <=> GapStart(t, k) <= b /\ b <= GapEnd(t, k)
  <2>1. b \in Nat /\ ContentCount(t, b) \in Nat /\ ContentCount(t, b) <= n
    BY <1>1, CountStep, CountGrows
  <2>2. k <= ContentCount(t, b) <=> GapStart(t, k) <= b
    <3>1. CASE k = 0
      BY <2>1, <3>1 DEF GapStart
    <3>2. CASE k # 0
      <4>1. k \in 1..n
        BY <1>2, <3>2
      <4>2. ContentAt(t)[k] <= b <=> k <= ContentCount(t, b)
        BY <1>1, <4>1, ContentStands
      <4> QED BY <3>2, <4>2 DEF GapStart
    <3> QED BY <3>1, <3>2
  <2>3. ~(k + 1 <= ContentCount(t, b)) <=> b <= GapEnd(t, k)
    <3>1. CASE k = n
      BY <1>1, <2>1, <3>1 DEF GapEnd
    <3>2. CASE k # n
      <4>1. k + 1 \in 1..n
        BY <1>2, <3>2
      <4>2. ContentAt(t)[k + 1] <= b <=> k + 1 <= ContentCount(t, b)
        BY <1>1, <4>1, ContentStands
      <4>3. GapEnd(t, k) = ContentAt(t)[k + 1] - 1 /\ ContentAt(t)[k + 1] \in 1..L
        BY <1>1, <1>3, <3>2, <4>1 DEF GapEnd
      <4> QED BY <2>1, <4>2, <4>3
    <3> QED BY <3>1, <3>2
  <2>4. ContentCount(t, b) = k <=> k <= ContentCount(t, b) /\ ~(k + 1 <= ContentCount(t, b))
    BY <1>2, <2>1
  <2> QED BY <2>2, <2>3, <2>4
<1>7. ContentCount(t, GapStart(t, k)) = k
  <2>1. CASE k = 0
    BY <2>1, CountStep DEF GapStart
  <2>2. CASE k # 0
    <3>1. k \in 1..n
      BY <1>2, <2>2
    <3> QED BY <1>1, <2>2, <3>1, ContentStands DEF GapStart
  <2> QED BY <2>1, <2>2
<1>8. GapStart(t, k) <= GapEnd(t, k)
  BY <1>4, <1>6, <1>7
<1> QED BY <1>1, <1>4, <1>5, <1>6, <1>8

\* A product of naturals, and the order it keeps.
LEMMA Products ==
  ASSUME NEW a \in Nat, NEW b \in Nat, NEW w \in Nat, a <= b
  PROVE  a * w \in Nat /\ a * w <= b * w
OBVIOUS

\* Rounding stays between 0 and what it divides into, and keeps the order.
LEMMA RoundKeeps ==
  ASSUME NEW d \in Nat \ {0}, NEW w \in Nat, NEW m \in Nat, NEW n \in Nat, m <= n, n <= d * w
  PROVE  /\ Round(m, d) \in 0..w /\ Round(n, d) \in 0..w
         /\ Round(m, d) <= Round(n, d)
<1> DEFINE Up(q, r) == IF 2 * r > d \/ (2 * r = d /\ q % 2 = 1) THEN q + 1 ELSE q
<1>1. PICK q \in Nat, r \in 0..(d - 1) : q = m \div d /\ r = m % d /\ m = d * q + r
  OBVIOUS
<1>2. PICK p \in Nat, s \in 0..(d - 1) : p = n \div d /\ s = n % d /\ n = d * p + s
  OBVIOUS
<1>3. Round(m, d) = Up(q, r) /\ Round(n, d) = Up(p, s)
  BY <1>1, <1>2 DEF Round
<1>4. q <= p /\ (q = p => r <= s)
  BY <1>1, <1>2
<1>5. p <= w /\ (p = w => s = 0)
  BY <1>2
<1>6. Up(q, r) \in {q, q + 1} /\ Up(p, s) \in {p, p + 1}
  OBVIOUS
<1>7. Up(q, r) <= Up(p, s)
  BY <1>4
<1>8. Up(p, s) <= w
  BY <1>5
<1> HIDE DEF Up
<1> QED BY <1>3, <1>6, <1>7, <1>8

\* A text that was only normalised has as many characters that are not white space, and
\* the same.
LEMMA SameContent ==
  ASSUME NEW o \in Text, NEW r \in Text, Normalized(o, r)
  PROVE  /\ Len(o) \in Nat /\ Len(r) \in Nat
         /\ ContentCount(o, Len(o)) = ContentCount(r, Len(r))
         /\ \A k \in 1..ContentCount(r, Len(r)) : o[ContentAt(o)[k]] = r[ContentAt(r)[k]]
<1>1. Len(o) \in Nat /\ Len(r) \in Nat /\ Content(o) = Content(r)
  BY DEF Text, Normalized
<1>2. ContentCount(o, Len(o)) = ContentCount(r, Len(r))
  BY <1>1, ContentIs
<1>3. PICK n : n = ContentCount(r, Len(r))
  OBVIOUS
<1>4. ASSUME NEW k \in 1..n PROVE o[ContentAt(o)[k]] = r[ContentAt(r)[k]]
  <2>1. Content(o)[k] = o[ContentAt(o)[k]]
    BY <1>1, <1>2, <1>3, <1>4, ContentIs
  <2>2. Content(r)[k] = r[ContentAt(r)[k]]
    BY <1>1, <1>3, <1>4, ContentIs
  <2> QED BY <1>1, <2>1, <2>2
<1> QED BY <1>1, <1>2, <1>3, <1>4

\* Where a boundary of the gap after k characters goes.
Placed(o, r, k, b) ==
  IF b = GapEnd(r, k)
  THEN GapEnd(o, k)
  ELSE GapStart(o, k) + Round((b - GapStart(r, k)) * (GapEnd(o, k) - GapStart(o, k)),
                              GapEnd(r, k) - GapStart(r, k))

\* It goes to the gap after as many, and two boundaries of the gap keep their order.
LEMMA GapKeeps ==
  ASSUME NEW o \in Text, NEW r \in Text, Normalized(o, r),
         NEW k \in 0..ContentCount(r, Len(r)),
         NEW a \in GapStart(r, k)..GapEnd(r, k), NEW b \in a..GapEnd(r, k)
  PROVE  /\ Placed(o, r, k, a) \in GapStart(o, k)..GapEnd(o, k)
         /\ Placed(o, r, k, a) <= Placed(o, r, k, b)
<1>1. /\ Len(o) \in Nat /\ Len(r) \in Nat /\ k \in 0..ContentCount(o, Len(o))
  BY SameContent
<1>2. PICK from \in Nat, to \in Nat, width \in Nat :
        from = GapStart(o, k) /\ to = GapEnd(o, k) /\ width = to - from /\ from <= to
  <2>1. GapStart(o, k) \in Nat /\ GapEnd(o, k) \in Nat /\ GapStart(o, k) <= GapEnd(o, k)
    BY <1>1, Gap
  <2> QED BY <2>1
<1>3. PICK first \in Nat, last \in Nat : first = GapStart(r, k) /\ last = GapEnd(r, k)
  BY <1>1, Gap
<1>4. PICK x \in Nat, y \in Nat, gap \in Nat :
        x = a - first /\ y = b - first /\ gap = last - first /\ x <= y /\ y <= gap
  <2>1. a \in first..last /\ b \in a..last
    BY <1>3
  <2> QED BY <2>1
<1>5. /\ Placed(o, r, k, a) = IF x = gap THEN to ELSE from + Round(x * width, gap)
      /\ Placed(o, r, k, b) = IF y = gap THEN to ELSE from + Round(y * width, gap)
  <2>1. a \in Int /\ b \in Int
    BY <1>3
  <2>2. first \in Int /\ last \in Int
    BY <1>3
  <2>3. a = last <=> x = gap
    BY <1>4, <2>1, <2>2
  <2>4. b = last <=> y = gap
    BY <1>4, <2>1, <2>2
  <2> QED BY <1>2, <1>3, <1>4, <2>3, <2>4 DEF Placed
<1>6. CASE x = gap
  BY <1>2, <1>4, <1>5, <1>6
<1>7. CASE x # gap
  <2>1. gap \in Nat \ {0}
    BY <1>2, <1>4, <1>7
  <2>2. x * width \in Nat /\ y * width \in Nat /\ x * width <= y * width /\ y * width <= gap * width
    BY <1>4, Products
  <2>3. PICK m \in Nat, n \in Nat : m = x * width /\ n = y * width /\ m <= n /\ n <= gap * width
    BY <2>2
  <2>4. PICK c \in 0..width, d \in 0..width : c = Round(m, gap) /\ d = Round(n, gap) /\ c <= d
    <3>1. Round(m, gap) \in 0..width /\ Round(n, gap) \in 0..width /\ Round(m, gap) <= Round(n, gap)
      BY <2>1, <2>3, RoundKeeps
    <3> QED BY <3>1
  <2>5. Placed(o, r, k, a) = from + c /\ Placed(o, r, k, b) \in {to, from + d}
    BY <1>5, <1>7, <2>3, <2>4
  <2>6. from + c \in from..to /\ from + c <= to /\ from + c <= from + d
    <3>1. width = to - from /\ from <= to
      BY <1>2
    <3>2. c <= d
      BY <2>4
    <3> QED BY <3>1, <3>2
  <2> QED BY <1>2, <2>5, <2>6
<1> QED BY <1>6, <1>7

\* Whatever was done to the white space, a boundary of the returned text is mapped to one of
\* the text that was sent with as many characters before it, and two keep their order
\* (_whitespace_normalization_boundary_map).
THEOREM MapKeeps ==
  ASSUME NEW o \in Text, NEW r \in Text, Normalized(o, r),
         NEW a \in 0..Len(r), NEW b \in a..Len(r)
  PROVE  /\ BoundaryMap(o, r)[a] \in 0..Len(o)
         /\ ContentCount(o, BoundaryMap(o, r)[a]) = ContentCount(r, a)
         /\ BoundaryMap(o, r)[a] <= BoundaryMap(o, r)[b]
<1>1. Len(o) \in Nat /\ Len(r) \in Nat /\ a \in Nat /\ b \in Nat /\ b \in 0..Len(r)
  BY SameContent
<1>2. CASE r = o
  BY <1>1, <1>2 DEF BoundaryMap
<1>3. CASE r # o
  <2>1. PICK k \in Nat, l \in Nat :
          /\ k = ContentCount(r, a) /\ l = ContentCount(r, b) /\ k <= l
          /\ l <= ContentCount(r, Len(r))
    <3>1. ContentCount(r, a) \in Nat /\ ContentCount(r, b) \in Nat
      BY <1>1, CountStep
    <3>2. ContentCount(r, a) <= ContentCount(r, b) /\ ContentCount(r, b) <= ContentCount(r, Len(r))
      BY <1>1, CountGrows
    <3> QED BY <3>1, <3>2
  <2>2. /\ BoundaryMap(o, r)[a] = Placed(o, r, k, a)
        /\ BoundaryMap(o, r)[b] = Placed(o, r, l, b)
    <3>1. BoundaryMap(o, r) = [c \in 0..Len(r) |-> Placed(o, r, ContentCount(r, c), c)]
      BY Zenon, <1>3 DEF BoundaryMap, Placed
    <3> QED BY <1>1, <2>1, <3>1
  <2>3. /\ ContentCount(r, Len(r)) \in Nat /\ ContentCount(o, Len(o)) = ContentCount(r, Len(r))
        /\ k \in 0..ContentCount(r, Len(r)) /\ l \in 0..ContentCount(r, Len(r))
    <3>1. ContentCount(o, Len(o)) = ContentCount(r, Len(r))
      BY SameContent
    <3>2. ContentCount(r, Len(r)) \in Nat
      BY <1>1, CountStep
    <3> QED BY <2>1, <3>1, <3>2
  <2>4. a \in GapStart(r, k)..GapEnd(r, k) /\ b \in GapStart(r, l)..GapEnd(r, l)
    <3>1. GapStart(r, k) \in Nat /\ GapEnd(r, k) \in Nat /\ GapStart(r, k) <= a /\ a <= GapEnd(r, k)
      BY <1>1, <2>1, <2>3, Gap
    <3>2. GapStart(r, l) \in Nat /\ GapEnd(r, l) \in Nat /\ GapStart(r, l) <= b /\ b <= GapEnd(r, l)
      BY <1>1, <2>1, <2>3, Gap
    <3> QED BY <1>1, <3>1, <3>2
  <2>5. /\ GapStart(r, k) \in Int /\ GapEnd(r, k) \in Int
        /\ GapStart(r, l) \in Int /\ GapEnd(r, l) \in Int
    BY <1>1, <2>3, Gap
  <2>6. /\ Placed(o, r, k, a) \in GapStart(o, k)..GapEnd(o, k)
        /\ Placed(o, r, l, b) \in GapStart(o, l)..GapEnd(o, l)
    <3>1. a \in a..GapEnd(r, k) /\ b \in b..GapEnd(r, l)
      BY <1>1, <2>4, <2>5
    <3> QED BY <2>3, <2>4, <3>1, GapKeeps
  <2>7. /\ Placed(o, r, k, a) \in 0..Len(o) /\ ContentCount(o, Placed(o, r, k, a)) = k
        /\ Placed(o, r, l, b) \in 0..Len(o) /\ ContentCount(o, Placed(o, r, l, b)) = l
    <3>1. /\ GapStart(o, k) \in 0..Len(o) /\ GapEnd(o, k) \in 0..Len(o)
          /\ GapStart(o, l) \in 0..Len(o) /\ GapEnd(o, l) \in 0..Len(o)
      BY <1>1, <2>3, Gap
    <3>2. Placed(o, r, k, a) \in 0..Len(o) /\ Placed(o, r, l, b) \in 0..Len(o)
      BY <1>1, <2>6, <3>1
    <3>3. /\ GapStart(o, k) <= Placed(o, r, k, a) /\ Placed(o, r, k, a) <= GapEnd(o, k)
          /\ GapStart(o, l) <= Placed(o, r, l, b) /\ Placed(o, r, l, b) <= GapEnd(o, l)
      BY <2>6, <3>1
    <3> QED BY <1>1, <2>3, <3>2, <3>3, Gap
  <2>8. Placed(o, r, k, a) <= Placed(o, r, l, b)
    <3>1. CASE k = l
      <4>1. b \in a..GapEnd(r, k)
        BY <1>1, <2>4, <2>5, <3>1
      <4> QED BY <2>3, <2>4, <3>1, <4>1, GapKeeps
    <3>2. CASE k # l
      <4>1. PICK c \in Nat, d \in Nat : c = Placed(o, r, k, a) /\ d = Placed(o, r, l, b)
        BY <1>1, <2>7
      <4>2. ~(d <= c)
        BY <2>1, <2>7, <3>2, <4>1, CountGrows
      <4> QED BY <4>1, <4>2
    <3> QED BY <3>1, <3>2
  <2> QED BY <2>1, <2>2, <2>7, <2>8
<1> QED BY <1>2, <1>3

-----------------------------------------------------------------------------
(* The windows, moved to the text that was sent.                           *)

\* A valid report on a text that was only normalised.
Readable(o, r, ws) ==
  o \in Text /\ r \in Text /\ ws \in Seq(Window) /\ Normalized(o, r) /\ WindowsValid(r, ws)

\* The bounds of a window move with the boundary map.
LEMMA Remapped ==
  ASSUME NEW o, NEW r, NEW ws, Readable(o, r, ws)
  PROVE  /\ DOMAIN Remap(o, r, ws) = DOMAIN ws
         /\ \A i \in DOMAIN ws :
              /\ Remap(o, r, ws)[i].start = BoundaryMap(o, r)[ws[i].start]
              /\ Remap(o, r, ws)[i].end = BoundaryMap(o, r)[ws[i].end]
              /\ Remap(o, r, ws)[i].risk = ws[i].risk
              /\ ws[i].start \in 0..Len(r) /\ ws[i].end \in ws[i].start..Len(r)
              /\ ws[i].start < ws[i].end
<1>1. DOMAIN Remap(o, r, ws) = DOMAIN ws
  BY DEF Remap
<1>2. ASSUME NEW i \in DOMAIN ws
      PROVE  /\ Remap(o, r, ws)[i].start = BoundaryMap(o, r)[ws[i].start]
             /\ Remap(o, r, ws)[i].end = BoundaryMap(o, r)[ws[i].end]
             /\ Remap(o, r, ws)[i].risk = ws[i].risk
             /\ ws[i].start \in 0..Len(r) /\ ws[i].end \in ws[i].start..Len(r)
             /\ ws[i].start < ws[i].end
  <2>1. ws[i] \in Window /\ InRange(r, ws[i])
    BY DEF Readable, WindowsValid
  <2>2. Remap(o, r, ws)[i] =
          [ws[i] EXCEPT !.start = BoundaryMap(o, r)[@], !.end = BoundaryMap(o, r)[@]]
    BY DEF Remap
  <2>3. Len(r) \in Nat /\ ws[i].start \in Int /\ ws[i].end \in Int
    BY <2>1 DEF Readable, Text, Window
  <2>4. 0 <= ws[i].start /\ ws[i].start < ws[i].end /\ ws[i].end <= Len(r)
    BY <2>1 DEF InRange
  <2>5. PICK w \in Window : w = ws[i]
    BY <2>1
  <2>6. w = [start |-> w.start, end |-> w.end, risk |-> w.risk, exact |-> w.exact]
    BY DEF Window
  <2>7. /\ Remap(o, r, ws)[i].start = BoundaryMap(o, r)[w.start]
        /\ Remap(o, r, ws)[i].end = BoundaryMap(o, r)[w.end]
        /\ Remap(o, r, ws)[i].risk = w.risk
    BY <2>2, <2>5, <2>6
  <2> QED BY <2>3, <2>4, <2>5, <2>7
<1> QED BY <1>1, <1>2

\* A moved window lies in the text, between the same characters.
LEMMA WindowStays ==
  ASSUME NEW o, NEW r, NEW ws, Readable(o, r, ws), NEW i \in DOMAIN ws
  PROVE  /\ Remap(o, r, ws)[i].start \in 0..Len(o)
         /\ Remap(o, r, ws)[i].end \in Remap(o, r, ws)[i].start..Len(o)
         /\ ContentCount(o, Remap(o, r, ws)[i].start) = ContentCount(r, ws[i].start)
         /\ ContentCount(o, Remap(o, r, ws)[i].end) = ContentCount(r, ws[i].end)
<1>1. o \in Text /\ r \in Text /\ Normalized(o, r)
  BY DEF Readable
<1>2. Len(o) \in Nat /\ Len(r) \in Nat
  BY <1>1, SameContent
<1>3. PICK a, b : /\ a = ws[i].start /\ b = ws[i].end
                  /\ a \in 0..Len(r) /\ b \in a..Len(r)
  BY Remapped
<1>4. b \in 0..Len(r) /\ b \in b..Len(r)
  BY <1>2, <1>3
<1>5. /\ BoundaryMap(o, r)[a] \in 0..Len(o) /\ BoundaryMap(o, r)[b] \in 0..Len(o)
      /\ BoundaryMap(o, r)[a] <= BoundaryMap(o, r)[b]
      /\ ContentCount(o, BoundaryMap(o, r)[a]) = ContentCount(r, a)
      /\ ContentCount(o, BoundaryMap(o, r)[b]) = ContentCount(r, b)
  BY <1>1, <1>3, <1>4, MapKeeps
<1>6. BoundaryMap(o, r)[b] \in BoundaryMap(o, r)[a]..Len(o)
  BY <1>2, <1>5
<1> QED BY <1>3, <1>5, <1>6, Remapped

\* A moved window has the content of the window.
LEMMA WindowSame ==
  ASSUME NEW o, NEW r, NEW ws, Readable(o, r, ws), NEW i \in DOMAIN ws
  PROVE  Content(Slice(o, Remap(o, r, ws)[i])) = Content(Slice(r, ws[i]))
<1>1. o \in Text /\ r \in Text /\ Normalized(o, r) /\ Len(o) \in Nat /\ Len(r) \in Nat
  BY SameContent DEF Readable
<1>2. PICK w, v : /\ w = Remap(o, r, ws)[i] /\ v = ws[i]
                  /\ w.start \in 0..Len(o) /\ w.end \in w.start..Len(o)
                  /\ v.start \in 0..Len(r) /\ v.end \in v.start..Len(r)
                  /\ ContentCount(o, w.start) = ContentCount(r, v.start)
                  /\ ContentCount(o, w.end) = ContentCount(r, v.end)
  BY WindowStays, Remapped
<1>3. PICK c \in Nat, d \in Nat, n \in Nat :
        /\ c = ContentCount(r, v.start) /\ d = ContentCount(r, v.end)
        /\ n = ContentCount(r, Len(r)) /\ d <= n
  <2>1. v.start \in Nat /\ v.end \in Nat /\ v.end <= Len(r)
    BY <1>1, <1>2
  <2>2. ContentCount(r, v.end) <= ContentCount(r, Len(r))
    BY <1>1, <2>1, CountGrows
  <2> QED BY <1>1, <2>1, <2>2, CountStep
<1>4. Content(Slice(o, w)) = [k \in 1..(d - c) |-> o[ContentAt(o)[c + k]]]
  <2>1. Content(Slice(o, w)) =
          [k \in 1..(ContentCount(o, w.end) - ContentCount(o, w.start)) |->
             o[ContentAt(o)[ContentCount(o, w.start) + k]]]
    <3>1. o \in Text /\ w.start \in 0..Len(o) /\ w.end \in w.start..Len(o)
      BY <1>1, <1>2
    <3> QED BY Zenon, <3>1, SliceContent
  <2>2. ContentCount(o, w.start) = c /\ ContentCount(o, w.end) = d
    BY <1>2, <1>3
  <2> QED BY Zenon, <2>1, <2>2
<1>5. Content(Slice(r, v)) = [k \in 1..(d - c) |-> r[ContentAt(r)[c + k]]]
  BY <1>1, <1>2, <1>3, SliceContent
<1>6. ASSUME NEW k \in 1..(d - c) PROVE o[ContentAt(o)[c + k]] = r[ContentAt(r)[c + k]]
  <2>1. c + k \in 1..n
    BY <1>3
  <2> QED BY <1>1, <1>3, <2>1, SameContent
<1>7. Content(Slice(o, w)) = Content(Slice(r, v))
  BY <1>4, <1>5, <1>6
<1> QED BY <1>2, <1>7

\* No two moved windows overlap.
LEMMA WindowsApart ==
  ASSUME NEW o, NEW r, NEW ws, Readable(o, r, ws)
  PROVE  Disjoint(Remap(o, r, ws))
<1> SUFFICES ASSUME NEW i \in DOMAIN ws, NEW j \in DOMAIN ws, i # j
             PROVE  Apart(Remap(o, r, ws)[i], Remap(o, r, ws)[j])
  BY Remapped DEF Disjoint
<1>1. o \in Text /\ r \in Text /\ Normalized(o, r) /\ Len(r) \in Nat
  BY SameContent DEF Readable
<1>2. Apart(ws[i], ws[j])
  BY DEF Readable, WindowsValid, Disjoint
<1>3. /\ ws[i].start \in 0..Len(r) /\ ws[i].end \in 0..Len(r)
      /\ ws[j].start \in 0..Len(r) /\ ws[j].end \in 0..Len(r)
  BY <1>1, Remapped
<1>4. CASE ws[i].end <= ws[j].start
  <2>1. ws[j].start \in ws[i].end..Len(r)
    BY <1>1, <1>3, <1>4
  <2>2. BoundaryMap(o, r)[ws[i].end] <= BoundaryMap(o, r)[ws[j].start]
    BY <1>1, <1>3, <2>1, MapKeeps
  <2> QED BY <2>2, Remapped DEF Apart
<1>5. CASE ws[j].end <= ws[i].start
  <2>1. ws[i].start \in ws[j].end..Len(r)
    BY <1>1, <1>3, <1>5
  <2>2. BoundaryMap(o, r)[ws[j].end] <= BoundaryMap(o, r)[ws[i].start]
    BY <1>1, <1>3, <2>1, MapKeeps
  <2> QED BY <2>2, Remapped DEF Apart
<1> QED BY <1>2, <1>4, <1>5 DEF Apart

\* A window that is not blank has a character that is not white space between its
\* bounds, and moves to a range that is not empty.
LEMMA WindowHolds ==
  ASSUME NEW o, NEW r, NEW ws, Readable(o, r, ws), NEW i \in DOMAIN ws,
         Content(Slice(r, ws[i])) # <<>>
  PROVE  /\ ContentCount(r, ws[i].start) < ContentCount(r, ws[i].end)
         /\ InRange(o, Remap(o, r, ws)[i])
<1>1. o \in Text /\ r \in Text /\ Normalized(o, r) /\ Len(o) \in Nat /\ Len(r) \in Nat
  BY SameContent DEF Readable
<1>2. PICK v : /\ v = ws[i] /\ v.start \in 0..Len(r) /\ v.end \in v.start..Len(r)
               /\ v.start \in Nat /\ v.end \in Nat
  BY <1>1, Remapped
<1>3. PICK c \in Nat, d \in Nat : c = ContentCount(r, v.start) /\ d = ContentCount(r, v.end)
  BY <1>2, CountStep
<1>4. Content(Slice(r, v)) = [k \in 1..(d - c) |-> r[ContentAt(r)[c + k]]]
  BY <1>1, <1>2, <1>3, SliceContent
<1>5. c < d
  <2> SUFFICES ASSUME ~(c < d) PROVE FALSE
    OBVIOUS
  <2>1. 1..(d - c) = 1..0
    OBVIOUS
  <2>2. Content(Slice(r, v)) = [k \in 1..0 |-> r[ContentAt(r)[c + k]]]
    BY <1>4, <2>1
  <2>3. Content(Slice(r, v)) = <<>>
    BY <2>2
  <2> QED BY <1>2, <2>3
<1>6. PICK a, b :
        /\ a \in 0..Len(o) /\ b \in a..Len(o)
        /\ a = Remap(o, r, ws)[i].start /\ b = Remap(o, r, ws)[i].end
        /\ ContentCount(o, a) = c /\ ContentCount(o, b) = d
  BY <1>2, <1>3, WindowStays
<1>7. 0 <= a /\ a < b /\ b <= Len(o)
  <2>1. a # b
    BY <1>3, <1>5, <1>6
  <2> QED BY <1>1, <1>6, <2>1
<1> QED BY <1>2, <1>3, <1>5, <1>6, <1>7 DEF InRange

\* A report whose windows are all not blank is remapped safely
\* (_remap_normalized_windows).
LEMMA RemapsSafely ==
  ASSUME NEW o, NEW r, NEW ws, Readable(o, r, ws),
         \A i \in DOMAIN ws : Content(Slice(r, ws[i])) # <<>>
  PROVE  RemapSafe(o, r, ws)
BY WindowSame, WindowsApart, WindowHolds DEF RemapSafe

-----------------------------------------------------------------------------
(* The paragraphs in the document.                                         *)

\* f adds up the numbers of w, one by one.
Adds(f, w, L) == f = [p \in 1..(L + 1) |-> IF p = 1 THEN 0 ELSE f[p - 1] + w[p - 1]]

\* There is such a sum, and its values are naturals.
LEMMA SumExists ==
  ASSUME NEW w, NEW L \in Nat
  PROVE  \E f : Adds(f, w, L)
<1> DEFINE T == {m \in 0..L : \E f : Adds(f, w, m)}
<1>1. 0 \in T
  <2> DEFINE f == [p \in 1..(0 + 1) |-> 0]
  <2>1. Adds(f, w, 0)
    BY DEF Adds
  <2> QED BY <2>1
<1>2. ASSUME NEW m \in 0..L, m \in T, m < L PROVE m + 1 \in T
  <2>1. PICK f : Adds(f, w, m)
    BY <1>2
  <2> DEFINE g == [p \in 1..((m + 1) + 1) |-> IF p = (m + 1) + 1 THEN f[m + 1] + w[m + 1] ELSE f[p]]
  <2>2. ASSUME NEW p \in 1..((m + 1) + 1)
        PROVE  g[p] = IF p = 1 THEN 0 ELSE g[p - 1] + w[p - 1]
    <3>1. CASE p = (m + 1) + 1
      <4>1. p # 1 /\ p - 1 = m + 1 /\ p - 1 \in 1..((m + 1) + 1) /\ p - 1 # (m + 1) + 1
        BY <3>1
      <4>2. g[p - 1] = f[m + 1] /\ g[p] = f[m + 1] + w[m + 1]
        BY <3>1, <4>1
      <4> QED BY <4>1, <4>2
    <3>2. CASE p # (m + 1) + 1
      <4>1. p \in 1..(m + 1) /\ g[p] = f[p]
        BY <3>2
      <4>2. f[p] = IF p = 1 THEN 0 ELSE f[p - 1] + w[p - 1]
        BY <2>1, <4>1 DEF Adds
      <4>3. p # 1 => g[p - 1] = f[p - 1]
        BY <4>1
      <4> QED BY <4>1, <4>2, <4>3
    <3> QED BY <3>1, <3>2
  <2>3. Adds(g, w, m + 1)
    BY <2>2 DEF Adds
  <2> QED BY <1>2, <2>3
<1> HIDE DEF T
<1>3. L \in T
  BY <1>1, <1>2, UpTo
<1> QED BY <1>3 DEF T

\* What starts at 0 and adds naturals stays among them.
LEMMA SumNatural ==
  ASSUME NEW f, NEW L \in Nat, NEW w \in [1..L -> Nat], f[1] = 0,
         \A p \in 1..L : f[p] \in Nat => f[p + 1] = f[p] + w[p]
  PROVE  /\ \A p \in 1..L : f[p + 1] = f[p] + w[p]
         /\ \A p \in 1..(L + 1) : f[p] \in Nat
<1> DEFINE T == {m \in 0..L : f[m + 1] \in Nat}
<1>1. 0 \in T
  <2>1. 0 + 1 = 1 /\ f[0 + 1] \in Nat
    OBVIOUS
  <2> QED BY <2>1
<1>2. ASSUME NEW m \in 0..L, m \in T, m < L PROVE m + 1 \in T
  <2>1. m + 1 \in 1..L /\ f[m + 1] \in Nat /\ w[m + 1] \in Nat
    BY <1>2
  <2>2. f[(m + 1) + 1] = f[m + 1] + w[m + 1]
    BY <2>1
  <2>3. f[(m + 1) + 1] \in Nat
    BY <2>1, <2>2
  <2> QED BY <2>1, <2>3
<1> HIDE DEF T
<1>3. ASSUME NEW m \in 0..L PROVE m \in T
  <2>1. m \in Nat /\ \A n \in 0..m : n \in T /\ n < m => n + 1 \in T
    BY <1>2
  <2> QED BY <1>1, <2>1, UpTo
<1>4. ASSUME NEW p \in 1..(L + 1) PROVE f[p] \in Nat
  <2>1. p - 1 \in 0..L /\ (p - 1) + 1 = p
    OBVIOUS
  <2> QED BY <1>3, <2>1 DEF T
<1> QED BY <1>4

\* Such a sum exists over every sequence of naturals.
LEMMA SumOf ==
  ASSUME NEW L \in Nat, NEW w \in [1..L -> Nat]
  PROVE  \E f \in [1..(L + 1) -> Nat] : Adds(f, w, L)
<1>1. PICK f : Adds(f, w, L)
  BY SumExists
<1>2. \A p \in 1..(L + 1) : f[p] = IF p = 1 THEN 0 ELSE f[p - 1] + w[p - 1]
  BY <1>1 DEF Adds
<1>3. f[1] = 0
  BY <1>2
<1>4. ASSUME NEW p \in 1..L PROVE f[p + 1] = f[p] + w[p]
  <2>1. p + 1 \in 1..(L + 1) /\ p + 1 # 1 /\ (p + 1) - 1 = p
    OBVIOUS
  <2> QED BY <1>2, <2>1
<1>5. \A p \in 1..(L + 1) : f[p] \in Nat
  BY <1>3, <1>4, SumNatural
<1> QED BY <1>1, <1>5 DEF Adds

\* The offset of a paragraph: those before it, and two line ends after each.
LEMMA OffsetIs ==
  ASSUME NEW ps \in Seq(Text)
  PROVE  /\ Offset(ps)[1] = 0
         /\ \A p \in 1..Len(ps) :
              /\ Offset(ps)[p] \in Nat /\ Offset(ps)[p + 1] \in Nat
              /\ Offset(ps)[p + 1] = Offset(ps)[p] + Len(ps[p]) + 2
<1>1. PICK L \in Nat : L = Len(ps)
  OBVIOUS
<1>2. \A p \in 1..L : ps[p] \in Text /\ Len(ps[p]) \in Nat
  BY <1>1 DEF Text
<1> DEFINE w == [p \in 1..L |-> Len(ps[p]) + 2]
<1>3. w \in [1..L -> Nat] /\ \A p \in 1..L : w[p] = Len(ps[p]) + 2
  BY <1>2
<1> HIDE DEF w
<1>4. PICK f \in [1..(L + 1) -> Nat] : Adds(f, w, L)
  BY <1>3, SumOf
<1>5. ASSUME NEW p \in 1..(L + 1)
      PROVE  f[p] = IF p = 1 THEN 0 ELSE f[p - 1] + Len(ps[p - 1]) + 2
  <2>1. f[p] = IF p = 1 THEN 0 ELSE f[p - 1] + w[p - 1]
    BY <1>4 DEF Adds
  <2>2. ASSUME p # 1 PROVE f[p - 1] + w[p - 1] = f[p - 1] + Len(ps[p - 1]) + 2
    <3>1. p - 1 \in 1..L /\ p - 1 \in 1..(L + 1)
      BY <2>2
    <3>2. PICK l \in Nat, m \in Nat : l = Len(ps[p - 1]) /\ m = f[p - 1] /\ w[p - 1] = l + 2
      BY <1>2, <1>3, <1>4, <3>1
    <3>3. m + (l + 2) = m + l + 2
      OBVIOUS
    <3> QED BY Zenon, <3>2, <3>3
  <2> QED BY <2>1, <2>2
<1>6. f = [p \in 1..(Len(ps) + 1) |-> IF p = 1 THEN 0 ELSE f[p - 1] + Len(ps[p - 1]) + 2]
  BY <1>1, <1>5
<1>7. Offset(ps) =
        [p \in 1..(Len(ps) + 1) |->
           IF p = 1 THEN 0 ELSE Offset(ps)[p - 1] + Len(ps[p - 1]) + 2]
  BY Zenon, <1>6 DEF Offset
<1>8. PICK g : /\ g = Offset(ps)
               /\ g = [p \in 1..(L + 1) |-> IF p = 1 THEN 0 ELSE g[p - 1] + Len(ps[p - 1]) + 2]
  BY <1>1, <1>7
<1>9. \A p \in 1..(L + 1) : g[p] = IF p = 1 THEN 0 ELSE g[p - 1] + Len(ps[p - 1]) + 2
  BY <1>8
<1>10. g[1] = 0
  BY <1>9
<1>11. ASSUME NEW p \in 1..L PROVE g[p + 1] = g[p] + Len(ps[p]) + 2
  <2>1. p + 1 \in 1..(L + 1) /\ p + 1 # 1 /\ (p + 1) - 1 = p
    OBVIOUS
  <2> QED BY <1>9, <2>1
<1>12. \A p \in 1..L : g[p] \in Nat => g[p + 1] = g[p] + w[p]
  <2> SUFFICES ASSUME NEW p \in 1..L, g[p] \in Nat PROVE g[p + 1] = g[p] + w[p]
    OBVIOUS
  <2>1. PICK a \in Nat, b \in Nat : a = g[p] /\ b = Len(ps[p])
    BY <1>2
  <2>2. g[p + 1] = a + b + 2 /\ w[p] = b + 2
    BY <1>3, <1>11, <2>1
  <2>3. a + b + 2 = a + (b + 2)
    OBVIOUS
  <2> QED BY <2>1, <2>2, <2>3
<1>13. \A p \in 1..(L + 1) : g[p] \in Nat
  BY <1>3, <1>10, <1>12, SumNatural
<1>14. \A p \in 1..L : p \in 1..(L + 1) /\ p + 1 \in 1..(L + 1)
  OBVIOUS
<1> QED BY <1>1, <1>8, <1>10, <1>11, <1>13, <1>14

\* One step of the joining, from the paragraphs joined before.
Join(ps, g, p) ==
  CASE p = 0 -> <<>>
    [] p = 1 -> ps[1]
    [] OTHER -> g[p - 1] \o <<Space, Space>> \o ps[p]
Joins(ps, g, L) == g = [p \in 0..L |-> Join(ps, g, p)]

\* The recursion defines the text up to every paragraph.
LEMMA JoiningExists ==
  ASSUME NEW ps, NEW L \in Nat
  PROVE  \E g : Joins(ps, g, L)
<1> DEFINE T == {m \in 0..L : \E g : Joins(ps, g, m)}
<1>1. 0 \in T
  <2> DEFINE g == [n \in 0..0 |-> <<>>]
  <2>1. Joins(ps, g, 0)
    BY DEF Joins, Join
  <2> QED BY <2>1
<1>2. ASSUME NEW m \in 0..L, m \in T, m < L PROVE m + 1 \in T
  <2>1. PICK g : Joins(ps, g, m)
    BY <1>2
  <2> DEFINE h == [n \in 0..(m + 1) |-> IF n = m + 1 THEN Join(ps, g, n) ELSE g[n]]
  <2>2. ASSUME NEW n \in 0..(m + 1) PROVE h[n] = Join(ps, h, n)
    <3>1. n # 0 => n - 1 \in 0..m /\ h[n - 1] = g[n - 1]
      OBVIOUS
    <3> HIDE DEF h
    <3>2. Join(ps, h, n) = Join(ps, g, n)
      <4>1. CASE n = 0
        BY <4>1 DEF Join
      <4>2. CASE n # 0
        BY <3>1, <4>2 DEF Join
      <4> QED BY <4>1, <4>2
    <3>3. n \in 0..m => g[n] = Join(ps, g, n)
      BY <2>1 DEF Joins
    <3> QED BY <3>2, <3>3 DEF h
  <2>3. Joins(ps, h, m + 1)
    BY <2>2 DEF Joins
  <2> QED BY <1>2, <2>3
<1> HIDE DEF T
<1>3. L \in T
  BY <1>1, <1>2, UpTo
<1> QED BY <1>3 DEF T

\* x is the text of the first q paragraphs: each stands at its offset, and what is
\* between two is white space.
Joined(ps, q, x) ==
  /\ x \in Text
  /\ q # 0 => Offset(ps)[q + 1] = Len(x) + 2
  /\ q = 0 => Len(x) = 0
  /\ \A p \in 1..q :
       /\ Offset(ps)[p] + Len(ps[p]) <= Len(x)
       /\ Stands(ps[p], Len(ps[p]), x, Offset(ps)[p])
       /\ p < q => x[Offset(ps)[p + 1] - 1] = Space /\ x[Offset(ps)[p + 1]] = Space
  /\ \A y \in 1..Len(x) : x[y] # Space =>
       \E p \in 1..q : Offset(ps)[p] < y /\ y <= Offset(ps)[p] + Len(ps[p])

\* y is the text x of length l, two line ends, and the paragraph z of length m.
Follows(x, l, z, m, y) ==
  /\ y \in Text /\ Len(y) = l + 2 + m
  /\ \A i \in 1..l : y[i] = x[i]
  /\ y[l + 1] = Space /\ y[l + 2] = Space
  /\ Stands(z, m, y, l + 2)

\* Joining by two line ends does that.
LEMMA JoinOne ==
  ASSUME NEW x \in Text, NEW z \in Text, NEW l \in Nat, NEW m \in Nat, l = Len(x), m = Len(z)
  PROVE  Follows(x, l, z, m, x \o <<Space, Space>> \o z)
<1>1. PICK s : s = <<Space, Space>>
  OBVIOUS
<1>2. s \in Seq(Char) /\ Len(s) = 2 /\ s[1] = Space /\ s[2] = Space
  <2>1. Space \in Char
    BY ClientAssumption DEF ClientAssumption
  <2> QED BY <1>1, <2>1
<1>3. PICK u : u = x \o s
  OBVIOUS
<1>4. u \in Seq(Char) /\ Len(u) = l + 2
      /\ \A i \in 1..(l + 2) : u[i] = IF i <= l THEN x[i] ELSE s[i - l]
  <2>1. x \in Seq(Char)
    BY DEF Text
  <2>2. /\ x \o s \in Seq(Char) /\ Len(x \o s) = Len(x) + Len(s)
        /\ \A i \in 1..(Len(x) + Len(s)) :
             (x \o s)[i] = IF i <= Len(x) THEN x[i] ELSE s[i - Len(x)]
    BY Zenon, <1>2, <2>1, ConcatProperties
  <2> QED BY Zenon, <1>2, <1>3, <2>2
<1>5. PICK y : y = u \o z
  OBVIOUS
<1>6. y \in Seq(Char) /\ Len(y) = l + 2 + m
      /\ \A i \in 1..(l + 2 + m) : y[i] = IF i <= l + 2 THEN u[i] ELSE z[i - (l + 2)]
  <2>1. z \in Seq(Char)
    BY DEF Text
  <2>2. /\ u \o z \in Seq(Char) /\ Len(u \o z) = Len(u) + Len(z)
        /\ \A i \in 1..(Len(u) + Len(z)) :
             (u \o z)[i] = IF i <= Len(u) THEN u[i] ELSE z[i - Len(u)]
    BY Zenon, <1>4, <2>1, ConcatProperties
  <2> QED BY Zenon, <1>4, <1>5, <2>2
<1>7. \A i \in 1..l : y[i] = x[i]
  BY <1>4, <1>6
<1>8. y[l + 1] = Space /\ y[l + 2] = Space
  <2>1. y[l + 1] = s[1] /\ y[l + 2] = s[2]
    <3>1. l + 1 \in 1..(l + 2) /\ l + 2 \in 1..(l + 2) /\ (l + 1) - l = 1 /\ (l + 2) - l = 2
      OBVIOUS
    <3>2. l + 1 \in 1..(l + 2 + m) /\ l + 2 \in 1..(l + 2 + m)
      OBVIOUS
    <3> QED BY <1>4, <1>6, <3>1, <3>2
  <2> QED BY <1>2, <2>1
<1>9. ASSUME NEW i \in 1..m PROVE z[i] = y[(l + 2) + i]
  <2>1. (l + 2) + i \in 1..(l + 2 + m) /\ ((l + 2) + i) - (l + 2) = i /\ ~((l + 2) + i <= l + 2)
    OBVIOUS
  <2> QED BY <1>6, <2>1
<1>10. Follows(x, l, z, m, y)
  BY <1>6, <1>7, <1>8, <1>9 DEF Follows, Stands, Text
<1> QED BY <1>1, <1>3, <1>5, <1>10

\* One more paragraph keeps what is said of those before it.
LEMMA JoinedStep ==
  ASSUME NEW ps \in Seq(Text), NEW q \in Nat, q # 0, q + 1 <= Len(ps),
         NEW x, Joined(ps, q, x)
  PROVE  Joined(ps, q + 1, x \o <<Space, Space>> \o ps[q + 1])
<1>1. /\ q + 1 \in 1..Len(ps) /\ x \in Text
      /\ \A p \in 1..Len(ps) : ps[p] \in Text /\ Len(ps[p]) \in Nat
  BY DEF Joined, Text
<1>2. PICK l \in Nat, m \in Nat, z \in Text : z = ps[q + 1] /\ l = Len(x) /\ m = Len(z)
  <2>1. ps[q + 1] \in Text /\ Len(ps[q + 1]) \in Nat
    BY <1>1
  <2>2. Len(x) \in Nat
    BY <1>1 DEF Text
  <2> QED BY <2>1, <2>2
<1>3. PICK y : y = x \o <<Space, Space>> \o z
  OBVIOUS
<1>4. Follows(x, l, z, m, y)
  BY Zenon, <1>1, <1>2, <1>3, JoinOne
<1>5. y \in Text /\ Len(y) = l + 2 + m /\ y[l + 1] = Space /\ y[l + 2] = Space
  BY <1>4 DEF Follows
<1>6. Offset(ps)[q + 1] = l + 2 /\ Offset(ps)[(q + 1) + 1] = l + 2 + m + 2
  <2>1. Offset(ps)[q + 1] = l + 2
    BY <1>2 DEF Joined
  <2>2. Offset(ps)[(q + 1) + 1] = Offset(ps)[q + 1] + Len(ps[q + 1]) + 2
    BY <1>1, OffsetIs
  <2> QED BY <1>2, <2>1, <2>2
<1>7. ASSUME NEW p \in 1..(q + 1)
      PROVE  /\ Offset(ps)[p] + Len(ps[p]) <= Len(y)
             /\ Stands(ps[p], Len(ps[p]), y, Offset(ps)[p])
             /\ p < q + 1 => y[Offset(ps)[p + 1] - 1] = Space /\ y[Offset(ps)[p + 1]] = Space
  <2>1. CASE p = q + 1
    <3>1. Offset(ps)[p] = l + 2 /\ ps[p] = z /\ Len(ps[p]) = m /\ ~(p < q + 1)
      BY <1>2, <1>6, <2>1
    <3>2. Stands(z, m, y, l + 2)
      BY <1>4 DEF Follows
    <3> QED BY <1>5, <3>1, <3>2
  <2>2. CASE p # q + 1
    <3>1. p \in 1..q /\ p \in 1..Len(ps)
      BY <1>1, <2>2
    <3>2. PICK a \in Nat, n \in Nat : a = Offset(ps)[p] /\ n = Len(ps[p])
      BY <1>1, <3>1, OffsetIs
    <3>3. Offset(ps)[p + 1] = a + n + 2
      BY <3>1, <3>2, OffsetIs
    <3>4. a + n <= l /\ Stands(ps[p], n, x, a)
      BY <1>2, <3>1, <3>2 DEF Joined
    <3>5. Stands(ps[p], n, y, a)
      <4> SUFFICES ASSUME NEW j \in 1..n PROVE ps[p][j] = y[a + j]
        BY DEF Stands
      <4>1. a + j \in 1..l /\ ps[p][j] = x[a + j]
        BY <3>4 DEF Stands
      <4>2. y[a + j] = x[a + j]
        BY <1>4, <4>1 DEF Follows
      <4> QED BY <4>1, <4>2
    <3>6. y[Offset(ps)[p + 1] - 1] = Space /\ y[Offset(ps)[p + 1]] = Space
      <4>1. CASE p = q
        <5>1. Offset(ps)[p + 1] = l + 2 /\ (l + 2) - 1 = l + 1
          BY <1>6, <4>1
        <5> QED BY <1>5, <5>1
      <4>2. CASE p # q
        <5>1. p < q /\ p + 1 \in 1..q /\ p + 1 \in 1..Len(ps)
          BY <1>1, <3>1, <4>2
        <5>2. PICK b \in Nat, k \in Nat : b = Offset(ps)[p + 1] /\ k = Len(ps[p + 1])
          BY <1>1, <5>1, OffsetIs
        <5>3. b + k <= l
          BY <1>2, <5>1, <5>2 DEF Joined
        <5>4. x[b - 1] = Space /\ x[b] = Space
          BY <3>1, <5>1, <5>2 DEF Joined
        <5>5. b = a + n + 2
          BY <3>3, <5>2
        <5>6. b \in 1..l /\ b - 1 \in 1..l
          BY <5>3, <5>5
        <5>7. y[b] = x[b] /\ y[b - 1] = x[b - 1]
          BY <1>4, <5>6 DEF Follows
        <5> QED BY <5>2, <5>4, <5>7
      <4> QED BY <4>1, <4>2
    <3>7. Offset(ps)[p] + Len(ps[p]) <= Len(y)
      BY <1>5, <3>2, <3>4
    <3> QED BY <3>2, <3>5, <3>6, <3>7
  <2> QED BY <2>1, <2>2
<1>8. ASSUME NEW i \in 1..Len(y), y[i] # Space
      PROVE  \E p \in 1..(q + 1) : Offset(ps)[p] < i /\ i <= Offset(ps)[p] + Len(ps[p])
  <2>1. CASE i <= l
    <3>1. i \in 1..l
      BY <1>5, <2>1
    <3>2. y[i] = x[i]
      BY <1>4, <3>1 DEF Follows
    <3>3. PICK p \in 1..q : Offset(ps)[p] < i /\ i <= Offset(ps)[p] + Len(ps[p])
      BY <1>2, <1>8, <3>1, <3>2 DEF Joined
    <3>4. p \in 1..(q + 1)
      OBVIOUS
    <3> QED BY <3>3, <3>4
  <2>2. CASE ~(i <= l)
    <3>1. i \in Nat /\ i <= l + 2 + m /\ l < i
      BY <1>5, <2>2
    <3>2. i # l + 1 /\ i # l + 2
      BY <1>5, <1>8
    <3>3. l + 2 < i /\ i <= (l + 2) + m
      BY <3>1, <3>2
    <3>4. q + 1 \in 1..(q + 1)
      OBVIOUS
    <3> QED BY <1>2, <1>6, <3>3, <3>4
  <2> QED BY <2>1, <2>2
<1>9. Joined(ps, q + 1, y)
  <2>1. q + 1 # 0 /\ Offset(ps)[(q + 1) + 1] = Len(y) + 2
    BY <1>2, <1>5, <1>6
  <2> QED BY <1>5, <1>7, <1>8, <2>1 DEF Joined
<1> QED BY <1>2, <1>3, <1>9

\* The document is the text of all its paragraphs (_document_text).
LEMMA Document ==
  ASSUME NEW ps \in Seq(Text)
  PROVE  Joined(ps, Len(ps), DocumentText(ps))
<1>1. PICK L \in Nat : L = Len(ps)
  OBVIOUS
<1>2. PICK g : Joins(ps, g, L) /\ DocumentText(ps) = g[L]
  <2>1. \E g : Joins(ps, g, Len(ps))
    BY <1>1, JoiningExists
  <2>2. \E g : Joins(ps, g, Len(ps)) /\ DocumentText(ps) = g[Len(ps)]
    BY Zenon, <2>1 DEF DocumentText, Joins, Join
  <2> QED BY <1>1, <2>2
<1>3. \A p \in 0..L : g[p] = Join(ps, g, p)
  BY <1>2 DEF Joins
<1> DEFINE T == {q \in 0..L : Joined(ps, q, g[q])}
<1>4. 0 \in T
  <2>1. g[0] = <<>>
    BY <1>3 DEF Join
  <2>2. PICK x : x = g[0] /\ x \in Text /\ Len(x) = 0
    <3>1. <<>> \in Text /\ Len(<<>>) = 0
      BY DEF Text
    <3> QED BY Zenon, <2>1, <3>1
  <2>3. 1..0 = {}
    OBVIOUS
  <2>4. Joined(ps, 0, x)
    BY <2>2, <2>3 DEF Joined
  <2> QED BY <2>2, <2>4
<1>5. ASSUME NEW q \in 0..L, q \in T, q < L PROVE q + 1 \in T
  <2>1. q + 1 \in 0..L /\ (q + 1) - 1 = q /\ q + 1 <= Len(ps) /\ Joined(ps, q, g[q])
    BY <1>1, <1>5
  <2>2. CASE q = 0
    <3>1. g[q + 1] = ps[1]
      <4>1. g[1] = Join(ps, g, 1) /\ q + 1 = 1
        BY <1>3, <2>1, <2>2
      <4> QED BY <4>1 DEF Join
    <3>2. 1 \in 1..Len(ps) /\ 1..1 = {1}
      BY <1>1, <2>1, <2>2
    <3>3. PICK x \in Text, a \in Nat, n \in Nat :
            /\ x = ps[1] /\ a = Offset(ps)[1] /\ n = Len(x) /\ a = 0
            /\ Offset(ps)[1 + 1] = n + 2
      BY <3>2, OffsetIs DEF Text
    <3>4. Stands(x, n, x, a)
      BY <3>3 DEF Stands
    <3>5. Joined(ps, 1, x)
      <4>1. 1 # 0 /\ ~(1 < 1)
        OBVIOUS
      <4>2. \A p \in 1..1 :
              /\ Offset(ps)[p] + Len(ps[p]) <= Len(x)
              /\ Stands(ps[p], Len(ps[p]), x, Offset(ps)[p])
        <5>1. Offset(ps)[1] + Len(ps[1]) <= Len(x)
          BY <3>3
        <5>2. Stands(ps[1], Len(ps[1]), x, Offset(ps)[1])
          BY <3>3, <3>4
        <5> QED BY <3>2, <5>1, <5>2
      <4>3. \A y \in 1..Len(x) : Offset(ps)[1] < y /\ y <= Offset(ps)[1] + Len(ps[1])
        BY <3>3
      <4> QED BY <3>2, <3>3, <4>1, <4>2, <4>3 DEF Joined
    <3> QED BY <2>1, <2>2, <3>1, <3>3, <3>5
  <2>3. CASE q # 0
    <3>1. g[q + 1] = g[q] \o <<Space, Space>> \o ps[q + 1]
      <4>1. q + 1 # 0 /\ q + 1 # 1 /\ g[q + 1] = Join(ps, g, q + 1)
        BY <1>3, <2>1, <2>3
      <4> QED BY <2>1, <4>1 DEF Join
    <3>2. PICK x : x = g[q] /\ Joined(ps, q, x)
      BY <2>1
    <3>3. Joined(ps, q + 1, x \o <<Space, Space>> \o ps[q + 1])
      <4>1. q \in Nat
        OBVIOUS
      <4> QED BY Zenon, <2>1, <2>3, <3>2, <4>1, JoinedStep
    <3> QED BY <2>1, <3>1, <3>2, <3>3
  <2> QED BY <2>2, <2>3
<1> HIDE DEF T
<1>6. L \in T
  BY <1>4, <1>5, UpTo
<1> QED BY <1>1, <1>2, <1>6 DEF T

\* f[p] characters that are not white space stand before paragraph p.
Numbers(ps, f) ==
  f = [p \in 1..(Len(ps) + 1) |-> IF p = 1 THEN 0 ELSE f[p - 1] + Len(Content(ps[p - 1]))]

\* Such numbers exist.
LEMMA NumbersExist ==
  ASSUME NEW ps \in Seq(Text)
  PROVE  \E f : Numbers(ps, f)
<1>1. PICK L \in Nat : L = Len(ps)
  OBVIOUS
<1>2. \A p \in 1..L : Len(Content(ps[p])) \in Nat
  <2> SUFFICES ASSUME NEW p \in 1..L PROVE Len(Content(ps[p])) \in Nat
    OBVIOUS
  <2>1. Len(ps[p]) \in Nat
    BY <1>1 DEF Text
  <2> QED BY <2>1, ContentIs, ContentStands
<1> DEFINE w == [p \in 1..L |-> Len(Content(ps[p]))]
<1>3. w \in [1..L -> Nat] /\ \A p \in 1..L : w[p] = Len(Content(ps[p]))
  BY <1>2
<1> HIDE DEF w
<1>4. PICK f \in [1..(L + 1) -> Nat] : Adds(f, w, L)
  BY <1>3, SumOf
<1>5. ASSUME NEW p \in 1..(L + 1)
      PROVE  f[p] = IF p = 1 THEN 0 ELSE f[p - 1] + Len(Content(ps[p - 1]))
  <2>1. f[p] = IF p = 1 THEN 0 ELSE f[p - 1] + w[p - 1]
    BY <1>4 DEF Adds
  <2>2. p # 1 => w[p - 1] = Len(Content(ps[p - 1]))
    BY <1>3
  <2> QED BY <2>1, <2>2
<1> QED BY <1>1, <1>5 DEF Numbers

\* They add up the characters of the paragraphs before.
LEMMA NumberIs ==
  ASSUME NEW ps \in Seq(Text), NEW f, Numbers(ps, f)
  PROVE  /\ f[1] = 0
         /\ \A p \in 1..Len(ps) :
              f[p] \in Nat /\ f[p + 1] = f[p] + ContentCount(ps[p], Len(ps[p]))
<1>1. PICK L \in Nat : L = Len(ps)
  OBVIOUS
<1>2. ASSUME NEW p \in 1..L
      PROVE  /\ Len(Content(ps[p])) = ContentCount(ps[p], Len(ps[p]))
             /\ ContentCount(ps[p], Len(ps[p])) \in Nat
  <2>1. Len(ps[p]) \in Nat
    BY <1>1 DEF Text
  <2> QED BY <2>1, ContentIs, ContentStands
<1>3. \A p \in 1..(L + 1) : f[p] = IF p = 1 THEN 0 ELSE f[p - 1] + Len(Content(ps[p - 1]))
  BY <1>1 DEF Numbers
<1>4. f[1] = 0
  BY <1>3
<1>5. ASSUME NEW p \in 1..L PROVE f[p + 1] = f[p] + ContentCount(ps[p], Len(ps[p]))
  <2>1. p + 1 \in 1..(L + 1) /\ p + 1 # 1 /\ (p + 1) - 1 = p
    OBVIOUS
  <2>2. f[p + 1] = f[p] + Len(Content(ps[p]))
    BY <1>3, <2>1
  <2> QED BY <1>2, <2>2
<1> DEFINE w == [p \in 1..L |-> ContentCount(ps[p], Len(ps[p]))]
<1>6. w \in [1..L -> Nat] /\ \A p \in 1..L : f[p + 1] = f[p] + w[p]
  BY <1>2, <1>5
<1> HIDE DEF w
<1>7. \A p \in 1..(L + 1) : f[p] \in Nat
  BY <1>4, <1>6, SumNatural
<1> QED BY <1>1, <1>4, <1>5, <1>7

\* Every paragraph stands in the document at its offset.
LEMMA ParagraphStands ==
  ASSUME NEW ps \in Seq(Text), NEW p \in 1..Len(ps)
  PROVE  /\ Offset(ps)[p] \in Nat /\ Len(ps[p]) \in Nat /\ Len(DocumentText(ps)) \in Nat
         /\ Offset(ps)[p] + Len(ps[p]) <= Len(DocumentText(ps))
         /\ Stands(ps[p], Len(ps[p]), DocumentText(ps), Offset(ps)[p])
<1>1. ps[p] \in Text /\ Len(ps) \in Nat
  OBVIOUS
<1>2. Joined(ps, Len(ps), DocumentText(ps))
  BY Document
<1>3. Len(ps[p]) \in Nat /\ Len(DocumentText(ps)) \in Nat
  BY <1>1, <1>2 DEF Joined, Text
<1>4. /\ Offset(ps)[p] + Len(ps[p]) <= Len(DocumentText(ps))
      /\ Stands(ps[p], Len(ps[p]), DocumentText(ps), Offset(ps)[p])
  BY <1>2 DEF Joined
<1> QED BY <1>3, <1>4, OffsetIs

\* The characters before a paragraph are those of the paragraphs before it.
LEMMA Numbering ==
  ASSUME NEW ps \in Seq(Text), NEW f, Numbers(ps, f), NEW p \in 1..Len(ps)
  PROVE  ContentCount(DocumentText(ps), Offset(ps)[p]) = f[p]
<1>1. PICK t, L : t = DocumentText(ps) /\ L = Len(ps) /\ L \in Nat
  OBVIOUS
<1> DEFINE T == {m \in Nat : m + 1 <= L => ContentCount(t, Offset(ps)[m + 1]) = f[m + 1]}
<1>2. 0 \in T
  <2>1. Offset(ps)[1] = 0 /\ f[1] = 0 /\ ContentCount(t, 0) = 0 /\ 0 + 1 = 1
    BY CountStep, OffsetIs, NumberIs
  <2>2. ContentCount(t, Offset(ps)[0 + 1]) = f[0 + 1]
    BY <2>1
  <2> QED BY <2>2
<1>3. ASSUME NEW m \in Nat, m \in T PROVE m + 1 \in T
  <2> SUFFICES ASSUME (m + 1) + 1 <= L
               PROVE  ContentCount(t, Offset(ps)[(m + 1) + 1]) = f[(m + 1) + 1]
    OBVIOUS
  <2>1. PICK q \in 1..Len(ps) : q = m + 1 /\ q + 1 <= L /\ q < Len(ps)
    BY <1>1
  <2>2. PICK a \in Nat, n \in Nat :
          /\ a = Offset(ps)[q] /\ n = Len(ps[q]) /\ n \in 0..n
          /\ Stands(ps[q], n, t, a)
    BY <1>1, ParagraphStands
  <2>3. Offset(ps)[q + 1] = a + n + 2
    BY <2>2, OffsetIs
  <2>4. ContentCount(t, a) = f[q]
    BY <1>1, <1>3, <2>1, <2>2
  <2>5. ContentCount(t, a + n) = f[q] + ContentCount(ps[q], n)
    BY <2>2, <2>4, CountShift
  <2>6. ContentCount(t, a + n) = f[q + 1]
    BY <2>2, <2>5, NumberIs
  <2>7. t[a + n + 1] = Space /\ t[a + n + 2] = Space
    <3>1. t[Offset(ps)[q + 1] - 1] = Space /\ t[Offset(ps)[q + 1]] = Space
      BY <1>1, <2>1, Document DEF Joined
    <3>2. Offset(ps)[q + 1] - 1 = a + n + 1
      BY <2>3
    <3> QED BY <2>3, <3>1, <3>2
  <2>8. PICK c \in Nat : c = a + n
    OBVIOUS
  <2>9. /\ ContentCount(t, c) \in Nat /\ ContentCount(t, c + 1) \in Nat
        /\ ContentCount(t, c + 1) = ContentCount(t, c) + 0
        /\ ContentCount(t, (c + 1) + 1) = ContentCount(t, c + 1) + 0
    <3>1. t[c + 1] = Space /\ t[(c + 1) + 1] = Space
      BY <2>7, <2>8
    <3>2. ContentCount(t, c + 1) = ContentCount(t, c) + (IF t[c + 1] # Space THEN 1 ELSE 0)
      BY CountStep
    <3>3. c + 1 \in Nat
      OBVIOUS
    <3>4. ContentCount(t, (c + 1) + 1) =
            ContentCount(t, c + 1) + (IF t[(c + 1) + 1] # Space THEN 1 ELSE 0)
      BY <3>3, CountStep
    <3>5. ContentCount(t, c) \in Nat /\ ContentCount(t, c + 1) \in Nat
      BY <3>3, CountStep
    <3> QED BY <3>1, <3>2, <3>4, <3>5
  <2>10. ContentCount(t, (c + 1) + 1) = f[q + 1] /\ (c + 1) + 1 = a + n + 2
    BY <2>6, <2>8, <2>9
  <2> QED BY <2>1, <2>3, <2>10
<1> HIDE DEF T
<1>4. p - 1 \in Nat /\ (p - 1) + 1 = p /\ p <= L
  BY <1>1
<1>5. p - 1 \in T
  BY <1>2, <1>3, <1>4, UpTo
<1> QED BY <1>1, <1>4, <1>5 DEF T

\* A character of a paragraph has its number in the document.
LEMMA CharacterStands ==
  ASSUME NEW ps \in Seq(Text), NEW f, Numbers(ps, f),
         NEW p \in 1..Len(ps), NEW i \in 1..Len(ps[p])
  PROVE  /\ Offset(ps)[p] + i \in 1..Len(DocumentText(ps))
         /\ DocumentText(ps)[Offset(ps)[p] + i] = ps[p][i]
         /\ ContentCount(DocumentText(ps), Offset(ps)[p] + i) = f[p] + ContentCount(ps[p], i)
<1>1. PICK t, a, n, l :
        /\ t = DocumentText(ps) /\ a = Offset(ps)[p] /\ n = Len(ps[p]) /\ l = Len(t)
        /\ a \in Nat /\ n \in Nat /\ l \in Nat
        /\ a + n <= l /\ Stands(ps[p], n, t, a)
  BY ParagraphStands
<1>2. i \in 1..n /\ i \in 0..n
  BY <1>1
<1>3. a + i \in 1..l
  BY <1>1, <1>2
<1>4. t[a + i] = ps[p][i]
  BY <1>1, <1>2 DEF Stands
<1>5. ContentCount(t, a + i) = ContentCount(t, a) + ContentCount(ps[p], i)
  BY <1>1, <1>2, CountShift
<1>6. ContentCount(t, a) = f[p]
  BY <1>1, Numbering
<1> QED BY <1>1, <1>3, <1>4, <1>5, <1>6

-----------------------------------------------------------------------------
(* What is marked: by the windows in a text, and by the spans.             *)

\* Risky windows have integers for bounds.
Bounded(windows) == \A w \in Risky(windows) : w.start \in Int /\ w.end \in Int
\* The characters of a text, by their number, that its risky windows mark.
MarkedIn(t, windows) ==
  {k \in 1..ContentCount(t, Len(t)) : \E w \in Risky(windows) :
     w.start < ContentAt(t)[k] /\ ContentAt(t)[k] <= w.end}

\* A character lies in a range when the counts at its bounds say so.
LEMMA Between ==
  ASSUME NEW t \in Text, NEW k \in 1..ContentCount(t, Len(t)),
         NEW a \in 0..Len(t), NEW b \in 0..Len(t)
  PROVE  a < ContentAt(t)[k] /\ ContentAt(t)[k] <= b <=>
           ContentCount(t, a) < k /\ k <= ContentCount(t, b)
<1>1. Len(t) \in Nat
  BY DEF Text
<1>2. ContentAt(t)[k] <= a <=> k <= ContentCount(t, a)
  BY <1>1, ContentStands
<1>3. ContentAt(t)[k] <= b <=> k <= ContentCount(t, b)
  BY <1>1, ContentStands
<1>4. ContentAt(t)[k] \in Nat
  BY <1>1, ContentStands
<1>5. ContentCount(t, a) \in Nat
  BY <1>1, CountStep
<1>6. ContentCount(t, Len(t)) \in Nat
  BY <1>1, ContentStands
<1> QED BY <1>1, <1>2, <1>3, <1>4, <1>5, <1>6

\* The moved windows mark the same characters of the text that was sent.
LEMMA MarksMove ==
  ASSUME NEW o, NEW r, NEW ws, Readable(o, r, ws)
  PROVE  MarkedIn(r, ws) = MarkedIn(o, Remap(o, r, ws))
<1>1. /\ o \in Text /\ r \in Text /\ Len(r) \in Nat /\ Len(o) \in Nat
      /\ ContentCount(o, Len(o)) = ContentCount(r, Len(r))
  BY SameContent DEF Readable
<1>2. ASSUME NEW k \in 1..ContentCount(r, Len(r)), NEW i \in DOMAIN ws
      PROVE  ws[i].start < ContentAt(r)[k] /\ ContentAt(r)[k] <= ws[i].end <=>
               Remap(o, r, ws)[i].start < ContentAt(o)[k] /\ ContentAt(o)[k] <= Remap(o, r, ws)[i].end
  <2>1. PICK a, b, c, d :
          /\ a = ws[i].start /\ b = ws[i].end
          /\ c = Remap(o, r, ws)[i].start /\ d = Remap(o, r, ws)[i].end
    OBVIOUS
  <2>2. a \in 0..Len(r) /\ b \in 0..Len(r)
    <3>1. a \in 0..Len(r) /\ b \in a..Len(r)
      BY <2>1, Remapped
    <3> QED BY <1>1, <3>1
  <2>3. c \in 0..Len(o) /\ d \in 0..Len(o)
    <3>1. c \in 0..Len(o) /\ d \in c..Len(o)
      BY <2>1, WindowStays
    <3> QED BY <1>1, <3>1
  <2>4. ContentCount(o, c) = ContentCount(r, a) /\ ContentCount(o, d) = ContentCount(r, b)
    BY <2>1, WindowStays
  <2>5. a < ContentAt(r)[k] /\ ContentAt(r)[k] <= b <=>
          ContentCount(r, a) < k /\ k <= ContentCount(r, b)
    BY <1>1, <2>2, Between
  <2>6. k \in 1..ContentCount(o, Len(o))
    BY <1>1
  <2>7. c < ContentAt(o)[k] /\ ContentAt(o)[k] <= d <=>
          ContentCount(o, c) < k /\ k <= ContentCount(o, d)
    BY <1>1, <2>3, <2>6, Between
  <2> QED BY Zenon, <2>1, <2>4, <2>5, <2>7
<1>3. ASSUME NEW k \in 1..ContentCount(r, Len(r))
      PROVE  (\E w \in Risky(ws) : w.start < ContentAt(r)[k] /\ ContentAt(r)[k] <= w.end) <=>
             (\E w \in Risky(Remap(o, r, ws)) : w.start < ContentAt(o)[k] /\ ContentAt(o)[k] <= w.end)
  <2>1. ASSUME NEW w \in Risky(ws), w.start < ContentAt(r)[k], ContentAt(r)[k] <= w.end
        PROVE  \E v \in Risky(Remap(o, r, ws)) :
                 v.start < ContentAt(o)[k] /\ ContentAt(o)[k] <= v.end
    <3>1. PICK i \in DOMAIN ws : w = ws[i] /\ ws[i].risk
      BY DEF Risky
    <3>2. Remap(o, r, ws)[i] \in Risky(Remap(o, r, ws))
      BY <3>1, Remapped DEF Risky
    <3> QED BY <1>2, <2>1, <3>1, <3>2
  <2>2. ASSUME NEW v \in Risky(Remap(o, r, ws)),
               v.start < ContentAt(o)[k], ContentAt(o)[k] <= v.end
        PROVE  \E w \in Risky(ws) : w.start < ContentAt(r)[k] /\ ContentAt(r)[k] <= w.end
    <3>1. PICK i \in DOMAIN ws : v = Remap(o, r, ws)[i] /\ Remap(o, r, ws)[i].risk
      BY Remapped DEF Risky
    <3>2. ws[i] \in Risky(ws)
      BY <3>1, Remapped DEF Risky
    <3> QED BY <1>2, <2>2, <3>1, <3>2
  <2> QED BY <2>1, <2>2
<1> QED BY <1>1, <1>3 DEF MarkedIn

\* The part of a paragraph that a window marks.
LEMMA OverlapIs ==
  ASSUME NEW ps \in Seq(Text), NEW p \in 1..Len(ps),
         NEW w, w.start \in Int, w.end \in Int
  PROVE  /\ Overlap(ps, w, p).paragraph = p
         /\ Overlap(ps, w, p).start \in Int /\ Overlap(ps, w, p).end \in Int
         /\ w.start - Offset(ps)[p] <= Overlap(ps, w, p).start
         /\ Overlap(ps, w, p).end <= w.end - Offset(ps)[p]
         /\ \A i \in Int :
              Overlap(ps, w, p).start < i /\ i <= Overlap(ps, w, p).end <=>
                /\ i \in 1..Len(ps[p])
                /\ w.start < Offset(ps)[p] + i /\ Offset(ps)[p] + i <= w.end
<1>1. PICK a, n : a = Offset(ps)[p] /\ n = Len(ps[p]) /\ a \in Nat /\ n \in Nat
  BY ParagraphStands
<1>2. PICK b, e : b = w.start /\ e = w.end /\ b \in Int /\ e \in Int
  OBVIOUS
<1>3. PICK s, z : /\ s = (IF b > a THEN b ELSE a) - a
                  /\ z = (IF e < a + n THEN e ELSE a + n) - a
  OBVIOUS
<1>4. /\ Overlap(ps, w, p).paragraph = p
      /\ Overlap(ps, w, p).start = s /\ Overlap(ps, w, p).end = z
  BY <1>1, <1>2, <1>3 DEF Overlap, Larger, Smaller
<1>5. a \in Nat /\ n \in Nat /\ b \in Int /\ e \in Int
  BY <1>1, <1>2
<1>6. s \in Int /\ ((b > a /\ s = b - a) \/ (b <= a /\ s = 0))
  <2>1. CASE b > a
    BY <1>3, <1>5, <2>1
  <2>2. CASE ~(b > a)
    <3>1. s = a - a
      BY <1>3, <2>2
    <3> QED BY <1>5, <2>2, <3>1
  <2> QED BY <2>1, <2>2
<1>7. z \in Int /\ ((e < a + n /\ z = e - a) \/ (a + n <= e /\ z = n))
  <2>1. CASE e < a + n
    BY <1>3, <1>5, <2>1
  <2>2. CASE ~(e < a + n)
    <3>1. z = (a + n) - a
      BY <1>3, <2>2
    <3> QED BY <1>5, <2>2, <3>1
  <2> QED BY <2>1, <2>2
<1>8. b - a <= s /\ z <= e - a
  BY <1>5, <1>6, <1>7
<1>9. ASSUME NEW i \in Int
      PROVE  s < i /\ i <= z <=> i \in 1..n /\ b < a + i /\ a + i <= e
  <2>1. s < i <=> 0 < i /\ b < a + i
    BY <1>5, <1>6
  <2>2. i <= z <=> i <= n /\ a + i <= e
    BY <1>5, <1>7
  <2>3. i \in 1..n <=> 0 < i /\ i <= n
    BY <1>5
  <2> QED BY <2>1, <2>2, <2>3
<1> QED BY <1>1, <1>2, <1>4, <1>6, <1>7, <1>8, <1>9

\* A character of the document that a window marks lies in the part of a paragraph
\* that the window marks.
LEMMA OverlapHolds ==
  ASSUME NEW ps \in Seq(Text), NEW t, t = DocumentText(ps),
         NEW k \in 1..ContentCount(t, Len(t)),
         NEW w, w.start \in Int, w.end \in Int,
         w.start < ContentAt(t)[k], ContentAt(t)[k] <= w.end
  PROVE  \E p \in 1..Len(ps) : \E i \in 1..Len(ps[p]) :
           /\ ContentAt(t)[k] = Offset(ps)[p] + i /\ ps[p][i] # Space
           /\ Overlap(ps, w, p).start < i /\ i <= Overlap(ps, w, p).end
           /\ Overlap(ps, w, p).start < Overlap(ps, w, p).end
<1>1. Len(t) \in Nat
  BY Document DEF Joined, Text
<1>2. PICK y : /\ y = ContentAt(t)[k] /\ y \in 1..Len(t) /\ t[y] # Space
               /\ w.start < y /\ y <= w.end
  BY <1>1, ContentStands
<1>3. PICK p \in 1..Len(ps) : Offset(ps)[p] < y /\ y <= Offset(ps)[p] + Len(ps[p])
  BY <1>2, Document DEF Joined
<1>4. PICK a, n : /\ a = Offset(ps)[p] /\ n = Len(ps[p]) /\ a \in Nat /\ n \in Nat
                  /\ Stands(ps[p], n, t, a)
  BY ParagraphStands
<1>5. PICK i : i = y - a
  OBVIOUS
<1>6. i \in 1..n /\ i \in Int /\ a + i = y
  <2>1. y \in Nat /\ a < y /\ y <= a + n
    BY <1>1, <1>2, <1>3, <1>4
  <2>2. a \in Nat /\ n \in Nat
    BY <1>4
  <2>3. i \in Int /\ 1 <= i /\ i <= n /\ a + i = y
    BY <1>5, <2>1, <2>2
  <2> QED BY <2>2, <2>3
<1>7. ps[p][i] # Space
  BY <1>2, <1>4, <1>6 DEF Stands
<1>8. Overlap(ps, w, p).start < i /\ i <= Overlap(ps, w, p).end
  <2>1. i \in 1..Len(ps[p]) /\ w.start < Offset(ps)[p] + i /\ Offset(ps)[p] + i <= w.end
    BY <1>2, <1>4, <1>6
  <2> QED BY <1>6, <2>1, OverlapIs
<1>9. Overlap(ps, w, p).start < Overlap(ps, w, p).end
  <2>1. Overlap(ps, w, p).start \in Int /\ Overlap(ps, w, p).end \in Int
    BY OverlapIs
  <2> QED BY <1>6, <1>8, <2>1
<1> QED BY <1>2, <1>4, <1>6, <1>7, <1>8, <1>9

\* What the spans mark, when f[p] characters stand before paragraph p.
MarkedBy(ps, f, spans) ==
  UNION {{f[s.paragraph] + ContentCount(ps[s.paragraph], i) :
            i \in {j \in (s.start + 1)..s.end : ps[s.paragraph][j] # Space}} : s \in spans}

\* That is what MarkedHere says of them.
LEMMA MarkedIs ==
  ASSUME NEW ps \in Seq(Text), NEW spans
  PROVE  \E f : Numbers(ps, f) /\ MarkedHere(ps, spans) = MarkedBy(ps, f, spans)
<1>1. \E f : Numbers(ps, f)
  BY NumbersExist
<1>2. PICK f : f = CHOOSE g : Numbers(ps, g)
  OBVIOUS
<1>3. Numbers(ps, f)
  BY <1>1, <1>2
<1>4. MarkedHere(ps, spans) = MarkedBy(ps, f, spans)
  BY <1>2 DEF MarkedHere, MarkedBy, Numbers
<1> QED BY <1>3, <1>4

\* The spans of the windows mark what the windows mark in the document.
LEMMA SpansMark ==
  ASSUME NEW ps \in Seq(Text), NEW ws, Bounded(ws)
  PROVE  MarkedHere(ps, Spans(ps, ws)) = MarkedIn(DocumentText(ps), ws)
<1>1. PICK f : Numbers(ps, f) /\ MarkedHere(ps, Spans(ps, ws)) = MarkedBy(ps, f, Spans(ps, ws))
  BY MarkedIs
<1>2. PICK t : t = DocumentText(ps) /\ Len(t) \in Nat
  <2>1. Len(DocumentText(ps)) \in Nat
    BY Document DEF Joined, Text
  <2> QED BY <2>1
<1>3. ASSUME NEW x \in MarkedBy(ps, f, Spans(ps, ws)) PROVE x \in MarkedIn(t, ws)
  <2>1. PICK s \in Spans(ps, ws) :
          \E i \in (s.start + 1)..s.end :
            /\ ps[s.paragraph][i] # Space
            /\ x = f[s.paragraph] + ContentCount(ps[s.paragraph], i)
    BY <1>3 DEF MarkedBy
  <2>2. PICK i \in (s.start + 1)..s.end :
          ps[s.paragraph][i] # Space /\ x = f[s.paragraph] + ContentCount(ps[s.paragraph], i)
    BY <2>1
  <2>3. PICK w \in Risky(ws), p \in DOMAIN ps : s = Overlap(ps, w, p)
    BY DEF Spans, WindowSpans
  <2>4. w.start \in Int /\ w.end \in Int /\ p \in 1..Len(ps)
    BY DEF Bounded
  <2>5. /\ s.paragraph = p /\ s.start \in Int /\ s.end \in Int
    BY <2>3, <2>4, OverlapIs
  <2>6. i \in Int /\ s.start < i /\ i <= s.end
    BY <2>5
  <2>7. i \in 1..Len(ps[p]) /\ w.start < Offset(ps)[p] + i /\ Offset(ps)[p] + i <= w.end
    BY <2>3, <2>4, <2>6, OverlapIs
  <2>8. PICK y : /\ y = Offset(ps)[p] + i /\ y \in 1..Len(t) /\ t[y] = ps[p][i]
                 /\ ContentCount(t, y) = f[p] + ContentCount(ps[p], i)
    BY <1>1, <1>2, <2>4, <2>7, CharacterStands
  <2>9. t[y] # Space /\ ContentCount(t, y) = x
    BY <2>2, <2>5, <2>8
  <2>10. x \in 1..ContentCount(t, Len(t)) /\ ContentAt(t)[x] = y
    BY <1>2, <2>8, <2>9, ContentStands
  <2> QED BY <2>7, <2>8, <2>10 DEF MarkedIn
<1>4. ASSUME NEW k \in MarkedIn(t, ws) PROVE k \in MarkedBy(ps, f, Spans(ps, ws))
  <2>1. PICK w \in Risky(ws) : w.start < ContentAt(t)[k] /\ ContentAt(t)[k] <= w.end
    BY DEF MarkedIn
  <2>2. k \in 1..ContentCount(t, Len(t)) /\ w.start \in Int /\ w.end \in Int
    BY DEF MarkedIn, Bounded
  <2>3. PICK p \in 1..Len(ps) : \E i \in 1..Len(ps[p]) :
           /\ ContentAt(t)[k] = Offset(ps)[p] + i /\ ps[p][i] # Space
           /\ Overlap(ps, w, p).start < i /\ i <= Overlap(ps, w, p).end
           /\ Overlap(ps, w, p).start < Overlap(ps, w, p).end
    BY <1>2, <2>1, <2>2, OverlapHolds
  <2>4. PICK i \in 1..Len(ps[p]) :
           /\ ContentAt(t)[k] = Offset(ps)[p] + i /\ ps[p][i] # Space
           /\ Overlap(ps, w, p).start < i /\ i <= Overlap(ps, w, p).end
           /\ Overlap(ps, w, p).start < Overlap(ps, w, p).end
    BY <2>3
  <2>5. PICK s : s = Overlap(ps, w, p)
    OBVIOUS
  <2>6. s.paragraph = p /\ s.start \in Int /\ s.end \in Int
    BY <2>2, <2>5, OverlapIs
  <2>7. s \in Spans(ps, ws)
    BY <2>4, <2>5 DEF Spans, WindowSpans
  <2>8. i \in (s.start + 1)..s.end
    BY <2>4, <2>5, <2>6
  <2>9. k = f[p] + ContentCount(ps[p], i)
    <3>1. ContentCount(t, Offset(ps)[p] + i) = f[p] + ContentCount(ps[p], i)
      BY <1>1, <1>2, CharacterStands
    <3>2. ContentCount(t, ContentAt(t)[k]) = k
      BY <1>2, <2>2, ContentStands
    <3> QED BY <2>4, <3>1, <3>2
  <2> QED BY <2>4, <2>6, <2>7, <2>8, <2>9 DEF MarkedBy
<1> QED BY <1>1, <1>2, <1>3, <1>4

\* Spans of windows that do not overlap do not overlap.
LEMMA SpansApart ==
  ASSUME NEW ps \in Seq(Text), NEW ws, Bounded(ws), Disjoint(ws),
         NEW s \in Spans(ps, ws), NEW t \in Spans(ps, ws), s # t, s.paragraph = t.paragraph
  PROVE  Apart(s, t)
<1>1. PICK i, j, p, q :
        /\ i \in DOMAIN ws /\ ws[i] \in Risky(ws) /\ p \in DOMAIN ps /\ s = Overlap(ps, ws[i], p)
        /\ j \in DOMAIN ws /\ ws[j] \in Risky(ws) /\ q \in DOMAIN ps /\ t = Overlap(ps, ws[j], q)
  BY DEF Spans, WindowSpans, Risky
<1>2. PICK w, v : w = ws[i] /\ v = ws[j] /\ w \in Risky(ws) /\ v \in Risky(ws)
  BY <1>1
<1>3. w.start \in Int /\ w.end \in Int /\ v.start \in Int /\ v.end \in Int
  BY <1>2 DEF Bounded
<1>4. p \in 1..Len(ps) /\ q \in 1..Len(ps) /\ s = Overlap(ps, w, p) /\ t = Overlap(ps, v, q)
  BY <1>1, <1>2
<1>5. q = p
  BY <1>3, <1>4, OverlapIs
<1>6. i # j
  BY <1>1, <1>5
<1>7. Apart(w, v)
  BY <1>1, <1>2, <1>6 DEF Disjoint
<1>8. PICK a \in Nat : a = Offset(ps)[p]
  BY <1>4, OffsetIs
<1>9. /\ s.start \in Int /\ s.end \in Int /\ w.start - a <= s.start /\ s.end <= w.end - a
      /\ t.start \in Int /\ t.end \in Int /\ v.start - a <= t.start /\ t.end <= v.end - a
  BY <1>3, <1>4, <1>5, <1>8, OverlapIs
<1>10. s.end <= t.start \/ t.end <= s.start
  <2>1. CASE w.end <= v.start
    <3>1. PICK x \in Int, y \in Int : x = w.end /\ y = v.start /\ x <= y
      BY <1>3, <2>1
    <3>2. PICK z \in Int, u \in Int : z = s.end /\ u = t.start /\ z <= x - a /\ y - a <= u
      BY <1>9, <3>1
    <3>3. z <= u
      BY <3>1, <3>2
    <3> QED BY <3>2, <3>3
  <2>2. CASE v.end <= w.start
    <3>1. PICK x \in Int, y \in Int : x = v.end /\ y = w.start /\ x <= y
      BY <1>3, <2>2
    <3>2. PICK z \in Int, u \in Int : z = t.end /\ u = s.start /\ z <= x - a /\ y - a <= u
      BY <1>9, <3>1
    <3>3. z <= u
      BY <3>1, <3>2
    <3> QED BY <3>2, <3>3
  <2> QED BY <1>7, <2>1, <2>2 DEF Apart
<1> QED BY <1>10 DEF Apart

\* The bounds of the moved windows are integers.
LEMMA RemapBounded ==
  ASSUME NEW o, NEW r, NEW ws, Readable(o, r, ws)
  PROVE  Bounded(Remap(o, r, ws))
<1> SUFFICES ASSUME NEW w \in Risky(Remap(o, r, ws)) PROVE w.start \in Int /\ w.end \in Int
  BY DEF Bounded
<1>1. PICK i \in DOMAIN ws : w = Remap(o, r, ws)[i]
  BY Remapped DEF Risky
<1>2. PICK a, b : /\ a = Remap(o, r, ws)[i].start /\ b = Remap(o, r, ws)[i].end
                  /\ a \in 0..Len(o) /\ b \in a..Len(o)
  BY WindowStays
<1> QED BY <1>1, <1>2

\* A moved window that is not blank has a span.
LEMMA WindowHasSpan ==
  ASSUME NEW ps \in Seq(Text), NEW r, NEW ws, Readable(DocumentText(ps), r, ws),
         NEW i \in DOMAIN ws, Content(Slice(r, ws[i])) # <<>>
  PROVE  WindowSpans(ps, Remap(DocumentText(ps), r, ws)[i]) # {}
<1>1. PICK t : t = DocumentText(ps) /\ t \in Text /\ Len(t) \in Nat
  BY Document DEF Joined, Text
<1>2. PICK w, a, b :
        /\ w = Remap(t, r, ws)[i] /\ a = w.start /\ b = w.end
        /\ a \in 0..Len(t) /\ b \in a..Len(t)
        /\ ContentCount(t, a) = ContentCount(r, ws[i].start)
        /\ ContentCount(t, b) = ContentCount(r, ws[i].end)
  BY <1>1, WindowStays
<1>3. a \in 0..Len(t) /\ b \in 0..Len(t) /\ a \in Nat /\ b \in Nat /\ b <= Len(t)
  BY <1>1, <1>2
<1>4. ContentCount(t, a) < ContentCount(t, b)
  BY <1>1, <1>2, WindowHolds
<1>5. PICK k : k = ContentCount(t, b)
  OBVIOUS
<1>6. ContentCount(t, a) \in Nat /\ k \in Nat /\ k <= ContentCount(t, Len(t))
  BY <1>1, <1>3, <1>5, CountStep, CountGrows
<1>7. k \in 1..ContentCount(t, Len(t))
  <2>1. ContentCount(t, Len(t)) \in Nat
    BY <1>1, CountStep
  <2> QED BY <1>4, <1>5, <1>6, <2>1
<1>8. a < ContentAt(t)[k] /\ ContentAt(t)[k] <= b
  <2>1. ContentCount(t, a) < k /\ k <= ContentCount(t, b)
    BY <1>4, <1>5, <1>6
  <2> QED BY <1>1, <1>3, <1>7, <2>1, Between
<1>9. w.start \in Int /\ w.end \in Int
  BY <1>2, <1>3
<1>10. w.start < ContentAt(t)[k] /\ ContentAt(t)[k] <= w.end
  BY <1>2, <1>8
<1>11. \E p \in 1..Len(ps) : Overlap(ps, w, p).start < Overlap(ps, w, p).end
  <2>1. \E p \in 1..Len(ps) : \E y \in 1..Len(ps[p]) :
          /\ ContentAt(t)[k] = Offset(ps)[p] + y /\ ps[p][y] # Space
          /\ Overlap(ps, w, p).start < y /\ y <= Overlap(ps, w, p).end
          /\ Overlap(ps, w, p).start < Overlap(ps, w, p).end
    BY <1>1, <1>7, <1>9, <1>10, OverlapHolds
  <2> QED BY <2>1
<1>12. WindowSpans(ps, w) # {}
  BY <1>11 DEF WindowSpans
<1> QED BY <1>1, <1>2, <1>12

\* A report over a text that was only normalised, with disjoint quotes of it none of which
\* is all blank, never makes detect raise range_mismatch.
THEOREM ReportMaps ==
  ASSUME NEW ps \in Seq(Text), NEW r, Readable(DocumentText(ps), r.text, r.windows),
         \A i \in DOMAIN r.windows : Content(Slice(r.text, r.windows[i])) # <<>>
  PROVE  Mappable(ps, r)
<1>1. PICK t, u, ws : t = DocumentText(ps) /\ u = r.text /\ ws = r.windows
  OBVIOUS
<1>2. Readable(t, u, ws)
  BY <1>1
<1>3. Normalized(t, u) /\ WindowsValid(u, ws)
  BY <1>2 DEF Readable
<1>4. \A i \in DOMAIN ws : Content(Slice(u, ws[i])) # <<>>
  BY <1>1
<1>5. RemapSafe(t, u, ws)
  BY <1>2, <1>4, RemapsSafely
<1>6. ASSUME NEW w \in Risky(Remap(t, u, ws)) PROVE WindowSpans(ps, w) # {}
  <2>1. PICK i \in DOMAIN ws : w = Remap(t, u, ws)[i]
    BY <1>2, Remapped DEF Risky
  <2> QED BY <1>1, <1>2, <1>4, <2>1, WindowHasSpan
<1> QED BY <1>1, <1>3, <1>5, <1>6 DEF Mappable

\* The spans of a report mark what its windows mark, and do not overlap.
LEMMA ReportMarks ==
  ASSUME NEW ps \in Seq(Text), NEW r, Readable(DocumentText(ps), r.text, r.windows)
  PROVE  /\ MarkedHere(ps, ReportSpans(ps, r)) = MarkedByProvider(r)
         /\ \A s, t \in ReportSpans(ps, r) : s # t /\ s.paragraph = t.paragraph => Apart(s, t)
<1>1. PICK o, u, ws, old :
        o = DocumentText(ps) /\ u = r.text /\ ws = r.windows /\ old = Remap(o, u, ws)
  OBVIOUS
<1>2. Readable(o, u, ws)
  BY <1>1
<1>3. Bounded(old) /\ Disjoint(old)
  BY <1>1, <1>2, RemapBounded, WindowsApart
<1>4. ReportSpans(ps, r) = Spans(ps, old)
  BY <1>1 DEF ReportSpans
<1>5. MarkedHere(ps, Spans(ps, old)) = MarkedIn(o, old)
  BY <1>1, <1>3, SpansMark
<1>6. MarkedIn(u, ws) = MarkedIn(o, old)
  BY <1>1, <1>2, MarksMove
<1>7. MarkedByProvider(r) = MarkedIn(u, ws)
  <2>1. Len(u) \in Nat
    BY <1>2 DEF Readable, Text
  <2>2. DOMAIN ContentAt(u) = 1..ContentCount(u, Len(u))
    BY <2>1, ContentStands
  <2> QED BY <1>1, <2>2 DEF MarkedByProvider, MarkedIn
<1>8. \A s, t \in Spans(ps, old) : s # t /\ s.paragraph = t.paragraph => Apart(s, t)
  BY <1>3, SpansApart
<1> QED BY <1>4, <1>5, <1>6, <1>7, <1>8

-----------------------------------------------------------------------------
(* Only the reading of a report decides what a detection marks.            *)

\* What MarksTheSameText says of a result and of the report it was made from.
MarksOf(k, res, r) ==
  /\ k = "detection" /\ res.code = "success" =>
       /\ MarkedHere(Paragraphs, res.spans) = MarkedByProvider(r)
       /\ \A s, t \in res.spans : s # t /\ s.paragraph = t.paragraph => Apart(s, t)
  /\ res.code = "invalid report" /\ r.sound
     /\ Normalized(DocumentText(Paragraphs), r.text) /\ WindowsValid(r.text, r.windows)
       => \E i \in DOMAIN r.windows : Content(Slice(r.text, r.windows[i])) = <<>>

\* It is MarksTheSameText, before and after a step.
LEMMA MarksAre ==
  /\ MarksTheSameText <=> MarksOf(kind, result, read.report)
  /\ MarksTheSameText' <=> MarksOf(kind', result', read'.report)
BY DEF MarksTheSameText, MarksOf

\* A result that is neither a report's nor new is what it was.
LEMMA MarksStay ==
  ASSUME MarksTheSameText, kind' = kind, read'.report = read.report,
         \/ result' = result
         \/ result'.code \notin {"success", "invalid report"}
         \/ kind # "detection" /\ result'.code # "invalid report"
  PROVE  MarksTheSameText'
<1>1. MarksOf(kind, result, read.report)
  BY MarksAre
<1>2. MarksOf(kind', result', read'.report)
  <2>1. CASE result' = result
    BY <1>1, <2>1
  <2>2. CASE result'.code \notin {"success", "invalid report"}
    BY <2>2 DEF MarksOf
  <2>3. CASE kind # "detection" /\ result'.code # "invalid report"
    BY <2>3 DEF MarksOf
  <2> QED BY <2>1, <2>2, <2>3
<1> QED BY <1>2, MarksAre

\* A failure has the code it is given.
LEMMA FailsWith ==
  ASSUME NEW code, NEW reference, Fails(code, reference) PROVE result'.code = code
BY DEF Fails, End, NoResult

\* What is made of a report marks what it marks, and only a blank window, or more than
\* white space changed, refuses a sound one.
LEMMA ReadReportMarks == ASSUME IInv, Approval, ReadReport PROVE MarksTheSameText'
<1>1. PICK report \in Reports :
        /\ read' = [read EXCEPT !.report = report]
        /\ \/ /\ Usable(report)
              /\ End([NoResult EXCEPT !.code = "success", !.reference = TRUE,
                                      !.spans = ReportSpans(Paragraphs, report)], usage)
           \/ ~Usable(report) /\ Fails("invalid report", TRUE)
           \/ ~report.sound /\ FailsUnexpectedly
  BY DEF ReadReport
<1>2. read'.report = report
  BY <1>1 DEF Approval, Drafted
<1>3. PICK ps \in Seq(Text), o \in Text : ps = Paragraphs /\ o = DocumentText(ps)
  <2>1. Paragraphs \in Seq(Text)
    BY ClientAssumption DEF ClientAssumption
  <2>2. DocumentText(Paragraphs) \in Text
    BY <2>1, Document DEF Joined
  <2> QED BY <2>1, <2>2
<1>4. PICK r : r = report /\ r.text \in Text /\ r.windows \in Seq(Window)
  BY ClientAssumption DEF ClientAssumption
<1>5. CASE /\ Usable(report)
           /\ End([NoResult EXCEPT !.code = "success", !.reference = TRUE,
                                   !.spans = ReportSpans(Paragraphs, report)], usage)
  <2>1. result'.code = "success" /\ result'.spans = ReportSpans(ps, r)
    BY <1>3, <1>4, <1>5 DEF End, NoResult
  <2>2. Readable(DocumentText(ps), r.text, r.windows)
    BY <1>3, <1>4, <1>5 DEF Usable, Mappable, Readable
  <2>3. /\ MarkedHere(ps, ReportSpans(ps, r)) = MarkedByProvider(r)
        /\ \A s, t \in ReportSpans(ps, r) : s # t /\ s.paragraph = t.paragraph => Apart(s, t)
    BY <2>2, ReportMarks
  <2>4. MarksOf(kind', result', r)
    BY <1>3, <2>1, <2>3 DEF MarksOf
  <2> QED BY <1>2, <1>4, <2>4, MarksAre
<1>6. CASE ~Usable(report) /\ Fails("invalid report", TRUE)
  <2>1. result'.code = "invalid report"
    BY <1>6, FailsWith
  <2>2. ASSUME r.sound, Normalized(o, r.text), WindowsValid(r.text, r.windows)
        PROVE  \E i \in DOMAIN r.windows : Content(Slice(r.text, r.windows[i])) = <<>>
    <3> SUFFICES ASSUME \A i \in DOMAIN r.windows : Content(Slice(r.text, r.windows[i])) # <<>>
                 PROVE  FALSE
      OBVIOUS
    <3>1. Readable(DocumentText(ps), r.text, r.windows)
      BY <1>3, <1>4, <2>2 DEF Readable
    <3>2. Mappable(ps, r)
      BY <3>1, ReportMaps
    <3> QED BY <1>3, <1>4, <1>6, <2>2, <3>2 DEF Usable
  <2>3. MarksOf(kind', result', r)
    BY <1>3, <2>1, <2>2 DEF MarksOf
  <2> QED BY <1>2, <1>4, <2>3, MarksAre
<1>7. CASE FailsUnexpectedly
  <2>1. result'.code = "provider_failed"
    BY <1>7, FailsWith DEF FailsUnexpectedly
  <2>2. MarksOf(kind', result', r)
    BY <2>1 DEF MarksOf
  <2> QED BY <1>2, <1>4, <2>2, MarksAre
<1> QED BY <1>1, <1>5, <1>6, <1>7

\* The codes of the statuses are others (_raise_for_provider_status).
LEMMA StatusCodes ==
  \A seen \in DOMAIN StatusCode : StatusCode[seen] \notin {"success", "invalid report"}
<1>1. DOMAIN StatusCode = {"denied", "credit", "limited", "rejected", "down", "other"}
  BY DEF StatusCode
<1>2. /\ StatusCode["denied"] = "authentication_failed"
      /\ StatusCode["credit"] = "insufficient_credits"
      /\ StatusCode["limited"] = "rate_limited"
      /\ StatusCode["rejected"] = "invalid_request"
      /\ StatusCode["down"] = "service_unavailable"
      /\ StatusCode["other"] = "provider_failed"
  BY DEF StatusCode
<1> QED BY <1>1, <1>2

\* Every step keeps it.
LEMMA MarksKept ==
  ASSUME IInv, Approval, MarksTheSameText, [Next]_vars PROVE MarksTheSameText'
<1>1. CASE ReadReport
  BY <1>1, ReadReportMarks
<1>2. CASE RewriteDone \/ ValidationDone
  <2>1. kind # "detection" /\ kind' = kind
    BY <1>2 DEF RewriteDone, ValidationDone, Over, IInv, Detects, Completion
  <2>2. read'.report = read.report
    BY <1>2 DEF RewriteDone, ValidationDone, Approval, Drafted
  <2>3. result' = result \/ result'.code # "invalid report"
    <3>1. CASE RewriteDone
      BY <3>1 DEF RewriteDone, End, NoResult
    <3>2. CASE ValidationDone
      <4>1. PICK res : /\ result' = res
                       /\ \/ res = [NoResult EXCEPT !.code = "success", !.revisions = Kept(read.draft)]
                          \/ res = [NoResult EXCEPT !.code = "refused"]
        BY <3>2 DEF ValidationDone, End
      <4> QED BY <4>1 DEF NoResult
    <3> QED BY <1>2, <3>1, <3>2
  <2> QED BY <2>1, <2>2, <2>3, MarksStay
<1>3. CASE \/ BeginDetection \/ BeginRewrite \/ PollOrGiveUp
           \/ \E body \in Body : ModelsDone(body) \/ SubmitDone(body) \/ PollDone(body)
           \/ \E op \in Completion, body \in Body : CompletionFails(op, body)
  <2>1. UNCHANGED <<kind, read>>
    BY <1>3 DEF BeginDetection, BeginRewrite, PollOrGiveUp, ModelsDone, SubmitDone, PollDone,
                CompletionFails
  <2>2. result' = result \/ result'.code \notin {"success", "invalid report"}
    <3>1. CASE BeginDetection \/ BeginRewrite \/ PollOrGiveUp
      BY <3>1, FailsWith DEF BeginDetection, BeginRewrite, PollOrGiveUp
    <3>2. CASE \E body \in Body : ModelsDone(body)
      BY <3>2, FailsWith, StatusCodes DEF ModelsDone, FailsUnexpectedly
    <3>3. CASE \E body \in Body : SubmitDone(body)
      BY <3>3, FailsWith, StatusCodes DEF SubmitDone, FailsUnexpectedly
    <3>4. CASE \E body \in Body : PollDone(body)
      BY <3>4, FailsWith, StatusCodes DEF PollDone, FailsUnexpectedly
    <3>5. CASE \E op \in Completion, body \in Body : CompletionFails(op, body)
      BY <3>5 DEF CompletionFails, Fails, End, NoResult
    <3> QED BY <1>3, <3>1, <3>2, <3>3, <3>4, <3>5
  <2> QED BY <2>1, <2>2, MarksStay
<1>4. CASE \/ Send \/ TaskEnds \/ UNCHANGED vars
           \/ \E seen \in Seen, asked \in After : Answer(seen, asked)
  BY <1>4, MarksStay DEF Send, TaskEnds, Answer, vars
<1> QED BY <1>1, <1>2, <1>3, <1>4 DEF Next, Requests, Readings

\* Whatever Pangram did to the white space, the spans of a detection mark exactly the
\* characters that its windows marked and do not overlap, and a sound report of disjoint
\* quotes is refused only if a window of it is all blank (_remap_normalized_windows,
\* _spans_for_windows).
THEOREM MarksWhatPangramMarked == Spec => []MarksTheSameText
<1>1. Init => MarksTheSameText
  BY DEF Init, NoResult, MarksTheSameText
<1>2. IInv /\ Approval /\ MarksTheSameText /\ [Next]_vars => MarksTheSameText'
  BY MarksKept
<1>3. IInv /\ Approval /\ [Next]_vars => Approval'
  BY ApprovalKept
<1> QED BY ApprovalOpens, Invariant, <1>1, <1>2, <1>3, PTL DEF Spec
=============================================================================
