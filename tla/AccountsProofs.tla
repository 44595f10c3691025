--------------------------- MODULE AccountsProofs ---------------------------
(***************************************************************************)
(* Why members stay within the cap, one change of credentials wins, a      *)
(* session follows the password, originals belong to documents and members *)
(* keep to the capacity of their plan, for any accounts, requests,         *)
(* documents and limits.  The argument has three parts.                    *)
(* Members: one request registers at a time and the account it will insert *)
(* is nobody's; the row of a user is locked by one request, so what it has *)
(* verified cannot change under it; an identity names the version it was   *)
(* read with.  Files: what a request removes has a row and, once it says   *)
(* so, no original; what it has put in the store is of an id of its own.   *)
(* Quota: who has counted for a member holds the row of the billing        *)
(* account, and a save the row of its document, so that what was counted   *)
(* still fits when it commits; only what others take away can come between.*)
(***************************************************************************)
EXTENDS Accounts, FiniteSetTheorems, WellFoundedInduction, TLAPS

\* One request registers at a time, an account nobody has, while there is room.
Registration ==
  /\ \A c, e \in At({"registering"}) : c = e
  /\ \A c \in At({"registering"}) :
       account[call[c].acct].life = "unused" /\ Cardinality(Live) < MaxAccounts

\* The row of a user is locked by one request.
OneLock == \A c, e \in At({"locked", "checked"}) : call[c].acct = call[e].acct => c = e

Members == Registration /\ AccountCap /\ OneLock /\ OneWinner

\* What a request removes is a document, and its original is out of the store once the
\* request has said so; what it has put in the store is of a document of its own.
Removing ==
  /\ \A c \in At({"locked", "checked", "removing"}) : \A d \in call[c].docs : doc[d].life # "unused"
  /\ \A c \in At({"checked", "removing"}) : call[c].docs \cap object = {}
  /\ \A c \in At({"put"}) : \E d \in Doc : call[c].docs = {d} /\ doc[d].life = "unused"
  /\ \A c, e \in At({"put"}) : c # e => call[c].docs \cap call[e].docs = {}

Files == Removing /\ FilesBelong

IInv == TypeOK /\ Members /\ Files

\* A request that is to add to an account has authenticated as its member; a creation has
\* no document yet, a save has locked one of the member's.
Adding(c) ==
  /\ call[c].pc \in {"authenticated", "ensured", "counted", "put"} =>
       account[call[c].acct].life # "unused"
  /\ call[c].pc \in {"ensured", "counted", "put"} =>
       \/ call[c].op = "create" /\ (call[c].pc = "put" \/ call[c].docs = {})
       \/ /\ call[c].op = "save" /\ call[c].pc # "put"
          /\ \E d \in Doc : /\ call[c].docs = {d} /\ doc[d].life # "unused"
                            /\ doc[d].owner = call[c].acct

\* The row of a member's billing account is there, or locked by who inserts it; who has
\* counted holds it.
Holding(c) ==
  call[c].acct \in Live =>
    /\ call[c].pc = "ensured" => call[c].held \/ billing[call[c].acct] # "none"
    /\ call[c].pc \in {"counted", "put"} => call[c].held

\* What was counted still fits.
Room(c) == call[c].pc \in {"counted", "put"} /\ call[c].acct \in Live => Fits(c)

\* The row of a billing account, and of a document, is locked by one request.
Apart(c, e) ==
  /\ {c, e} \subseteq At({"ensured", "counted", "put"}) /\ call[c].held /\ call[e].held =>
       call[c].acct # call[e].acct
  /\ {c, e} \subseteq At({"ensured", "counted", "removing", "checked"}) =>
       call[c].docs \cap call[e].docs = {}

Sound(c) == Adding(c) /\ Holding(c) /\ Room(c) /\ \A e \in Call \ {c} : Apart(c, e)
Quota == \A c \in Call : Sound(c)

-----------------------------------------------------------------------------
(* Bytes is a sum over a set of documents, computed in one order: the      *)
(* order does not matter, and less is left when documents go.              *)

\* The bytes of a document, and of a set of them, in the table D.
Weight(D, d) == D[d].text + D[d].original
Size(D, S) == MapThenSumSet(LAMBDA d : D[d].text + D[d].original, S)

Weighed(D, S) == IsFiniteSet(S) /\ \A d \in S : Weight(D, d) \in Nat

Any(s) == CHOOSE x \in s : TRUE

\* h sums the subsets of S, one element after the other.
Sums(D, S, h) ==
  h = [s \in SUBSET S |-> IF s = {} THEN 0 ELSE Weight(D, Any(s)) + h[s \ {Any(s)}]]

SumOf(D, S, h) == h \in [SUBSET S -> Nat] /\ Sums(D, S, h)

\* The documents of T weigh the same in D and in E.
Alike(D, E, T) == \A d \in T : Weight(E, d) = Weight(D, d)

\* g sums the subsets of S that have at most n elements.
Upto(S, n) == {s \in SUBSET S : Cardinality(s) <= n}
SumsUpto(D, S, n, g) ==
  /\ g \in [Upto(S, n) -> Nat]
  /\ \A s \in Upto(S, n) : g[s] = IF s = {} THEN 0 ELSE Weight(D, Any(s)) + g[s \ {Any(s)}]

\* The element that is taken first is one.
LEMMA AnyOf == ASSUME NEW s, s # {} PROVE Any(s) \in s
BY DEF Any

\* A smallest of a set of numbers.
LEMMA Least ==
  ASSUME NEW T, T \subseteq Nat, T # {}
  PROVE  \E m \in T : \A n \in T : m <= n
<1>1. PICK m \in T : \A n \in T : ~(<<n, m>> \in OpToRel(<, Nat))
  BY WFMin, NatLessThanWellFounded, Zenon
<1>2. \A n \in T : ~(n < m)
  BY <1>1 DEF OpToRel
<1> QED BY <1>2

\* A smallest of a set of finite sets.
LEMMA Smallest ==
  ASSUME NEW Z, Z # {}, \A s \in Z : IsFiniteSet(s)
  PROVE  \E s \in Z : \A t \in Z : Cardinality(s) <= Cardinality(t)
<1> DEFINE C == {Cardinality(s) : s \in Z}
<1>1. C \subseteq Nat /\ C # {}
  BY FS_CardinalityType
<1>2. PICK m \in C : \A n \in C : m <= n
  BY <1>1, Least
<1> QED BY <1>2

\* The subsets of S with at most n elements have sums.
LEMMA SumsTo ==
  ASSUME NEW D, NEW S, Weighed(D, S), NEW n \in Nat
  PROVE  \E g : SumsUpto(D, S, n, g)
<1> DEFINE U(m) == Upto(S, m)
           Good(m, g) == SumsUpto(D, S, m, g)
           Bad == {m \in Nat : ~\E g : Good(m, g)}
<1>f. \A s \in SUBSET S : IsFiniteSet(s) /\ Cardinality(s) \in Nat /\ (Cardinality(s) = 0 <=> s = {})
  BY FS_Subset, FS_CardinalityType, FS_EmptySet DEF Weighed
<1>r. \A s \in SUBSET S : s # {} =>
        /\ Any(s) \in s /\ Weight(D, Any(s)) \in Nat
        /\ s \ {Any(s)} \in SUBSET S /\ Cardinality(s \ {Any(s)}) = Cardinality(s) - 1
  <2> SUFFICES ASSUME NEW s \in SUBSET S, s # {} 
               PROVE /\ Any(s) \in s /\ Weight(D, Any(s)) \in Nat
                     /\ s \ {Any(s)} \in SUBSET S /\ Cardinality(s \ {Any(s)}) = Cardinality(s) - 1
    OBVIOUS
  <2>1. Any(s) \in s
    BY AnyOf
  <2>2. Cardinality(s \ {Any(s)}) = Cardinality(s) - 1
    BY <1>f, <2>1, FS_RemoveElement
  <2> QED BY <2>1, <2>2 DEF Weighed
<1> SUFFICES ASSUME Bad # {} PROVE FALSE
  OBVIOUS
<1>1. PICK m \in Bad : \A k \in Bad : m <= k
  BY Least
<1>2. m \in Nat /\ \A g : ~Good(m, g)
  OBVIOUS
<1> HIDE DEF Good, Bad
<1>3. CASE m = 0
  <2> DEFINE g == [s \in U(m) |-> 0]
  <2>1. \A s \in U(m) : s = {}
    BY <1>f, <1>3 DEF Upto
  <2>2. Good(m, g)
    BY <2>1 DEF Good, SumsUpto, Upto
  <2> QED BY <1>2, <2>2
<1>4. CASE m # 0
  <2>1. m - 1 \in Nat /\ m - 1 \notin Bad
    BY <1>1, <1>2, <1>4
  <2>2. PICK g : Good(m - 1, g)
    BY <2>1 DEF Bad
  <2> DEFINE e == [s \in U(m) |-> IF s = {} THEN 0 ELSE Weight(D, Any(s)) + g[s \ {Any(s)}]]
  <2>3. \A s \in U(m) : s # {} => s \ {Any(s)} \in U(m - 1)
    BY <1>f, <1>r, <1>2 DEF Upto
  <2>4. g \in [U(m - 1) -> Nat]
    BY <2>2 DEF Good, SumsUpto, Upto
  <2>5. e \in [U(m) -> Nat]
    BY <1>r, <2>3, <2>4 DEF Upto
  <2>6. \A s \in U(m - 1) : e[s] = g[s]
    <3> SUFFICES ASSUME NEW s \in U(m - 1) PROVE e[s] = g[s]
      OBVIOUS
    <3>1. s \in U(m)
      BY <1>f, <1>2 DEF Upto
    <3>2. g[s] = IF s = {} THEN 0 ELSE Weight(D, Any(s)) + g[s \ {Any(s)}]
      BY <2>2 DEF Good, SumsUpto, Upto
    <3> QED BY <3>1, <3>2
  <2>7. \A s \in U(m) : e[s] = IF s = {} THEN 0 ELSE Weight(D, Any(s)) + e[s \ {Any(s)}]
    BY <2>3, <2>6
  <2> HIDE DEF e
  <2>8. Good(m, e)
    BY <2>5, <2>7 DEF Good, SumsUpto, Upto
  <2> QED BY <1>2, <2>8
<1> QED BY <1>3, <1>4

\* Two functions that sum elements of the same weights agree.
LEMMA Agree ==
  ASSUME NEW D, NEW E, NEW S, NEW T, IsFiniteSet(S), T \subseteq S,
         Alike(D, E, T),
         NEW h, Sums(D, S, h), NEW g, Sums(E, T, g)
  PROVE  \A s \in SUBSET T : g[s] = h[s]
<1> DEFINE Z == {s \in SUBSET T : g[s] # h[s]}
<1>f. \A s \in SUBSET S : IsFiniteSet(s) /\ Cardinality(s) \in Nat
  BY FS_Subset, FS_CardinalityType
<1> SUFFICES ASSUME Z # {} PROVE FALSE
  OBVIOUS
<1>1. PICK s \in Z : \A t \in Z : Cardinality(s) <= Cardinality(t)
  BY <1>f, Smallest
<1>2. h[s] = (IF s = {} THEN 0 ELSE Weight(D, Any(s)) + h[s \ {Any(s)}])
  BY DEF Sums
<1>3. g[s] = (IF s = {} THEN 0 ELSE Weight(E, Any(s)) + g[s \ {Any(s)}])
  BY DEF Sums
<1>4. s # {} /\ g[s] # h[s]
  BY <1>2, <1>3
<1>5. Any(s) \in s
  BY <1>4, AnyOf
<1>6. Cardinality(s \ {Any(s)}) = Cardinality(s) - 1 /\ Cardinality(s) \in Nat
  BY <1>f, <1>5, FS_RemoveElement
<1>7. s \ {Any(s)} \notin Z
  BY <1>1, <1>6
<1>8. g[s \ {Any(s)}] = h[s \ {Any(s)}]
  BY <1>7
<1>9. Weight(E, Any(s)) = Weight(D, Any(s))
  BY <1>5 DEF Alike
<1> QED BY <1>2, <1>3, <1>4, <1>8, <1>9

\* The sum of S is computed by a function on its subsets, of which it is a value.
LEMMA SizeIs ==
  ASSUME NEW D, NEW S, Weighed(D, S)
  PROVE  \E h : SumOf(D, S, h) /\ Size(D, S) = h[S]
<1> DEFINE g == CHOOSE h : Sums(D, S, h)
<1>1. Size(D, S) = g[S]
  BY Zenon DEF Size, MapThenSumSet, MapThenFoldSet, Sums, Weight, Any
<1>2. \A s \in SUBSET S : Cardinality(s) <= Cardinality(S)
  BY FS_Subset DEF Weighed
<1>3. Cardinality(S) \in Nat /\ Upto(S, Cardinality(S)) = SUBSET S
  BY <1>2, FS_CardinalityType DEF Weighed, Upto
<1>4. PICK f : SumsUpto(D, S, Cardinality(S), f)
  BY <1>3, SumsTo
<1>5. f \in [SUBSET S -> Nat] /\ Sums(D, S, f)
  BY <1>3, <1>4 DEF Sums, SumsUpto
<1>6. Sums(D, S, g)
  BY <1>5
<1> HIDE DEF g
<1>7. \A s \in SUBSET S : g[s] = f[s]
  BY <1>5, <1>6, Agree DEF Weighed, Alike
<1>8. g \in [SUBSET S -> Nat]
  <2>1. g = [s \in SUBSET S |-> IF s = {} THEN 0 ELSE Weight(D, Any(s)) + g[s \ {Any(s)}]]
    BY <1>6 DEF Sums
  <2>2. g = [s \in SUBSET S |-> g[s]]
    BY ONLY <2>1
  <2> QED BY <1>5, <1>7, <2>2
<1> QED BY <1>1, <1>6, <1>8 DEF SumOf

\* Whichever element is taken first.
LEMMA SumsAny ==
  ASSUME NEW D, NEW S, Weighed(D, S), NEW h, SumOf(D, S, h)
  PROVE  \A s \in SUBSET S : \A x \in s : h[s] = Weight(D, x) + h[s \ {x}]
<1>0. \A s \in SUBSET S : s # {} => h[s] = Weight(D, Any(s)) + h[s \ {Any(s)}]
  BY DEF SumOf, Sums
<1> DEFINE Z == {s \in SUBSET S : \E x \in s : h[s] # Weight(D, x) + h[s \ {x}]}
<1>f. \A s \in SUBSET S : IsFiniteSet(s) /\ Cardinality(s) \in Nat
  BY FS_Subset, FS_CardinalityType DEF Weighed
<1> SUFFICES ASSUME Z # {} PROVE FALSE
  OBVIOUS
<1>1. PICK s \in Z : \A t \in Z : Cardinality(s) <= Cardinality(t)
  BY <1>f, Smallest
<1>2. PICK x \in s : h[s] # Weight(D, x) + h[s \ {x}]
  OBVIOUS
<1>3. PICK y \in s : y = Any(s)
  BY AnyOf
<1>4. h[s] = Weight(D, y) + h[s \ {y}]
  BY <1>0, <1>3
<1>5. x # y
  BY <1>2, <1>4
<1>6. \A z \in s : s \ {z} \in SUBSET S /\ s \ {z} \notin Z
  <2> SUFFICES ASSUME NEW z \in s PROVE s \ {z} \in SUBSET S /\ s \ {z} \notin Z
    OBVIOUS
  <2>1. Cardinality(s \ {z}) = Cardinality(s) - 1 /\ Cardinality(s) \in Nat
    BY <1>f, FS_RemoveElement
  <2>2. ~(Cardinality(s) <= Cardinality(s \ {z}))
    BY <2>1
  <2> QED BY <1>1, <2>2
<1>7. h[s \ {y}] = Weight(D, x) + h[(s \ {y}) \ {x}]
  BY <1>5, <1>6
<1>8. h[s \ {x}] = Weight(D, y) + h[(s \ {x}) \ {y}]
  BY <1>5, <1>6
<1>9. (s \ {x}) \ {y} = (s \ {y}) \ {x}
  OBVIOUS
<1>10. Weight(D, x) \in Nat /\ Weight(D, y) \in Nat /\ h[(s \ {y}) \ {x}] \in Nat
  BY DEF Weighed, SumOf
<1>11. PICK n \in Nat, m \in Nat, k \in Nat :
         n = Weight(D, x) /\ m = Weight(D, y) /\ k = h[(s \ {y}) \ {x}]
  BY <1>10
<1>12. h[s] = m + (n + k) /\ h[s \ {x}] = m + k
  BY <1>4, <1>7, <1>8, <1>9, <1>11
<1>13. n + (m + k) = m + (n + k)
  OBVIOUS
<1> QED BY <1>2, <1>11, <1>12, <1>13

\* The size of what is left of S, and of S, when the elements weigh the same.
LEMMA SizeSubset ==
  ASSUME NEW D, NEW E, NEW S, NEW T, Weighed(D, S), T \subseteq S,
         Alike(D, E, T),
         NEW h, SumOf(D, S, h)
  PROVE  Weighed(E, T) /\ Size(E, T) = h[T]
<1>1. Weighed(E, T)
  BY FS_Subset DEF Weighed, Alike
<1>2. PICK g : SumOf(E, T, g) /\ Size(E, T) = g[T]
  BY <1>1, SizeIs
<1>3. g[T] = h[T]
  BY <1>2, Agree DEF Weighed, SumOf
<1> QED BY <1>1, <1>2, <1>3

\* The size of a set is that of one element and that of the others.
LEMMA SizeTakes ==
  ASSUME NEW D, NEW S, Weighed(D, S), NEW x \in S
  PROVE  /\ Size(D, S) \in Nat /\ Size(D, S \ {x}) \in Nat
         /\ Size(D, S) = Weight(D, x) + Size(D, S \ {x})
<1>1. PICK h : SumOf(D, S, h) /\ Size(D, S) = h[S]
  BY SizeIs
<1>2. Size(D, S \ {x}) = h[S \ {x}]
  <2>1. S \ {x} \subseteq S /\ Alike(D, D, S \ {x})
    BY DEF Alike
  <2> QED BY <1>1, <2>1, SizeSubset
<1>3. h[S] = Weight(D, x) + h[S \ {x}]
  BY <1>1, SumsAny
<1>4. h[S] \in Nat /\ h[S \ {x}] \in Nat
  BY <1>1 DEF SumOf
<1> QED BY <1>1, <1>2, <1>3, <1>4

\* What is left is no larger.
LEMMA SizeShrinks ==
  ASSUME NEW D, NEW E, NEW S, NEW T, Weighed(D, S), T \subseteq S,
         Alike(D, E, T)
  PROVE  Size(E, T) \in Nat /\ Size(D, S) \in Nat /\ Size(E, T) <= Size(D, S)
<1>1. PICK h : SumOf(D, S, h) /\ Size(D, S) = h[S]
  BY SizeIs
<1>2. Size(E, T) = h[T]
  BY <1>1, SizeSubset
<1> DEFINE Z == {s \in SUBSET S : T \subseteq s /\ ~(h[T] <= h[s])}
<1>f. \A s \in SUBSET S : IsFiniteSet(s) /\ Cardinality(s) \in Nat
  BY FS_Subset, FS_CardinalityType DEF Weighed
<1>3. Z = {}
  <2> SUFFICES ASSUME Z # {} PROVE FALSE
    OBVIOUS
  <2>1. PICK s \in Z : \A t \in Z : Cardinality(s) <= Cardinality(t)
    BY <1>f, Smallest
  <2>2. PICK x \in s : x \notin T
    <3>1. h[T] \in Nat
      BY <1>1 DEF SumOf
    <3>2. s # T
      BY <3>1
    <3> QED BY <3>2
  <2>3. Cardinality(s \ {x}) = Cardinality(s) - 1 /\ Cardinality(s) \in Nat
    BY <1>f, FS_RemoveElement
  <2>4. s \ {x} \notin Z
    BY <2>1, <2>3
  <2>5. h[T] <= h[s \ {x}]
    BY <2>2, <2>4
  <2>6. h[s] = Weight(D, x) + h[s \ {x}] /\ Weight(D, x) \in Nat
    <3>1. h[s] = Weight(D, x) + h[s \ {x}]
      BY <1>1, SumsAny
    <3> QED BY <3>1 DEF Weighed
  <2>7. h[T] \in Nat /\ h[s] \in Nat /\ h[s \ {x}] \in Nat
    BY <1>1 DEF SumOf
  <2>8. ~(h[T] <= h[s])
    OBVIOUS
  <2> QED BY <2>5, <2>6, <2>7, <2>8
<1>4. h[T] \in Nat /\ h[S] \in Nat /\ h[T] <= h[S]
  BY <1>1, <1>3 DEF SumOf
<1> QED BY <1>1, <1>2, <1>4

-----------------------------------------------------------------------------
USE AccountsAssumption

\* Nothing of the other requests changes.
Only(c) == \A e \in Call : e # c => call'[e] = call[e]

\* Request c goes on as t.
Becomes(c, t) == call' \in [Call -> CallRecord] /\ call'[c] = t /\ Only(c)

\* A request that goes on keeps the others as they are.
LEMMA Updated ==
  ASSUME TypeOK, NEW c \in Call, NEW t \in CallRecord, call' = [call EXCEPT ![c] = t]
  PROVE  Becomes(c, t)
BY DEF TypeOK, CallRecord, Only, Becomes

\* What a request becomes is a request.
LEMMA EndRecord ==
  ASSUME NEW r \in CallRecord
  PROVE  LET t == [r EXCEPT !.pc = "done", !.knows = 0, !.id = <<First, 0>>,
                          !.seen = "none", !.docs = {}, !.erase = FALSE, !.held = FALSE, !.text = 0, !.original = 0]
         IN  t \in CallRecord /\ t.pc = "done"
<1>1. "done" \in Pc /\ <<First, 0>> \in Account \X Nat /\ "none" \in Billing
  BY DEF Pc, Billing
<1> QED BY <1>1 DEF CallRecord

\* What is known of a request is a record.
LEMMA Shape == ASSUME TypeOK, NEW c \in Call PROVE call[c] \in CallRecord
BY DEF TypeOK

\* A request that ends has forgotten what it read.
LEMMA Ended ==
  ASSUME TypeOK, NEW c \in Call, End(c)
  PROVE  call' \in [Call -> CallRecord] /\ Only(c) /\ call'[c].pc = "done"
<1> DEFINE t == [call[c] EXCEPT !.pc = "done", !.knows = 0, !.id = <<First, 0>>,
                    !.seen = "none", !.docs = {}, !.erase = FALSE, !.held = FALSE,
                    !.text = 0, !.original = 0]
<1>1. t \in CallRecord /\ t.pc = "done"
  BY Shape, EndRecord
<1>2. call' = [call EXCEPT ![c] = t]
  BY DEF End
<1> HIDE DEF t
<1> QED BY <1>1, <1>2, Updated DEF Becomes

-----------------------------------------------------------------------------
\* A request that goes on at a place where it neither registers nor holds credentials.
LEMMA MembersKept ==
  ASSUME IInv, NEW c \in Call, Only(c), UNCHANGED <<account, session>>,
         call'[c].pc \notin {"registering", "identified", "locked", "checked"}
  PROVE  Members'
<1>1. Live' = Live
  BY DEF Live
<1>2. /\ At({"registering"})' \subseteq At({"registering"}) \ {c}
      /\ At({"identified"})' \subseteq At({"identified"}) \ {c}
      /\ At({"locked", "checked"})' \subseteq At({"locked", "checked"}) \ {c}
  BY DEF At, Only
<1>3. \A e \in Call \ {c} : call'[e] = call[e] /\ (Credential(e)' = Credential(e))
  BY DEF Only, Credential
<1>4. Registration' /\ OneLock' /\ OneWinner'
  BY <1>1, <1>2, <1>3 DEF IInv, Members, Registration, OneLock, OneWinner, At
<1>5. AccountCap'
  BY <1>1 DEF IInv, Members, AccountCap
<1> QED BY <1>4, <1>5 DEF Members

\* A request that goes on without documents in its hands, while none is made or removed.
LEMMA FilesKept ==
  ASSUME IInv, NEW c \in Call, Only(c), UNCHANGED <<object, lost>>,
         \A d \in Doc : doc'[d].life = doc[d].life,
         call[c].pc # "put", call'[c].pc \notin {"locked", "checked", "removing", "put"}
  PROVE  Files'
<1>1. Stored' = Stored
  BY DEF Stored
<1>2. At({"put"})' = At({"put"}) /\ \A e \in At({"put"}) : call'[e] = call[e]
  BY DEF At, Only
<1>3. \A e \in At({"locked", "checked", "removing"})' : call'[e] = call[e]
  BY DEF At, Only
<1>4. FilesBelong'
  BY <1>1, <1>2 DEF IInv, Files, FilesBelong
<1>5. Removing'
  <2>1. \A e \in At({"locked", "checked", "removing"})' : e \in At({"locked", "checked", "removing"})
    BY <1>3 DEF At
  <2>2. \A e \in At({"checked", "removing"})' : call'[e] = call[e] /\ e \in At({"checked", "removing"})
    BY <1>3 DEF At
  <2>3. \A e \in Call : call[e].docs \subseteq Doc
    BY Shape DEF IInv, CallRecord
  <2>4. \A e \in At({"locked", "checked", "removing"})' : \A d \in call'[e].docs : doc'[d].life # "unused"
    BY <1>3, <2>1, <2>3 DEF IInv, Files, Removing, At
  <2>5. \A e \in At({"checked", "removing"})' : call'[e].docs \cap object' = {}
    BY <2>2 DEF IInv, Files, Removing
  <2>6. /\ \A e \in At({"put"})' : \E d \in Doc : call'[e].docs = {d} /\ doc'[d].life = "unused"
        /\ \A e, f \in At({"put"})' : e # f => call'[e].docs \cap call'[f].docs = {}
    BY <1>2 DEF IInv, Files, Removing
  <2> QED BY <2>4, <2>5, <2>6 DEF Removing
<1> QED BY <1>4, <1>5 DEF Files

\* A request goes on, or ends, and neither members nor documents change.
LEMMA Quiet ==
  ASSUME IInv, NEW c \in Call, call' \in [Call -> CallRecord], Only(c),
         UNCHANGED <<account, session, doc, object, lost>>, billing' \in [Account -> Billing],
         call[c].pc # "put",
         call'[c].pc \notin {"registering", "identified", "locked", "checked", "removing", "put"}
  PROVE  IInv'
<1>1. TypeOK'
  BY DEF IInv, TypeOK
<1> QED BY <1>1, MembersKept, FilesKept DEF IInv

\* Steps of a request that change no credential and no document.
LEMMA QuietStep ==
  ASSUME IInv, NEW c \in Call,
         \/ RefuseRegistration(c) \/ VerifyLogin(c) \/ Present(c) \/ Authenticate(c)
         \/ EnsureAccount(c) \/ Count(c) \/ Checkout(c)
  PROVE  IInv'
<1> DEFINE Moved == /\ call' \in [Call -> CallRecord] /\ Only(c)
                    /\ billing' \in [Account -> Billing]
                    /\ call'[c].pc \in {"done", "verified", "presented", "authenticated", "ensured", "counted"}
<1>0. TypeOK /\ call[c] \in CallRecord /\ call \in [Call -> CallRecord]
  BY Shape DEF IInv, TypeOK
<1>p. {"verified", "presented", "authenticated", "ensured", "counted"} \subseteq Pc
  BY DEF Pc
<1>r. PICK r \in CallRecord : r = call[c]
  BY <1>0
<1>1. CASE RefuseRegistration(c)
  <2>1. Moved
    BY <1>0, <1>1, Ended DEF RefuseRegistration, TypeOK
  <2> QED BY <1>1, <2>1, Quiet DEF RefuseRegistration, Asks
<1>2. CASE VerifyLogin(c)
  <2>1. PICK a \in Live : call' = [call EXCEPT ![c].pc = "verified", ![c].acct = a]
    BY <1>2 DEF VerifyLogin
  <2> DEFINE t == [r EXCEPT !.pc = "verified", !.acct = a]
  <2>2. t \in CallRecord /\ t.pc = "verified"
    BY <1>p DEF Live, CallRecord
  <2>3. call' = [call EXCEPT ![c] = t]
    BY <1>0, <1>r, <2>1
  <2> HIDE DEF t
  <2>4. Moved
    BY <1>0, <1>2, <2>2, <2>3, Updated DEF VerifyLogin, TypeOK, Becomes
  <2> QED BY <1>2, <2>4, Quiet DEF VerifyLogin, Asks
<1>3. CASE Present(c)
  <2>1. PICK a \in Live : call' = [call EXCEPT ![c].pc = "presented", ![c].acct = a, ![c].knows = account[a].key]
    BY <1>3 DEF Present
  <2>a. a \in Account /\ account[a].key \in Nat
    BY <1>0 DEF Live, TypeOK
  <2> DEFINE t == [r EXCEPT !.pc = "presented", !.acct = a, !.knows = account[a].key]
  <2>2. t \in CallRecord /\ t.pc = "presented"
    BY <1>p, <2>a DEF CallRecord
  <2>3. call' = [call EXCEPT ![c] = t]
    BY <1>0, <1>r, <2>1
  <2> HIDE DEF t
  <2>4. Moved
    BY <1>0, <1>3, <2>2, <2>3, Updated DEF Present, TypeOK, Becomes
  <2> QED BY <1>3, <2>4, Quiet DEF Present, Asks
<1>4. CASE Authenticate(c)
  <2>1. PICK s \in Sid : call' = [call EXCEPT ![c].pc = "authenticated", ![c].acct = session[s][1],
                                              ![c].sid = s, ![c].knows = account[session[s][1]].hash]
    BY <1>4 DEF Authenticate
  <2> DEFINE a == session[s][1]
             t == [r EXCEPT !.pc = "authenticated", !.acct = a, !.sid = s, !.knows = account[a].hash]
  <2>2. a \in Account /\ account[a].hash \in Nat
    BY <1>0 DEF TypeOK
  <2> HIDE DEF a
  <2>3. t \in CallRecord /\ t.pc = "authenticated"
    BY <1>p, <2>2 DEF CallRecord
  <2>4. call' = [call EXCEPT ![c] = t]
    BY <1>0, <1>r, <2>1 DEF a
  <2> HIDE DEF t
  <2>5. Moved
    BY <1>0, <1>4, <2>3, <2>4, Updated DEF Authenticate, TypeOK, Becomes
  <2> QED BY <1>4, <2>5, Quiet DEF Authenticate, Asks
<1>5. CASE EnsureAccount(c)
  <2> DEFINE b == billing[call[c].acct]  h == billing[call[c].acct] = "none"
             t(ds, n, o) == [r EXCEPT !.pc = "ensured", !.seen = b, !.held = h, !.docs = ds,
                                            !.text = n, !.original = o]
  <2>1. PICK n \in Contents, o \in {0, Original}, ds \in SUBSET Doc :
          call' = [call EXCEPT ![c].pc = "ensured", ![c].seen = b, ![c].held = h, ![c].docs = ds,
                               ![c].text = n, ![c].original = o]
    BY <1>5 DEF EnsureAccount
  <2>2. b \in Billing /\ h \in BOOLEAN
    BY <1>0 DEF TypeOK, CallRecord
  <2> HIDE DEF b, h
  <2>3. t(ds, n, o) \in CallRecord /\ t(ds, n, o).pc = "ensured"
    BY <1>p, <2>2 DEF CallRecord
  <2>4. call' = [call EXCEPT ![c] = t(ds, n, o)]
    BY <1>0, <1>r, <2>1
  <2> HIDE DEF t
  <2>5. Moved
    BY <1>0, <1>5, <2>3, <2>4, Updated DEF EnsureAccount, TypeOK, Becomes
  <2> QED BY <1>5, <2>5, Quiet DEF EnsureAccount, Asks
<1>6. CASE Count(c)
  <2>1. CASE End(c)
    <3>1. Moved
      BY <1>0, <1>6, <2>1, Ended DEF Count, TypeOK
    <3> QED BY <1>6, <3>1, Quiet DEF Count
  <2>2. CASE ~End(c)
    <3> DEFINE h == call[c].held \/ billing[call[c].acct] # "none"
               t == [r EXCEPT !.pc = "counted", !.held = h]
    <3>1. call' = [call EXCEPT ![c].pc = "counted", ![c].held = h]
      BY <1>6, <2>2, <1>0 DEF Count
    <3>2. h \in BOOLEAN
      BY <1>0 DEF CallRecord
    <3> HIDE DEF h
    <3>3. t \in CallRecord /\ t.pc = "counted"
      BY <1>p, <3>2 DEF CallRecord
    <3>4. call' = [call EXCEPT ![c] = t]
      BY <1>0, <1>r, <3>1
    <3> HIDE DEF t
    <3>5. Moved
      BY <1>0, <1>6, <3>3, <3>4, Updated DEF Count, TypeOK, Becomes
    <3> QED BY <1>6, <3>5, Quiet DEF Count
  <2> QED BY <2>1, <2>2
<1>7. CASE Checkout(c)
  <2>1. Moved
    BY <1>0, <1>7, Ended DEF Checkout, TypeOK, Billing, Payment
  <2> QED BY <1>7, <2>1, Quiet DEF Checkout, Asks
<1> QED BY <1>1, <1>2, <1>3, <1>4, <1>5, <1>6, <1>7

-----------------------------------------------------------------------------
\* A registration begins: it is the only one, and there is room for it.
LEMMA RegisterStep ==
  ASSUME IInv, NEW c \in Call, Register(c)
  PROVE  IInv'
<1>0. TypeOK /\ call[c] \in CallRecord /\ call \in [Call -> CallRecord]
  BY Shape DEF IInv, TypeOK
<1>1. PICK a \in Account : account[a].life = "unused" /\ call' = [call EXCEPT ![c].pc = "registering", ![c].acct = a]
  BY DEF Register
<1>2. PICK r \in CallRecord : r = call[c]
  BY <1>0
<1> DEFINE t == [r EXCEPT !.pc = "registering", !.acct = a]
<1>3. "registering" \in Pc
  BY DEF Pc
<1>4. t \in CallRecord /\ t.pc = "registering" /\ t.acct = a
  BY <1>3 DEF CallRecord
<1>5. call' = [call EXCEPT ![c] = t]
  BY <1>0, <1>1, <1>2
<1> HIDE DEF t
<1>6. call' \in [Call -> CallRecord] /\ Only(c) /\ call'[c].pc = "registering" /\ call'[c].acct = a
  BY <1>0, <1>4, <1>5, Updated DEF Becomes
<1>7. UNCHANGED <<account, session, billing, doc, object, lost>> /\ call[c].pc = "idle"
      /\ At({"registering"}) = {} /\ Cardinality(Live) < MaxAccounts
  BY DEF Register, Asks
<1>8. TypeOK'
  BY <1>0, <1>6, <1>7 DEF TypeOK
<1>9. Files'
  BY <1>6, <1>7, FilesKept
<1>10. Live' = Live
  BY <1>7 DEF Live
<1>11. At({"registering"})' = {c}
  BY <1>6, <1>7 DEF At, Only
<1>12. Registration'
  BY <1>1, <1>6, <1>7, <1>10, <1>11 DEF Registration
<1>13. \A e \in At({"identified", "locked", "checked"})' :
         e \in At({"identified", "locked", "checked"}) /\ call'[e] = call[e]
  BY <1>6 DEF At, Only
<1>14. AccountCap' /\ OneLock' /\ OneWinner'
  BY <1>7, <1>10, <1>13 DEF IInv, Members, AccountCap, OneLock, OneWinner, At, Credential
<1> QED BY <1>8, <1>9, <1>12, <1>14 DEF IInv, Members

\* The tables of members and sessions may change; a request ends.
LEMMA MembersChange ==
  ASSUME IInv, NEW c \in Call, Only(c), call'[c].pc = "done",
         AccountCap',
         \A e \in Call \ {c} : /\ call[e].pc = "registering" =>
                                    /\ account'[call[e].acct].life = "unused"
                                    /\ Cardinality(Live') < MaxAccounts
                               /\ call[e].pc \in {"locked", "checked"} =>
                                    account'[call[e].acct] = account[call[e].acct]
  PROVE  Members'
<1>3. \A e \in Call : call'[e].pc # "done" => e # c /\ call'[e] = call[e]
  BY DEF Only
<1>4. /\ \A e \in At({"registering"})' : e \in At({"registering"}) \ {c} /\ call'[e] = call[e]
      /\ \A e \in At({"locked", "checked"})' : e \in At({"locked", "checked"}) \ {c} /\ call'[e] = call[e]
  BY <1>3 DEF At
<1>5. OneWinner'
  <2>1. \A e \in At({"locked", "checked"})' : /\ call'[e] = call[e] /\ e \in At({"locked", "checked"})
                                              /\ account'[call[e].acct] = account[call[e].acct]
    BY <1>4 DEF At
  <2>2. \A e \in Call : call[e].acct \in Account
    BY Shape DEF IInv, CallRecord
  <2> QED BY <2>1, <2>2 DEF IInv, Members, OneWinner, Credential, Live, At
<1>6. Registration'
  BY <1>4 DEF IInv, Members, Registration, At
<1>7. OneLock'
  BY <1>4 DEF IInv, Members, OneLock
<1> QED BY <1>5, <1>6, <1>7 DEF Members

\* The same while no document changes: the whole invariant.
LEMMA MembersEnd ==
  ASSUME IInv, NEW c \in Call, Only(c), call'[c].pc = "done",
         call[c].pc # "put", call' \in [Call -> CallRecord], UNCHANGED <<doc, object, lost>>,
         account' \in [Account -> [life : {"unused", "live", "deleted"}, hash : Nat, key : Nat]],
         session' \in [Sid -> Account \X Nat],
         billing' \in [Account -> Billing],
         AccountCap',
         \A e \in Call \ {c} : /\ call[e].pc = "registering" =>
                                    /\ account'[call[e].acct].life = "unused"
                                    /\ Cardinality(Live') < MaxAccounts
                               /\ call[e].pc \in {"locked", "checked"} =>
                                    account'[call[e].acct] = account[call[e].acct]
  PROVE  IInv'
<1>1. TypeOK'
  BY DEF IInv, TypeOK
<1>2. Files'
  BY FilesKept
<1>3. Members'
  BY MembersChange
<1> QED BY <1>1, <1>2, <1>3 DEF IInv

\* A login inserts its session, a logout deletes the one it came with.
LEMMA LoginSteps ==
  ASSUME IInv, NEW c \in Call, FinishLogin(c) \/ Logout(c)
  PROVE  IInv'
<1>0. TypeOK /\ call[c] \in CallRecord /\ First \in Account
  BY Shape DEF IInv, TypeOK
<1>1. c \in Sid /\ call[c].id \in Account \X Nat /\ NoSession \in Account \X Nat
  BY <1>0 DEF CallRecord, Sid, NoSession
<1>3. PICK new \in Account \X Nat, s \in Sid : session' = [session EXCEPT ![s] = new]
  <2>1. CASE FinishLogin(c)
    BY <1>1, <2>1 DEF FinishLogin
  <2>2. CASE Logout(c)
    <3>1. call[c].sid \in Sid /\ session' = [session EXCEPT ![call[c].sid] = NoSession]
      BY <1>0, <2>2 DEF Logout, CallRecord
    <3> QED BY <1>1, <3>1
  <2> QED BY <2>1, <2>2
<1>4. UNCHANGED <<account, billing, doc, object, lost>> /\ End(c) /\ call[c].pc \in {"identified", "authenticated"}
  BY DEF FinishLogin, Logout, Asks
<1>5. call' \in [Call -> CallRecord] /\ Only(c) /\ call'[c].pc = "done"
  BY <1>0, <1>4, Ended
<1>6. session' \in [Sid -> Account \X Nat]
  BY <1>0, <1>3 DEF TypeOK
<1>7. AccountCap' /\ Live' = Live
  BY <1>4 DEF IInv, Members, AccountCap, Live
<1>8. \A e \in Call \ {c} : call[e].pc = "registering" =>
         account'[call[e].acct].life = "unused" /\ Cardinality(Live') < MaxAccounts
  BY <1>4, <1>7 DEF IInv, Members, Registration, At
<1>9. /\ account' \in [Account -> [life : {"unused", "live", "deleted"}, hash : Nat, key : Nat]]
      /\ billing' \in [Account -> Billing]
  BY <1>0, <1>4 DEF TypeOK
<1> QED BY <1>4, <1>5, <1>6, <1>7, <1>8, <1>9, MembersEnd

\* A login reads the account again, for the identity of its session.
LEMMA IdentifyStep ==
  ASSUME IInv, NEW c \in Call, IdentifyLogin(c)
  PROVE  IInv'
<1>0. TypeOK /\ call[c] \in CallRecord /\ call \in [Call -> CallRecord]
  BY Shape DEF IInv, TypeOK
<1>q. UNCHANGED <<account, session, billing, doc, object, lost>> /\ call[c].pc = "verified"
  BY DEF IdentifyLogin
<1>1. CASE End(c)
  <2>1. call' \in [Call -> CallRecord] /\ Only(c) /\ call'[c].pc = "done" /\ billing' \in [Account -> Billing]
    BY <1>0, <1>1, <1>q, Ended DEF TypeOK
  <2> QED BY <1>q, <2>1, Quiet
<1>2. CASE ~End(c)
  <2>1. PICK a \in Account, h \in Nat :
          /\ a = call[c].acct /\ h = account[a].hash
          /\ call' = [call EXCEPT ![c].pc = "identified", ![c].id = <<a, h>>]
    <3>1. call[c].acct \in Account /\ account[call[c].acct].hash \in Nat
      BY <1>0 DEF TypeOK, CallRecord
    <3> QED BY <1>2, <3>1 DEF IdentifyLogin, Identity
  <2>2. PICK r \in CallRecord : r = call[c]
    BY <1>0
  <2> DEFINE t == [r EXCEPT !.pc = "identified", !.id = <<a, h>>]
  <2>3. "identified" \in Pc
    BY DEF Pc
  <2>4. t \in CallRecord /\ t.pc = "identified"
    BY <2>3 DEF CallRecord
  <2>5. call' = [call EXCEPT ![c] = t]
    BY <1>0, <2>1, <2>2
  <2> HIDE DEF t
  <2>6. call' \in [Call -> CallRecord] /\ Only(c) /\ call'[c].pc = "identified"
    BY <1>0, <2>4, <2>5, Updated DEF Becomes
  <2>7. TypeOK'
    BY <1>0, <1>q, <2>6 DEF TypeOK
  <2>8. Files'
    BY <1>q, <2>6, FilesKept
  <2>9. Live' = Live /\ AccountCap'
    BY <1>q DEF Live, AccountCap, IInv, Members
  <2>10. \A e \in Call : e # c => call'[e] = call[e]
    BY <2>6 DEF Only
  <2>16. call[c].pc = "verified" /\ call'[c].pc = "identified"
    BY <1>q, <2>6
  <2>11. /\ \A e \in At({"registering"})' : e \in At({"registering"}) /\ call'[e] = call[e]
         /\ \A e \in At({"locked", "checked"})' : e \in At({"locked", "checked"}) /\ call'[e] = call[e]
    BY <2>10, <2>16 DEF At
  <2>12. Registration'
    BY <1>q, <2>9, <2>11 DEF IInv, Members, Registration
  <2>13. OneLock'
    BY <2>11 DEF IInv, Members, OneLock
  <2>14. OneWinner'
    BY <1>q, <2>9, <2>11 DEF IInv, Members, OneWinner, Credential
  <2> QED BY <2>7, <2>8, <2>9, <2>12, <2>13, <2>14 DEF IInv, Members
<1> QED BY <1>1, <1>2

\* What a change of credentials does to the row of an account.
LEMMA RowUpdate ==
  ASSUME NEW L, NEW r \in [life : L, hash : Nat, key : Nat], NEW h \in Nat, NEW k \in Nat
  PROVE  /\ [r EXCEPT !.hash = h, !.key = k] \in [life : L, hash : Nat, key : Nat]
         /\ [r EXCEPT !.hash = h, !.key = k].life = r.life
OBVIOUS

\* recover and change_password: only the holder of the lock depends on the row it changes.
LEMMA PasswordStep ==
  ASSUME IInv, NEW c \in Call, FinishPassword(c)
  PROVE  IInv'
<1>0. TypeOK /\ call[c] \in CallRecord /\ First \in Account
  BY Shape DEF IInv, TypeOK
<1>1. UNCHANGED <<billing, doc, object, lost>> /\ End(c) /\ call[c].pc = "locked" /\ session' = EndSessions(call[c].acct)
  BY DEF FinishPassword, Asks
<1>2. call' \in [Call -> CallRecord] /\ Only(c) /\ call'[c].pc = "done"
  BY <1>0, <1>1, Ended
<1>3. PICK a \in Account : a = call[c].acct
  BY <1>0 DEF CallRecord
<1>4. session' \in [Sid -> Account \X Nat]
  BY <1>0, <1>1 DEF TypeOK, EndSessions, NoSession
<1> DEFINE Row == [life : {"unused", "live", "deleted"}, hash : Nat, key : Nat]
<1>r. account \in [Account -> Row]
  BY <1>0 DEF TypeOK
<1>5. PICK new \in Row : new.life = account[a].life /\ account' = [account EXCEPT ![a] = new]
  <2>1. PICK r \in Row : r = account[a]
    BY <1>r
  <2>2. PICK h \in Nat, k \in Nat : h = r.hash + 1 /\ k = IF call[c].op = "recover" THEN r.key + 1 ELSE r.key
    BY <2>1
  <2> DEFINE new == [r EXCEPT !.hash = h, !.key = k]
  <2>3. new \in Row /\ new.life = r.life
    BY RowUpdate
  <2>4. account' = [account EXCEPT ![a] = new]
    <3>1. account' = [account EXCEPT ![a].hash = @ + 1, ![a].key = IF call[c].op = "recover" THEN @ + 1 ELSE @]
      BY <1>3 DEF FinishPassword
    <3> HIDE DEF Row
    <3> QED BY <1>r, <3>1, <2>1, <2>2
  <2> QED BY <2>1, <2>3, <2>4
<1>6. /\ account' \in [Account -> Row]
      /\ \A b \in Account : account'[b].life = account[b].life /\ (b # a => account'[b] = account[b])
  <2> HIDE DEF Row
  <2> QED BY <1>r, <1>5
<1>7. Live' = Live /\ AccountCap'
  <2>1. \A b \in Account : account'[b].life = account[b].life
    BY <1>6
  <2>2. Live' = Live
    BY <2>1 DEF Live
  <2> QED BY <2>2 DEF AccountCap, IInv, Members
<1>8. \A e \in Call \ {c} : /\ call[e].acct \in Account
                            /\ call[e].pc \in {"locked", "checked"} => call[e].acct # a
  BY <1>0, <1>1, <1>3, Shape DEF IInv, Members, OneLock, At, CallRecord
<1>9. \A e \in Call \ {c} :
         /\ call[e].pc = "registering" =>
              account'[call[e].acct].life = "unused" /\ Cardinality(Live') < MaxAccounts
         /\ call[e].pc \in {"locked", "checked"} => account'[call[e].acct] = account[call[e].acct]
  BY <1>6, <1>7, <1>8 DEF IInv, Members, Registration, At
<1>10. billing' \in [Account -> Billing]
  BY <1>0, <1>1 DEF TypeOK
<1> QED BY <1>1, <1>2, <1>4, <1>6, <1>7, <1>9, <1>10, MembersEnd

\* The insert makes one member more, or finds the name taken.
LEMMA RegistrationEnds ==
  ASSUME IInv, NEW c \in Call, FinishRegistration(c)
  PROVE  IInv'
<1>0. TypeOK /\ call[c] \in CallRecord /\ First \in Account
  BY Shape DEF IInv, TypeOK
<1>1. UNCHANGED <<billing, doc, object, lost>> /\ End(c) /\ call[c].pc = "registering"
  BY DEF FinishRegistration
<1>2. call' \in [Call -> CallRecord] /\ Only(c) /\ call'[c].pc = "done"
  BY <1>0, <1>1, Ended
<1>3. PICK a \in Account : a = call[c].acct
  BY <1>0 DEF CallRecord
<1>4. billing' \in [Account -> Billing]
  BY <1>0, <1>1 DEF TypeOK
<1>5. CASE \E b \in Live : NameOf[b] = NameOf[a]
  <2>1. UNCHANGED <<account, session>>
    BY <1>3, <1>5 DEF FinishRegistration
  <2> QED BY <1>1, <1>2, <1>4, <2>1, Quiet
<1>6. CASE ~ \E b \in Live : NameOf[b] = NameOf[a]
  <2>1. account' = [account EXCEPT ![a].life = "live"] /\ session' = [session EXCEPT ![c] = Identity(a)]
    BY <1>3, <1>6 DEF FinishRegistration
  <2>2. /\ account[a].life = "unused" /\ Cardinality(Live) < MaxAccounts
        /\ \A e \in Call \ {c} : call[e].pc # "registering"
    BY <1>1, <1>3 DEF IInv, Members, Registration, At
  <2>3. /\ account' \in [Account -> [life : {"unused", "live", "deleted"}, hash : Nat, key : Nat]]
        /\ \A b \in Account \ {a} : account'[b] = account[b]
        /\ account'[a].life = "live"
    BY <1>0, <2>1 DEF TypeOK
  <2>4. Live' = Live \cup {a} /\ a \notin Live
    BY <2>2, <2>3 DEF Live
  <2>5. IsFiniteSet(Live) /\ Cardinality(Live) \in Nat /\ MaxAccounts \in Nat
    BY FS_Subset, FS_CardinalityType DEF Live
  <2>6. Cardinality(Live \cup {a}) = Cardinality(Live) + 1
    BY <2>4, <2>5, FS_AddElement
  <2>7. Cardinality(Live') <= MaxAccounts
    BY <2>2, <2>4, <2>5, <2>6
  <2>8. AccountCap'
    BY <1>6, <2>4, <2>7 DEF IInv, Members, AccountCap
  <2>9. session' \in [Sid -> Account \X Nat]
    <3>1. Identity(a) \in Account \X Nat
      BY <1>0 DEF Identity, TypeOK
    <3> QED BY <1>0, <2>1, <3>1 DEF TypeOK
  <2>10. \A e \in Call \ {c} : call[e].pc \in {"locked", "checked"} => account'[call[e].acct] = account[call[e].acct]
    BY <2>3, <2>4 DEF IInv, Members, OneWinner, At, Live
  <2> QED BY <1>1, <1>2, <1>4, <2>2, <2>3, <2>8, <2>9, <2>10, MembersEnd
<1> QED BY <1>5, <1>6

-----------------------------------------------------------------------------
\* Documents go or stay, requests end or stay.
LEMMA FilesGo ==
  ASSUME IInv, object' \subseteq object, lost \subseteq lost',
         \A d \in Doc : doc[d].life # "unused" => doc'[d].life # "unused",
         \A d \in object' : doc[d].life = "stored" => doc'[d].life = "stored",
         \A e \in Call : call'[e].pc \in {"locked", "checked", "removing", "put"} => call'[e] = call[e],
         \A e \in Call : call'[e].pc = "put" => \A d \in call[e].docs : doc'[d].life = "unused",
         \A e \in At({"put"}) : \/ call'[e] = call[e]
                               \/ \A d \in call[e].docs \cap object' : doc'[d].life = "stored" \/ d \in lost'
  PROVE  Files'
<1>0. object \subseteq Doc /\ \A e \in Call : call[e].docs \subseteq Doc
  BY Shape DEF IInv, TypeOK, CallRecord
<1>1. /\ \A e \in At({"locked", "checked", "removing"})' :
            e \in At({"locked", "checked", "removing"}) /\ call'[e] = call[e]
      /\ \A e \in At({"checked", "removing"})' : e \in At({"checked", "removing"}) /\ call'[e] = call[e]
      /\ \A e \in At({"put"})' : e \in At({"put"}) /\ call'[e] = call[e] /\ e \in Call
  BY DEF At
<1>2. \A e \in At({"locked", "checked", "removing"})' : \A d \in call'[e].docs : doc'[d].life # "unused"
  BY <1>0, <1>1 DEF IInv, Files, Removing, At
<1>3. \A e \in At({"checked", "removing"})' : call'[e].docs \cap object' = {}
  BY <1>1 DEF IInv, Files, Removing
<1>4. \A e \in At({"put"})' : \E d \in Doc : call'[e].docs = {d} /\ doc'[d].life = "unused"
  <2> SUFFICES ASSUME NEW e \in At({"put"})' PROVE \E d \in Doc : call'[e].docs = {d} /\ doc'[d].life = "unused"
    OBVIOUS
  <2>1. call'[e].pc = "put" /\ e \in Call
    BY DEF At
  <2>2. PICK d \in Doc : call[e].docs = {d}
    BY <1>1 DEF IInv, Files, Removing
  <2> QED BY <1>1, <2>1, <2>2
<1>5. \A e, f \in At({"put"})' : e # f => call'[e].docs \cap call'[f].docs = {}
  BY <1>1 DEF IInv, Files, Removing
<1>6. FilesBelong'
  <2> SUFFICES ASSUME NEW d \in object' PROVE (d \in Stored \cup lost \cup UNION {call[c].docs : c \in At({"put"})})'
    BY DEF FilesBelong
  <2>1. d \in Doc /\ d \in object
    BY <1>0
  <2>2. CASE d \in Stored
    BY <2>1, <2>2 DEF Stored
  <2>3. CASE d \in lost
    BY <2>3
  <2>4. CASE d \notin Stored /\ d \notin lost
    <3>1. PICK e \in At({"put"}) : d \in call[e].docs
      BY <2>1, <2>4 DEF IInv, Files, FilesBelong
    <3>2. CASE call'[e] = call[e]
      <4>1. e \in At({"put"})'
        BY <3>1, <3>2 DEF At
      <4> QED BY <3>1, <3>2, <4>1
    <3>3. CASE call'[e] # call[e]
      BY <2>1, <3>1, <3>3 DEF Stored
    <3> QED BY <3>2, <3>3
  <2> QED BY <2>2, <2>3, <2>4
<1> QED BY <1>2, <1>3, <1>4, <1>5, <1>6 DEF Files, Removing

\* Documents are removed that no longer have an original in the store.
LEMMA FilesRemoved ==
  ASSUME IInv, NEW ds, Remove(ds), object' \subseteq object, object' \cap ds = {}, lost' = lost,
         \A e \in Call : call'[e].pc \in {"locked", "checked", "removing", "put"} => call'[e] = call[e],
         \A e \in Call : call[e].pc = "put" => call'[e] = call[e]
  PROVE  Files'
<1>0. object \subseteq Doc
  BY DEF IInv, TypeOK
<1>1. \A d \in Doc : doc'[d] = doc[d] \/ (d \in ds /\ d \in Stored /\ doc'[d].life = "gone")
  BY DEF Remove, NoDocument
<1>2. \A d \in Doc : /\ doc[d].life # "unused" => doc'[d].life # "unused"
                     /\ doc[d].life = "unused" => doc'[d].life = "unused"
  BY <1>1 DEF Stored
<1>3. \A d \in object' : doc[d].life = "stored" => doc'[d].life = "stored"
  BY <1>0, <1>1
<1>4. \A e \in Call : call'[e].pc = "put" => \A d \in call[e].docs : doc'[d].life = "unused"
  BY <1>2 DEF IInv, Files, Removing, At
<1>5. \A e \in At({"put"}) : call'[e] = call[e]
  BY DEF At
<1> QED BY <1>2, <1>3, <1>4, <1>5, FilesGo

\* Removal keeps the shape of the documents table.
LEMMA RemoveType ==
  ASSUME TypeOK, NEW ds, Remove(ds)
  PROVE  doc' \in [Doc -> [life : {"unused", "stored", "gone"}, owner : Account,
                          text : Contents \cup {0}, original : {0, Original}, aged : BOOLEAN]]
BY DEF Remove, NoDocument, TypeOK

\* Members are as before when only documents and payments change.
LEMMA MembersSame ==
  ASSUME IInv, UNCHANGED <<account, session, call>>
  PROVE  Members'
<1>1. Live' = Live /\ \A pcs : At(pcs)' = At(pcs)
  BY DEF Live, At
<1> QED BY <1>1 DEF IInv, Members, Registration, AccountCap, OneLock, OneWinner, Credential

\* Retention removes rows together with their originals.
LEMMA CleanUpStep ==
  ASSUME IInv, CleanUp
  PROVE  IInv'
<1>1. /\ Remove(Expired) /\ object' = object \ Expired
      /\ UNCHANGED <<account, session, billing, lost, call>>
  BY DEF CleanUp
<1>2. TypeOK'
  BY <1>1, RemoveType DEF IInv, TypeOK
<1>3. Files'
  BY <1>1, FilesRemoved
<1> QED BY <1>1, <1>2, <1>3, MembersSame DEF IInv

\* The row of a document in the table.
DocRow == [life : {"unused", "stored", "gone"}, owner : Account,
           text : Contents \cup {0}, original : {0, Original}, aged : BOOLEAN]

\* The documents table consists of such rows.
LEMMA DocRows == ASSUME TypeOK PROVE doc \in [Doc -> DocRow]
BY DEF TypeOK, DocRow

\* Ageing a row.
LEMMA DocAges ==
  ASSUME NEW r \in DocRow
  PROVE  [r EXCEPT !.aged = TRUE] \in DocRow /\ [r EXCEPT !.aged = TRUE].life = r.life
BY DEF DocRow

\* Saving a text into a row.
LEMMA DocSaved ==
  ASSUME NEW r \in DocRow, NEW n \in Contents \cup {0}
  PROVE  [r EXCEPT !.text = n] \in DocRow /\ [r EXCEPT !.text = n].life = r.life
BY DEF DocRow

\* Time passes over a document.
LEMMA ExpireStep ==
  ASSUME IInv, NEW d \in Doc, Expire(d)
  PROVE  IInv'
<1>1. doc' = [doc EXCEPT ![d].aged = TRUE] /\ UNCHANGED <<account, session, billing, object, lost, call>>
  BY DEF Expire
<1>2. TypeOK' /\ \A e \in Doc : doc'[e].life = doc[e].life
  <2>1. doc' \in [Doc -> DocRow] /\ \A e \in Doc : doc'[e].life = doc[e].life
    BY <1>1, DocRows, DocAges DEF IInv
  <2> QED BY <1>1, <2>1 DEF IInv, TypeOK, DocRow
<1>3. object \subseteq Doc /\ \A e \in Call : call[e].docs \subseteq Doc
  BY Shape DEF IInv, TypeOK, CallRecord
<1>4. \A e \in Call : call'[e].pc = "put" => \A f \in call[e].docs : doc'[f].life = "unused"
  BY <1>1, <1>2, <1>3 DEF IInv, Files, Removing, At
<1>5. Files'
  BY <1>1, <1>2, <1>3, <1>4, FilesGo
<1> QED BY <1>1, <1>2, <1>5, MembersSame DEF IInv

\* A payment is made or ends.
LEMMA WebhookStep ==
  ASSUME IInv, NEW a \in Account, Webhook(a)
  PROVE  IInv'
<1>1. UNCHANGED <<account, session, doc, object, lost, call>> /\ billing' \in [Account -> Billing]
  BY DEF Webhook, IInv, TypeOK, Billing, Payment
<1>2. TypeOK'
  BY <1>1 DEF IInv, TypeOK
<1>3. \A e \in Call : call'[e].pc = "put" => \A f \in call[e].docs : doc'[f].life = "unused"
  BY <1>1 DEF IInv, Files, Removing, At
<1>4. Files'
  BY <1>1, <1>3, FilesGo
<1> QED BY <1>1, <1>2, <1>4, MembersSame DEF IInv

\* A removal commits; its original left the store before.
LEMMA FinishRemovalStep ==
  ASSUME IInv, NEW c \in Call, FinishRemoval(c)
  PROVE  IInv'
<1>1. /\ call[c].pc = "removing" /\ Remove(call[c].docs) /\ End(c)
      /\ UNCHANGED <<account, session, billing, object, lost>>
  BY DEF FinishRemoval
<1>2. call' \in [Call -> CallRecord] /\ Only(c) /\ call'[c].pc = "done"
  BY <1>1, Ended DEF IInv
<1>3. TypeOK'
  BY <1>1, <1>2, RemoveType DEF IInv, TypeOK
<1>4. object \cap call[c].docs = {}
  BY <1>1 DEF IInv, Files, Removing, At
<1>5. Files'
  BY <1>1, <1>2, <1>4, FilesRemoved DEF Only
<1> QED BY <1>1, <1>2, <1>3, <1>5, MembersKept DEF IInv

\* A save commits.
LEMMA SaveStep ==
  ASSUME IInv, NEW c \in Call, CommitSave(c)
  PROVE  IInv'
<1>0. TypeOK /\ call[c] \in CallRecord
  BY Shape DEF IInv
<1>1. /\ call[c].pc = "counted" /\ End(c) /\ UNCHANGED <<account, session, object, lost>>
      /\ doc' = [d \in Doc |-> IF d \in call[c].docs THEN [doc[d] EXCEPT !.text = call[c].text] ELSE doc[d]]
  BY DEF CommitSave, Asks
<1>2. call' \in [Call -> CallRecord] /\ Only(c) /\ call'[c].pc = "done"
  BY <1>1, Ended DEF IInv
<1>3. call[c].text \in Contents \cup {0}
  BY <1>0 DEF CallRecord
<1>4. doc' \in [Doc -> DocRow] /\ \A d \in Doc : doc'[d].life = doc[d].life
  BY <1>0, <1>1, <1>3, DocRows, DocSaved
<1>5. billing' \in [Account -> Billing]
  BY <1>0 DEF CommitSave, KeepAccount, TypeOK, Billing
<1>6. TypeOK'
  BY <1>1, <1>2, <1>4, <1>5 DEF IInv, TypeOK, DocRow
<1>7. Files'
  BY <1>1, <1>2, <1>4, FilesKept
<1> QED BY <1>1, <1>2, <1>6, <1>7, MembersKept DEF IInv

\* The process dies: what it had put into the store is lost, nothing else is.
LEMMA CrashStep ==
  ASSUME IInv, NEW c \in Call, Crash(c)
  PROVE  IInv'
<1>0. TypeOK /\ call[c].docs \subseteq Doc
  BY Shape DEF IInv, CallRecord
<1>1. /\ call[c].pc \in {"checked", "put", "removing"} /\ End(c)
      /\ lost' = IF call[c].pc = "put" THEN lost \cup call[c].docs ELSE lost
      /\ UNCHANGED <<account, session, billing, doc, object>>
  BY DEF Crash
<1>2. call' \in [Call -> CallRecord] /\ Only(c) /\ call'[c].pc = "done"
  BY <1>1, Ended DEF IInv
<1>3. TypeOK'
  BY <1>0, <1>1, <1>2 DEF TypeOK
<1>4. \A e \in Call : call'[e].pc = "put" => \A d \in call[e].docs : doc'[d].life = "unused"
  BY <1>1, <1>2 DEF IInv, Files, Removing, At, Only
<1>5. \A e \in At({"put"}) : call'[e] = call[e] \/ call[e].docs \subseteq lost'
  BY <1>1, <1>2 DEF At, Only
<1>6. Files'
  BY <1>1, <1>2, <1>4, <1>5, FilesGo DEF Only
<1> QED BY <1>1, <1>2, <1>3, <1>6, MembersKept DEF IInv

\* A request takes documents that have a row, having emptied the store of them or not.
LEMMA FilesTaken ==
  ASSUME IInv, NEW c \in Call, Only(c), doc' = doc, lost' = lost, object' \subseteq object,
         call[c].pc # "put", call'[c].pc \in {"locked", "checked", "removing"},
         \A d \in call'[c].docs : doc[d].life # "unused",
         call'[c].pc \in {"checked", "removing"} => call'[c].docs \cap object' = {}
  PROVE  Files'
<1>1. \A e \in Call \ {c} : call'[e] = call[e]
  BY DEF Only
<1>2. /\ \A e \in At({"locked", "checked", "removing"})' :
            e = c \/ (e \in At({"locked", "checked", "removing"}) /\ call'[e] = call[e])
      /\ \A e \in At({"checked", "removing"})' : e = c \/ (e \in At({"checked", "removing"}) /\ call'[e] = call[e])
  BY <1>1 DEF At
<1>3. \A e \in At({"put"})' : e \in At({"put"}) /\ call'[e] = call[e]
  BY <1>1 DEF At
<1>4. At({"put"})' = At({"put"})
  BY <1>1 DEF At
<1>5. \A e \in At({"locked", "checked", "removing"})' : \A d \in call'[e].docs : doc'[d].life # "unused"
  BY <1>2 DEF IInv, Files, Removing
<1>6. \A e \in At({"checked", "removing"})' : call'[e].docs \cap object' = {}
  <2>1. \A e \in At({"checked", "removing"}) : call[e].docs \cap object' = {}
    BY DEF IInv, Files, Removing
  <2>2. c \in At({"checked", "removing"})' => call'[c].docs \cap object' = {}
    BY DEF At
  <2> QED BY <1>2, <2>1, <2>2
<1>7. \A e \in At({"put"})' : \E d \in Doc : call'[e].docs = {d} /\ doc'[d].life = "unused"
  BY <1>3 DEF IInv, Files, Removing
<1>8. \A e, f \in At({"put"})' : e # f => call'[e].docs \cap call'[f].docs = {}
  BY <1>3 DEF IInv, Files, Removing
<1>9. FilesBelong'
  <2>1. Stored' = Stored
    BY DEF Stored
  <2>2. UNION {call'[e].docs : e \in At({"put"})'} = UNION {call[e].docs : e \in At({"put"})}
    BY <1>3, <1>4
  <2> QED BY <2>1, <2>2 DEF IInv, Files, FilesBelong
<1> QED BY <1>5, <1>6, <1>7, <1>8, <1>9 DEF Files, Removing

\* A removal empties the store of the original it is about.
LEMMA RemoveStep ==
  ASSUME IInv, NEW c \in Call, RemoveDocument(c)
  PROVE  IInv'
<1>0. TypeOK /\ call[c] \in CallRecord /\ call \in [Call -> CallRecord]
  BY Shape DEF IInv, TypeOK
<1>1. PICK d \in Doc : /\ doc[d].life = "stored" /\ object' = object \ {d}
                       /\ call' = [call EXCEPT ![c].pc = "removing", ![c].docs = {d}]
  BY DEF RemoveDocument, Current, Owned, Stored
<1>2. PICK r \in CallRecord : r = call[c]
  BY <1>0
<1> DEFINE t == [r EXCEPT !.pc = "removing", !.docs = {d}]
<1>3. "removing" \in Pc
  BY DEF Pc
<1>4. t \in CallRecord /\ t.pc = "removing" /\ t.docs = {d}
  BY <1>3 DEF CallRecord
<1>5. call' = [call EXCEPT ![c] = t]
  BY <1>0, <1>1, <1>2
<1> HIDE DEF t
<1>6. call' \in [Call -> CallRecord] /\ Only(c) /\ call'[c].pc = "removing" /\ call'[c].docs = {d}
  BY <1>0, <1>4, <1>5, Updated DEF Becomes
<1>7. UNCHANGED <<account, session, billing, doc, lost>> /\ call[c].pc = "authenticated"
  BY DEF RemoveDocument, Asks
<1>8. TypeOK'
  BY <1>0, <1>1, <1>6, <1>7 DEF TypeOK
<1>9. Files'
  BY <1>1, <1>6, <1>7, FilesTaken
<1> QED BY <1>6, <1>7, <1>8, <1>9, MembersKept DEF IInv

\* The deletion of an account empties the store of the originals it listed.
LEMMA CheckDeleteStep ==
  ASSUME IInv, NEW c \in Call, CheckDelete(c)
  PROVE  IInv'
<1>0. TypeOK /\ call[c] \in CallRecord /\ call \in [Call -> CallRecord]
  BY Shape DEF IInv, TypeOK
<1>1. PICK g \in BOOLEAN : call' = [call EXCEPT ![c].pc = "checked", ![c].erase = g]
  BY DEF CheckDelete, Erasable
<1>2. PICK r \in CallRecord : r = call[c]
  BY <1>0
<1> DEFINE t == [r EXCEPT !.pc = "checked", !.erase = g]
<1>3. "checked" \in Pc
  BY DEF Pc
<1>4. t \in CallRecord /\ t.pc = "checked" /\ t.docs = r.docs /\ t.acct = r.acct /\ t.knows = r.knows /\ t.op = r.op
  BY <1>3 DEF CallRecord
<1>5. call' = [call EXCEPT ![c] = t]
  BY <1>0, <1>1, <1>2
<1> HIDE DEF t
<1>6. call' \in [Call -> CallRecord] /\ Only(c) /\ call'[c].pc = "checked" /\ call'[c].docs = call[c].docs
  BY <1>0, <1>2, <1>4, <1>5, Updated DEF Becomes
<1>7. call'[c].acct = call[c].acct /\ call'[c].knows = call[c].knows /\ call'[c].op = call[c].op
  BY <1>0, <1>2, <1>4, <1>5
<1>8. /\ UNCHANGED <<account, session, billing, doc, lost>> /\ object' = object \ call[c].docs
      /\ call[c].pc = "locked"
  BY DEF CheckDelete, Asks
<1>9. TypeOK'
  BY <1>0, <1>6, <1>8 DEF TypeOK
<1>10. Files'
  <2>1. \A d \in call[c].docs : doc[d].life # "unused"
    BY <1>8 DEF IInv, Files, Removing, At
  <2> QED BY <1>6, <1>8, <2>1, FilesTaken
<1>11. Live' = Live /\ AccountCap'
  BY <1>8 DEF IInv, Members, AccountCap, Live
<1>12. \A e \in At({"locked", "checked"})' :
         /\ e \in At({"locked", "checked"}) /\ call'[e].acct = call[e].acct
         /\ call'[e].knows = call[e].knows /\ call'[e].op = call[e].op
  BY <1>6, <1>7, <1>8 DEF At, Only
<1>13. /\ \A e \in At({"registering"})' : e \in At({"registering"}) /\ call'[e] = call[e]
       /\ \A e \in At({"identified"})' : e \in At({"identified"}) /\ call'[e] = call[e]
  BY <1>6, <1>8 DEF At, Only
<1>14. Registration'
  BY <1>8, <1>11, <1>13 DEF IInv, Members, Registration
<1>15. OneLock' /\ OneWinner'
  BY <1>8, <1>11, <1>12 DEF IInv, Members, OneLock, OneWinner, Credential
<1> QED BY <1>9, <1>10, <1>11, <1>14, <1>15 DEF IInv, Members

\* The row of the user is locked, and the credential is still the one it was.
LEMMA LockStep ==
  ASSUME IInv, NEW c \in Call, LockUser(c)
  PROVE  IInv'
<1>0. TypeOK /\ call[c] \in CallRecord /\ call \in [Call -> CallRecord]
  BY Shape DEF IInv, TypeOK
<1>1. /\ call[c].pc \in {"presented", "authenticated"} /\ UserFree(call[c].acct)
      /\ UNCHANGED <<account, session, billing, doc, object, lost>>
  BY DEF LockUser
<1>2. CASE End(c)
  <2>1. call' \in [Call -> CallRecord] /\ Only(c) /\ call'[c].pc = "done" /\ billing' \in [Account -> Billing]
    BY <1>0, <1>1, <1>2, Ended DEF TypeOK
  <2> QED BY <1>1, <2>1, Quiet
<1>3. CASE ~End(c)
  <2>1. PICK b \in Billing, ds \in SUBSET Doc :
          /\ \A d \in ds : doc[d].life = "stored"
          /\ call' = [call EXCEPT ![c].pc = "locked", ![c].seen = b, ![c].docs = ds]
    <3>1. call[c].acct \in Account /\ billing[call[c].acct] \in Billing
      BY <1>0 DEF CallRecord, TypeOK
    <3>2. PICK ds \in SUBSET Doc : ds = IF call[c].op = "delete" THEN Owned(call[c].acct) ELSE {}
      BY DEF Owned, Stored
    <3>3. \A d \in ds : doc[d].life = "stored"
      BY <3>2 DEF Owned, Stored
    <3>4. call' = [call EXCEPT ![c].pc = "locked", ![c].seen = billing[call[c].acct], ![c].docs = ds]
      BY <1>3, <3>2 DEF LockUser
    <3> QED BY <3>1, <3>3, <3>4
  <2>2. call[c].acct \in Live /\ call[c].knows = Credential(c)
    BY <1>3 DEF LockUser
  <2>3. PICK r \in CallRecord : r = call[c]
    BY <1>0
  <2> DEFINE t == [r EXCEPT !.pc = "locked", !.seen = b, !.docs = ds]
  <2>4. "locked" \in Pc
    BY DEF Pc
  <2>5. t \in CallRecord /\ t.pc = "locked" /\ t.docs = ds /\ t.acct = r.acct /\ t.knows = r.knows /\ t.op = r.op
    BY <2>4 DEF CallRecord
  <2>6. call' = [call EXCEPT ![c] = t]
    BY <1>0, <2>1, <2>3
  <2> HIDE DEF t
  <2>7. call' \in [Call -> CallRecord] /\ Only(c) /\ call'[c].pc = "locked" /\ call'[c].docs = ds
    BY <1>0, <2>5, <2>6, Updated DEF Becomes
  <2>8. call'[c].acct = call[c].acct /\ call'[c].knows = call[c].knows /\ call'[c].op = call[c].op
    BY <1>0, <2>3, <2>5, <2>6
  <2>9. TypeOK'
    BY <1>0, <1>1, <2>7 DEF TypeOK
  <2>10. Files'
    BY <1>1, <2>1, <2>7, FilesTaken
  <2>11. Live' = Live /\ AccountCap'
    BY <1>1 DEF IInv, Members, AccountCap, Live
  <2>12. /\ \A e \in At({"registering"})' : e \in At({"registering"}) /\ call'[e] = call[e]
         /\ \A e \in At({"identified"})' : e \in At({"identified"}) /\ call'[e] = call[e]
    BY <1>1, <2>7 DEF At, Only
  <2>13. \A e \in At({"locked", "checked"})' :
           e = c \/ (e \in At({"locked", "checked"}) /\ call'[e] = call[e] /\ call[e].acct # call[c].acct)
    BY <1>1, <2>7 DEF At, Only, UserFree
  <2>14. Registration'
    BY <1>1, <2>11, <2>12 DEF IInv, Members, Registration
  <2>15. OneLock'
    BY <2>8, <2>13 DEF IInv, Members, OneLock
  <2>16. OneWinner'
    BY <1>1, <2>2, <2>8, <2>11, <2>13 DEF IInv, Members, OneWinner, Credential
    <2> QED BY <2>9, <2>10, <2>11, <2>14, <2>15, <2>16 DEF IInv, Members
<1> QED BY <1>2, <1>3

\* The deletion of an account commits: one member less, and no original left of its rows.
LEMMA FinishDeleteStep ==
  ASSUME IInv, NEW c \in Call, FinishDelete(c)
  PROVE  IInv'
<1>0. TypeOK /\ call[c] \in CallRecord /\ First \in Account
  BY Shape DEF IInv, TypeOK
<1>1. PICK a \in Account : a = call[c].acct
  BY <1>0 DEF CallRecord
<1>2. /\ call[c].pc = "checked" /\ End(c) /\ Remove(call[c].docs) /\ UNCHANGED <<object, lost>>
      /\ account' = [account EXCEPT ![a].life = "deleted"] /\ session' = EndSessions(a)
      /\ billing' = IF call[c].erase THEN [billing EXCEPT ![a] = "none"] ELSE billing
  BY <1>1 DEF FinishDelete
<1>3. call' \in [Call -> CallRecord] /\ Only(c) /\ call'[c].pc = "done"
  BY <1>0, <1>2, Ended
<1>4. session' \in [Sid -> Account \X Nat]
  BY <1>0, <1>2 DEF TypeOK, EndSessions, NoSession
<1>5. /\ account' \in [Account -> [life : {"unused", "live", "deleted"}, hash : Nat, key : Nat]]
      /\ \A b \in Account : b # a => account'[b] = account[b]
      /\ account'[a].life = "deleted"
  BY <1>0, <1>2 DEF TypeOK
<1>6. billing' \in [Account -> Billing]
  BY <1>0, <1>2 DEF TypeOK, Billing
<1>7. TypeOK'
  BY <1>0, <1>2, <1>3, <1>4, <1>5, <1>6, RemoveType DEF TypeOK
<1>8. call[c].docs \cap object = {}
  BY <1>2 DEF IInv, Files, Removing, At
<1>9. Files'
  BY <1>2, <1>3, <1>8, FilesRemoved DEF Only
<1>10. a \in Live
  BY <1>1, <1>2 DEF IInv, Members, OneWinner, At
<1>11. Live' \subseteq Live
  BY <1>5 DEF Live
<1>12. IsFiniteSet(Live) /\ IsFiniteSet(Live') /\ Cardinality(Live') <= Cardinality(Live)
       /\ Cardinality(Live) \in Nat /\ Cardinality(Live') \in Nat
  BY <1>11, FS_Subset, FS_CardinalityType DEF Live
<1>13. AccountCap'
  BY <1>11, <1>12 DEF IInv, Members, AccountCap
<1>14. \A e \in Call \ {c} : call[e].pc \in {"locked", "checked"} => call[e].acct # a /\ call[e].acct \in Account
  BY <1>1, <1>2, Shape DEF IInv, Members, OneLock, At, CallRecord
<1>15. \A e \in Call \ {c} : call[e].pc = "registering" =>
          /\ call[e].acct # a /\ call[e].acct \in Account
          /\ account[call[e].acct].life = "unused" /\ Cardinality(Live) < MaxAccounts
  BY <1>10, Shape DEF IInv, Members, Registration, At, Live, CallRecord
<1>16. Members'
  <2>1. \A e \in Call \ {c} : call[e].pc = "registering" =>
           account'[call[e].acct].life = "unused" /\ Cardinality(Live') < MaxAccounts
    BY <1>5, <1>12, <1>15
  <2>2. \A e \in Call \ {c} : call[e].pc \in {"locked", "checked"} => account'[call[e].acct] = account[call[e].acct]
    BY <1>5, <1>14
  <2> QED BY <1>3, <1>4, <1>13, <2>1, <2>2, MembersChange
<1> QED BY <1>7, <1>9, <1>16 DEF IInv

\* A fresh id is unused.
LEMMA FreshUnused == Fresh \subseteq Unused
BY DEF Fresh

\* An original is put into the store under a document id nobody uses.
LEMMA PutStep ==
  ASSUME IInv, NEW c \in Call, PutOriginal(c)
  PROVE  IInv'
<1>0. TypeOK /\ call[c] \in CallRecord /\ call \in [Call -> CallRecord]
  BY Shape DEF IInv, TypeOK
<1>1. PICK d \in Unused : object' = object \cup {d} /\ call' = [call EXCEPT ![c].pc = "put", ![c].docs = {d}]
  BY FreshUnused DEF PutOriginal
<1>2. d \in Doc /\ doc[d].life = "unused" /\ \A e \in At({"put"}) : d \notin call[e].docs
  BY DEF Unused
<1>3. PICK r \in CallRecord : r = call[c]
  BY <1>0
<1> DEFINE t == [r EXCEPT !.pc = "put", !.docs = {d}]
<1>4. "put" \in Pc
  BY DEF Pc
<1>5. t \in CallRecord /\ t.pc = "put" /\ t.docs = {d}
  BY <1>2, <1>4 DEF CallRecord
<1>6. call' = [call EXCEPT ![c] = t]
  BY <1>0, <1>1, <1>3
<1> HIDE DEF t
<1>7. call' \in [Call -> CallRecord] /\ Only(c) /\ call'[c].pc = "put" /\ call'[c].docs = {d}
  BY <1>0, <1>5, <1>6, Updated DEF Becomes
<1>8. UNCHANGED <<account, session, billing, doc, lost>> /\ call[c].pc = "counted"
  BY DEF PutOriginal, Asks
<1>9. TypeOK'
  BY <1>0, <1>1, <1>2, <1>7, <1>8 DEF TypeOK
<1>10. /\ \A e \in At({"locked", "checked", "removing"})' : e \in At({"locked", "checked", "removing"}) /\ call'[e] = call[e]
       /\ \A e \in At({"checked", "removing"})' : e \in At({"checked", "removing"}) /\ call'[e] = call[e]
  BY <1>7, <1>8 DEF At, Only
<1>11. \A e \in At({"put"})' : e = c \/ (e \in At({"put"}) /\ call'[e] = call[e])
  BY <1>7, <1>8 DEF At, Only
<1>12. At({"put"})' = At({"put"}) \cup {c} /\ \A e \in At({"put"}) : call'[e] = call[e]
  BY <1>7, <1>8 DEF At, Only
<1>13. \A e \in At({"locked", "checked", "removing"})' : \A f \in call'[e].docs : doc'[f].life # "unused"
  BY <1>8, <1>10 DEF IInv, Files, Removing
<1>14. \A e \in At({"checked", "removing"})' : call'[e].docs \cap object' = {}
  <2>1. \A e \in At({"checked", "removing"}) : d \notin call[e].docs /\ call[e].docs \cap object = {}
    BY <1>2 DEF IInv, Files, Removing, At
  <2> QED BY <1>1, <1>10, <2>1
<1>15. \A e \in At({"put"})' : \E f \in Doc : call'[e].docs = {f} /\ doc'[f].life = "unused"
  BY <1>2, <1>7, <1>8, <1>11 DEF IInv, Files, Removing
<1>16. \A e, f \in At({"put"})' : e # f => call'[e].docs \cap call'[f].docs = {}
  <2>1. \A e \in At({"put"}) : call[e].docs \cap {d} = {}
    BY <1>2
  <2> QED BY <1>7, <1>11, <2>1 DEF IInv, Files, Removing
<1>17. FilesBelong'
  <2>1. Stored' = Stored
    BY <1>8 DEF Stored
  <2> SUFFICES ASSUME NEW x \in object' PROVE (x \in Stored \cup lost \cup UNION {call[e].docs : e \in At({"put"})})'
    BY DEF FilesBelong
  <2>2. CASE x = d
    BY <1>7, <1>12, <2>2
  <2>3. CASE x # d
    <3>1. x \in Stored \/ x \in lost \/ \E e \in At({"put"}) : x \in call[e].docs
      BY <1>1, <2>3 DEF IInv, Files, FilesBelong
    <3>2. ASSUME NEW e \in At({"put"}), x \in call[e].docs
          PROVE  e \in At({"put"})' /\ x \in call'[e].docs
      BY <1>12, <3>2
    <3> QED BY <1>8, <2>1, <3>1, <3>2
  <2> QED BY <2>2, <2>3
<1>18. Files'
  BY <1>13, <1>14, <1>15, <1>16, <1>17 DEF Files, Removing
<1> QED BY <1>7, <1>8, <1>9, <1>18, MembersKept DEF IInv

\* A creation fills the row of a document id nobody uses.
LEMMA Created ==
  ASSUME IInv, NEW c \in Call, CommitDocument(c)
  PROVE  \E d \in Doc :
        /\ call[c].pc = "put" => call[c].docs = {d}
        /\ doc[d].life = "unused"
        /\ \A e \in At({"put"}) \ {c} : d \notin call[e].docs
        /\ doc' = [doc EXCEPT ![d] = [life |-> "stored", owner |-> call[c].acct, text |-> call[c].text,
                                      original |-> call[c].original, aged |-> FALSE]]
<1>0. call[c].pc \in {"put", "counted"}
  BY DEF CommitDocument
<1>1. CASE call[c].pc = "put"
  <2>1. c \in At({"put"})
    BY <1>1 DEF At
  <2>2. PICK d \in Doc : call[c].docs = {d} /\ doc[d].life = "unused"
    BY <2>1 DEF IInv, Files, Removing
  <2>3. \A e \in At({"put"}) \ {c} : d \notin call[e].docs
    BY <2>1, <2>2 DEF IInv, Files, Removing
  <2> QED BY <1>1, <2>2, <2>3 DEF CommitDocument
<1>2. CASE call[c].pc = "counted"
  <2>1. \A d \in Fresh : d \in Doc /\ doc[d].life = "unused" /\ \A e \in At({"put"}) : d \notin call[e].docs
    BY FreshUnused DEF Unused
  <2> QED BY <1>2, <2>1 DEF CommitDocument
<1> QED BY <1>0, <1>1, <1>2

\* A creation commits the document whose original is in the store.
LEMMA CommitStep ==
  ASSUME IInv, NEW c \in Call, CommitDocument(c)
  PROVE  IInv'
<1>0. TypeOK /\ call[c] \in CallRecord
  BY Shape DEF IInv
<1>1. /\ call[c].pc \in {"put", "counted"} /\ End(c) /\ UNCHANGED <<account, session, object, lost>>
  BY DEF CommitDocument
<1>2. call' \in [Call -> CallRecord] /\ Only(c) /\ call'[c].pc = "done"
  BY <1>0, <1>1, Ended
<1>3. call[c].docs \subseteq Doc /\ call[c].text \in Contents \cup {0} /\ call[c].acct \in Account
      /\ call[c].original \in {0, Original}
  BY <1>0 DEF CallRecord
<1>4. PICK d \in Doc :
        /\ call[c].pc = "put" => call[c].docs = {d}
        /\ doc[d].life = "unused"
        /\ \A e \in At({"put"}) \ {c} : d \notin call[e].docs
        /\ doc' = [doc EXCEPT ![d] = [life |-> "stored", owner |-> call[c].acct, text |-> call[c].text,
                                      original |-> call[c].original, aged |-> FALSE]]
  BY Created
<1>5. /\ doc' \in [Doc -> DocRow] /\ doc'[d].life = "stored"
      /\ \A f \in Doc \ {d} : doc'[f] = doc[f]
  <2>1. PICK new \in DocRow : new.life = "stored" /\ doc' = [doc EXCEPT ![d] = new]
    <3> DEFINE new == [life |-> "stored", owner |-> call[c].acct, text |-> call[c].text,
                       original |-> call[c].original, aged |-> FALSE]
    <3>1. new \in DocRow /\ new.life = "stored"
      BY <1>3 DEF DocRow
    <3> QED BY <1>4, <3>1
  <2> QED BY <1>0, <2>1, DocRows
<1>6. billing' \in [Account -> Billing]
  BY <1>0 DEF CommitDocument, KeepAccount, TypeOK, Billing
<1>7. TypeOK'
  BY <1>0, <1>1, <1>2, <1>5, <1>6 DEF TypeOK, DocRow
<1>8. \A e \in Call : call'[e].pc = "put" => \A f \in call[e].docs : doc'[f].life = "unused"
  <2> SUFFICES ASSUME NEW e \in Call, call'[e].pc = "put", NEW f \in call[e].docs
               PROVE  doc'[f].life = "unused"
    OBVIOUS
  <2>1. e # c /\ e \in At({"put"})
    BY <1>2 DEF Only, At
  <2>2. f \in Doc /\ doc[f].life = "unused"
    BY <2>1 DEF IInv, Files, Removing
  <2> QED BY <1>4, <1>5, <2>1, <2>2
<1>9. \A e \in At({"put"}) : \/ call'[e] = call[e]
                            \/ \A f \in call[e].docs \cap object' : doc'[f].life = "stored" \/ f \in lost'
  BY <1>2, <1>4, <1>5 DEF At, Only
<1>10. /\ \A f \in Doc : doc[f].life # "unused" => doc'[f].life # "unused"
       /\ \A f \in object' : doc[f].life = "stored" => doc'[f].life = "stored"
  BY <1>0, <1>1, <1>4, <1>5 DEF TypeOK
<1>11. Files'
  BY <1>1, <1>2, <1>8, <1>9, <1>10, FilesGo DEF Only
<1> QED BY <1>1, <1>2, <1>7, <1>11, MembersKept DEF IInv

-----------------------------------------------------------------------------
\* One member, with a document or without.
LEMMA Start ==
  ASSUME Init
  PROVE  IInv
<1>1. account \in [Account -> [life : {"unused", "live", "deleted"}, hash : Nat, key : Nat]]
      /\ \A a \in Account : account[a].life = "live" <=> a = First
  BY DEF Init
<1>2. Live = {First}
  BY <1>1 DEF Live
<1>3. session \in [Sid -> Account \X Nat]
  BY DEF Init, Identity, NoSession
<1>4. PICK ops \in Scenarios :
        call = [c \in Call |->
         [op |-> ops[c], pc |-> "idle", acct |-> First, sid |-> First, knows |-> 0,
          id |-> <<First, 0>>, seen |-> "none", docs |-> {}, erase |-> FALSE, held |-> FALSE, text |-> 0,
          original |-> 0]]
  BY DEF Init
<1>5. call \in [Call -> CallRecord] /\ \A c \in Call : call[c].pc = "idle"
  <2>1. \A c \in Call : ops[c] \in Op
    OBVIOUS
  <2>2. "idle" \in Pc /\ First \in Sid /\ "none" \in Billing /\ <<First, 0>> \in Account \X Nat
    BY DEF Pc, Sid, Billing
  <2> QED BY <1>4, <2>1, <2>2 DEF CallRecord
<1>6. doc \in [Doc -> DocRow] /\ object \subseteq Doc /\ object \subseteq Stored /\ lost = {}
      /\ billing \in [Account -> Billing]
  <2>1. NoDocument \in DocRow
    BY DEF NoDocument, DocRow
  <2>2. ASSUME NEW text \in Contents
        PROVE  LET new == [NoDocument EXCEPT !.life = "stored", !.text = text, !.original = Original]
               IN  new \in DocRow /\ new.life = "stored"
    BY DEF NoDocument, DocRow
  <2>3. CASE doc = [d \in Doc |-> NoDocument] /\ object = {} /\ billing = [a \in Account |-> "none"]
    BY <2>1, <2>3 DEF Init, Billing
  <2>4. ASSUME NEW text \in Contents,
               doc = [d \in Doc |-> IF d # Old THEN NoDocument ELSE
                      [NoDocument EXCEPT !.life = "stored", !.text = text, !.original = Original]],
               object = {Old}, billing = [a \in Account |-> IF a = First THEN "free" ELSE "none"]
        PROVE  doc \in [Doc -> DocRow] /\ object \subseteq Stored /\ billing \in [Account -> Billing]
    BY <2>1, <2>2, <2>4 DEF Stored, Billing
  <2> QED BY <2>3, <2>4 DEF Init, Stored
<1>7. TypeOK
  BY <1>1, <1>3, <1>5, <1>6 DEF TypeOK, DocRow
<1>8. \A pcs : "idle" \notin pcs => At(pcs) = {}
  BY <1>5 DEF At
<1>9. AccountCap
  BY <1>2, FS_Singleton DEF AccountCap
<1>10. Members
  BY <1>3, <1>8, <1>9 DEF Members, Registration, OneLock, OneWinner
<1>11. Files
  BY <1>6, <1>8 DEF Files, Removing, FilesBelong
<1> QED BY <1>7, <1>10, <1>11 DEF IInv

\* Every step of the system.
LEMMA Step ==
  ASSUME IInv, [Next]_vars
  PROVE  IInv'
<1>1. ASSUME NEW c \in Call, Identify(c)
      PROVE  IInv'
  BY <1>1, QuietStep, RegisterStep DEF Identify
<1>2. ASSUME NEW c \in Call, Work(c)
      PROVE  IInv'
  BY <1>2, QuietStep, RegistrationEnds, IdentifyStep, LoginSteps, LockStep, PasswordStep,
     CheckDeleteStep, FinishDeleteStep, PutStep, CommitStep, SaveStep, RemoveStep, FinishRemovalStep DEF Work
<1>3. ASSUME NEW c \in Call, Crash(c)
      PROVE  IInv'
  BY <1>3, CrashStep
<1>4. CASE CleanUp
  BY <1>4, CleanUpStep
<1>5. ASSUME NEW d \in Doc, Expire(d)
      PROVE  IInv'
  BY <1>5, ExpireStep
<1>6. ASSUME NEW a \in Account, Webhook(a)
      PROVE  IInv'
  BY <1>6, WebhookStep
<1>7. CASE UNCHANGED vars
  <2>1. UNCHANGED <<account, session, billing, doc, object, lost, call>>
    BY <1>7 DEF vars
  <2>2. TypeOK'
    BY <2>1 DEF IInv, TypeOK
  <2>3. \A e \in Call : call'[e].pc = "put" => \A f \in call[e].docs : doc'[f].life = "unused"
    BY <2>1 DEF IInv, Files, Removing, At
  <2>4. Files'
    BY <2>1, <2>3, FilesGo
  <2> QED BY <2>1, <2>2, <2>4, MembersSame DEF IInv
<1> QED BY <1>1, <1>2, <1>3, <1>4, <1>5, <1>6, <1>7 DEF Next

-----------------------------------------------------------------------------
(* Capacity.  What a step takes from the others is documents, never a      *)
(* lock, a row of a member's billing account or room.                      *)

\* What a member has by now is no more than what it had.
Shrinks(a) == (Current(a)' \subseteq Current(a)) /\ Alike(doc, doc', Current(a)')

\* A step of the requests in K leaves the counts and the locks of the others alone.
Undisturbed(K) ==
  /\ \A e \in Call \ K : call'[e] = call[e]
  /\ \A a \in Account : account[a].life # "unused" =>
       account'[a].life # "unused" /\ (account'[a].life = "live" => account[a].life = "live")
  /\ \A a \in Account : account'[a].life = "live" /\ billing[a] # "none" => billing'[a] # "none"
  /\ \A e \in Call \ K : call[e].pc \in {"ensured", "counted"} =>
       \A d \in call[e].docs : /\ doc'[d].text = doc[d].text /\ doc'[d].owner = doc[d].owner
                               /\ doc[d].life # "unused" => doc'[d].life # "unused"
  /\ \A e \in Call \ K : call[e].pc \in {"counted", "put"} /\ account'[call[e].acct].life = "live" =>
       Shrinks(call[e].acct)

\* The sizes of texts and originals are numbers.
LEMMA Sizes == Contents \cup {0} \subseteq Nat /\ {0, Original} \subseteq Nat
BY AccountsAssumption

\* Every set of documents has a size.
LEMMA DocsWeighed ==
  ASSUME NEW D \in [Doc -> DocRow], NEW S, S \subseteq Doc
  PROVE  Weighed(D, S) /\ IsFiniteSet(S) /\ Cardinality(S) \in Nat
<1>1. IsFiniteSet(S) /\ Cardinality(S) \in Nat
  BY FS_Subset, FS_CardinalityType
<1>2. ASSUME NEW d \in Doc PROVE Weight(D, d) \in Nat
  <2>1. D[d].text \in Contents \cup {0} /\ D[d].original \in {0, Original}
    BY DEF DocRow
  <2>2. D[d].text \in Nat /\ D[d].original \in Nat
    BY <2>1, Sizes
  <2> QED BY <2>2 DEF Weight
<1> QED BY <1>1, <1>2 DEF Weighed

\* Bytes is the size of the current documents.
LEMMA CurrentDocs ==
  ASSUME NEW a
  PROVE  Current(a) \subseteq Doc /\ Bytes(a) = Size(doc, Current(a))
<1>1. Current(a) \subseteq Doc
  BY DEF Current, Owned, Stored
<1>2. Bytes(a) = Size(doc, Current(a))
  BY DEF Bytes, Size
<1> QED BY <1>1, <1>2

\* After a step, too.
LEMMA BytesNext == ASSUME NEW a PROVE Bytes(a)' = Size(doc', Current(a)')
BY Zenon DEF Bytes, Size, MapThenSumSet, MapThenFoldSet

\* Who has no more documents than before has no more of them, nor of their bytes.
LEMMA Shrunk ==
  ASSUME TypeOK, TypeOK', NEW a \in Account, Shrinks(a)
  PROVE  /\ Cardinality(Current(a)) \in Nat /\ Cardinality(Current(a))' \in Nat
         /\ Cardinality(Current(a))' <= Cardinality(Current(a))
         /\ Bytes(a) \in Nat /\ Bytes(a)' \in Nat /\ Bytes(a)' <= Bytes(a)
<1>1. Current(a) \subseteq Doc /\ Bytes(a) = Size(doc, Current(a))
  BY CurrentDocs
<1>2. Bytes(a)' = Size(doc', Current(a)')
  BY BytesNext
<1>3. PICK S, T : S = Current(a) /\ T = Current(a)'
  OBVIOUS
<1>4. Weighed(doc, S) /\ T \subseteq S /\ Alike(doc, doc', T) /\ IsFiniteSet(S) /\ S \subseteq Doc
  BY <1>1, <1>3, DocRows, DocsWeighed DEF Shrinks
<1>5. Size(doc', T) \in Nat /\ Size(doc, S) \in Nat /\ Size(doc', T) <= Size(doc, S)
  BY <1>4, SizeShrinks
<1>6. Cardinality(T) \in Nat /\ Cardinality(S) \in Nat /\ Cardinality(T) <= Cardinality(S)
  BY <1>4, FS_Subset, FS_CardinalityType
<1> QED BY <1>1, <1>2, <1>3, <1>5, <1>6

\* A save counts the growth of the text of its document.
LEMMA GrowthOfSave ==
  ASSUME NEW c \in Call, call[c].op # "create", NEW d, call[c].docs = {d}
  PROVE  Growth(c) = IF call[c].text > doc[d].text THEN call[c].text - doc[d].text ELSE 0
<1>1. (CHOOSE x \in {d} : TRUE) = d
  OBVIOUS
<1> QED BY <1>1 DEF Growth

\* After a step, too.
LEMMA GrowthNext ==
  ASSUME NEW c \in Call, call'[c].op # "create", NEW d, call'[c].docs = {d}
  PROVE  Growth(c)' = IF call'[c].text > doc'[d].text THEN call'[c].text - doc'[d].text ELSE 0
<1>1. (CHOOSE x \in {d} : TRUE) = d
  OBVIOUS
<1> QED BY <1>1 DEF Growth

\* What a request adds is a number.
LEMMA GrowthType ==
  ASSUME TypeOK, NEW c \in Call, Adding(c), call[c].pc \in {"ensured", "counted", "put"}
  PROVE  Growth(c) \in Nat
<1>r. call[c] \in CallRecord
  BY Shape
<1>1. call[c].text \in Nat /\ call[c].original \in Nat
  <2>1. call[c].text \in Contents \cup {0} /\ call[c].original \in {0, Original}
    BY <1>r DEF CallRecord
  <2> QED BY <2>1, Sizes
<1>2. CASE call[c].op = "create"
  BY <1>1, <1>2 DEF Growth
<1>3. CASE call[c].op # "create"
  <2>1. PICK d \in Doc : call[c].docs = {d}
    BY <1>3 DEF Adding
  <2>2. doc[d].text \in Nat
    <3>1. doc[d].text \in Contents \cup {0}
      BY DocRows DEF DocRow
    <3> QED BY <3>1, Sizes
  <2> QED BY <1>1, <1>3, <2>1, <2>2, GrowthOfSave
<1> QED BY <1>2, <1>3

\* The requests that a step leaves alone stay as they were to each other.
LEMMA QuotaGoes ==
  ASSUME IInv, IInv', Quota, NEW K, K \subseteq Call, Undisturbed(K), \A c \in K : Sound(c)'
  PROVE  Quota'
<1>0. TypeOK /\ TypeOK'
  BY DEF IInv
<1> SUFFICES ASSUME NEW c \in Call \ K PROVE Sound(c)'
  BY DEF Quota
<1>1. call'[c] = call[c] /\ call[c] \in CallRecord /\ call[c].acct \in Account /\ Sound(c)
  BY <1>0, Shape DEF Undisturbed, CallRecord, Quota
<1>2. \A a \in Account : account[a].life # "unused" =>
        account'[a].life # "unused" /\ (a \in Live' => a \in Live)
  BY DEF Undisturbed, Live
<1>3. account[call[c].acct].life # "unused" /\ call[c].acct \in Live' =>
        call[c].acct \in Live /\ (billing[call[c].acct] # "none" => billing'[call[c].acct] # "none")
  BY <1>1, <1>2 DEF Undisturbed, Live
<1>4. Adding(c)'
  <2>1. CASE call[c].pc \in {"ensured", "counted"}
    <3>1. \A d \in call[c].docs :
            /\ doc'[d].owner = doc[d].owner
            /\ doc[d].life # "unused" => doc'[d].life # "unused"
      BY <2>1 DEF Undisturbed
    <3> QED BY <1>1, <1>2, <2>1, <3>1 DEF Sound, Adding
  <2>2. CASE call[c].pc \notin {"ensured", "counted"}
    BY <1>1, <1>2, <2>2 DEF Sound, Adding
  <2> QED BY <2>1, <2>2
<1>5. Holding(c)'
  BY <1>1, <1>3 DEF Sound, Holding, Adding
<1>6. Room(c)'
  <2> SUFFICES ASSUME call[c].pc \in {"counted", "put"}, call[c].acct \in Live' PROVE Fits(c)'
    BY <1>1 DEF Room
  <2>a. PICK a \in Account : a = call[c].acct
    BY <1>1
  <2>1. account[a].life # "unused" /\ a \in Live
    BY <1>1, <1>3, <2>a DEF Sound, Adding
  <2>2. Fits(c) /\ Shrinks(a)
    BY <1>1, <2>1, <2>a DEF Sound, Room, Undisturbed, Live
  <2>3. Growth(c) \in Nat
    BY <1>0, <1>1, GrowthType DEF Sound
  <2>4. Growth(c)' = Growth(c)
    <3>1. CASE call[c].op = "create"
      BY <1>1, <3>1 DEF Growth
    <3>2. CASE call[c].op # "create"
      <4>1. PICK d \in Doc : call[c].docs = {d} /\ call[c].pc # "put"
        BY <1>1, <3>2 DEF Sound, Adding
      <4>2. doc'[d].text = doc[d].text
        BY <4>1 DEF Undisturbed
      <4>3. Growth(c) = IF call[c].text > doc[d].text THEN call[c].text - doc[d].text ELSE 0
        BY <3>2, <4>1, GrowthOfSave
      <4>4. Growth(c)' = IF call[c].text > doc'[d].text THEN call[c].text - doc'[d].text ELSE 0
        BY <1>1, <3>2, <4>1, GrowthNext
      <4> QED BY <4>2, <4>3, <4>4
    <3> QED BY <3>1, <3>2
  <2>5. /\ Cardinality(Current(a)) \in Nat /\ Cardinality(Current(a))' \in Nat
        /\ Cardinality(Current(a))' <= Cardinality(Current(a))
        /\ Bytes(a) \in Nat /\ Bytes(a)' \in Nat /\ Bytes(a)' <= Bytes(a)
    BY <1>0, <1>1, <2>2, Shrunk
  <2>6. DocLimit[PlanOf(call[c].seen)] \in Nat /\ ByteLimit[PlanOf(call[c].seen)] \in Nat
    BY DEF PlanOf, Plan
  <2>7. /\ Cardinality(Current(a)) + (IF call[c].op = "create" THEN 1 ELSE 0)
             <= DocLimit[PlanOf(call[c].seen)]
        /\ Bytes(a) + Growth(c) <= ByteLimit[PlanOf(call[c].seen)]
    BY <2>2, <2>a DEF Fits
  <2>8. /\ Cardinality(Current(a))' + (IF call[c].op = "create" THEN 1 ELSE 0)
             <= DocLimit[PlanOf(call[c].seen)]
        /\ Bytes(a)' + Growth(c)' <= ByteLimit[PlanOf(call[c].seen)]
    BY <2>3, <2>4, <2>5, <2>6, <2>7
  <2>9. call'[c].acct = a /\ call'[c].op = call[c].op /\ call'[c].seen = call[c].seen
    BY <1>1, <2>a
  <2> QED BY <2>8, <2>9 DEF Fits
<1>7. ASSUME NEW e \in Call \ {c} PROVE Apart(c, e)'
  <2>1. CASE e \in K
    <3>1. Apart(e, c)'
      BY <2>1 DEF Sound
    <3> QED BY <3>1 DEF Apart
  <2>2. CASE e \notin K
    <3>1. call'[e] = call[e] /\ Apart(c, e)
      BY <1>1, <2>2 DEF Sound, Undisturbed
    <3> QED BY <1>1, <3>1 DEF Apart, At
  <2> QED BY <2>1, <2>2
<1> QED BY <1>4, <1>5, <1>6, <1>7 DEF Sound

\* A request that is neither counting nor locking has nothing to lose.
LEMMA Away ==
  ASSUME NEW c \in Call,
         call'[c].pc \notin {"authenticated", "ensured", "counted", "put", "removing", "checked"}
  PROVE  Sound(c)'
BY DEF Sound, Adding, Holding, Room, Apart, At

\* Only request c moves, and neither a document, a member nor a payment with it.
LEMMA Calm ==
  ASSUME TypeOK, NEW c \in Call, Only(c), UNCHANGED <<doc, billing>>,
         \A a \in Account : account[a].life # "unused" => account'[a].life = account[a].life
  PROVE  Undisturbed({c})
<1>1. \A a \in Account : Shrinks(a)
  BY DEF Shrinks, Alike, Weight, Current, Owned, Stored
<1>2. \A e \in Call : call[e].acct \in Account
  BY Shape DEF CallRecord
<1> QED BY <1>1, <1>2 DEF Undisturbed, Only

\* A request moves away from, or to, a place where it neither counts nor locks documents.
LEMMA CalmAway ==
  ASSUME IInv, IInv', Quota, NEW c \in Call, Only(c), UNCHANGED <<doc, billing>>,
         \A a \in Account : account[a].life # "unused" => account'[a].life = account[a].life,
         call'[c].pc \notin {"authenticated", "ensured", "counted", "put", "removing", "checked"}
  PROVE  Quota'
BY Calm, Away, QuotaGoes DEF IInv

\* Steps of a request that change no document and no payment, and count nothing.
LEMMA QuietQuota ==
  ASSUME IInv, IInv', Quota, NEW c \in Call,
         \/ Register(c) \/ RefuseRegistration(c) \/ VerifyLogin(c) \/ Present(c) \/ Crash(c)
         \/ FinishRegistration(c) \/ IdentifyLogin(c) \/ FinishLogin(c) \/ Logout(c)
         \/ LockUser(c) \/ FinishPassword(c)
  PROVE  Quota'
<1> DEFINE Left(pcs) == Only(c) /\ call'[c].pc \in pcs
<1>0. TypeOK /\ call \in [Call -> CallRecord] /\ call[c] \in CallRecord
  BY DEF IInv, TypeOK
<1>r. PICK r \in CallRecord : r = call[c]
  BY <1>0
<1>e. End(c) => Left({"done"})
  BY <1>0, Ended
<1>1. CASE RefuseRegistration(c) \/ FinishLogin(c) \/ Logout(c) \/ Crash(c)
  <2>1. Left({"done"}) /\ UNCHANGED <<account, billing, doc>>
    BY <1>1, <1>e DEF RefuseRegistration, FinishLogin, Logout, Crash
  <2> QED BY <2>1, CalmAway
<1>2. CASE Register(c)
  <2>1. Left({"registering"}) /\ UNCHANGED <<account, billing, doc>>
    <3>1. PICK b : call' = [call EXCEPT ![c].pc = "registering", ![c].acct = b]
      BY <1>2 DEF Register
    <3> QED BY <1>0, <1>2, <3>1 DEF Register, Only, CallRecord
  <2> QED BY <2>1, CalmAway
<1>3. CASE VerifyLogin(c)
  <2>1. Left({"verified"}) /\ UNCHANGED <<account, billing, doc>>
    <3>1. PICK b : call' = [call EXCEPT ![c].pc = "verified", ![c].acct = b]
      BY <1>3 DEF VerifyLogin
    <3> QED BY <1>0, <1>3, <3>1 DEF VerifyLogin, Only, CallRecord
  <2> QED BY <2>1, CalmAway
<1>4. CASE Present(c)
  <2>1. Left({"presented"}) /\ UNCHANGED <<account, billing, doc>>
    <3>1. PICK b, k : call' = [call EXCEPT ![c].pc = "presented", ![c].acct = b, ![c].knows = k]
      BY <1>4 DEF Present
    <3> QED BY <1>0, <1>4, <3>1 DEF Present, Only, CallRecord
  <2> QED BY <2>1, CalmAway
<1>5. CASE IdentifyLogin(c)
  <2>1. Left({"done", "identified"}) /\ UNCHANGED <<account, billing, doc>>
    <3>1. CASE call[c].acct \in Live
      BY <1>0, <1>5, <3>1 DEF IdentifyLogin, Only, CallRecord
    <3>2. CASE call[c].acct \notin Live
      BY <1>5, <1>e, <3>2 DEF IdentifyLogin
    <3> QED BY <3>1, <3>2
  <2> QED BY <2>1, CalmAway
<1>6. CASE LockUser(c)
  <2>1. Left({"done", "locked"}) /\ UNCHANGED <<account, billing, doc>>
    <3>1. CASE End(c)
      BY <1>6, <1>e, <3>1 DEF LockUser
    <3>2. CASE ~End(c)
      <4>1. PICK b, ds : call' = [call EXCEPT ![c].pc = "locked", ![c].seen = b, ![c].docs = ds]
        BY <1>6, <3>2 DEF LockUser
      <4> QED BY <1>0, <1>6, <4>1 DEF LockUser, Only, CallRecord
    <3> QED BY <3>1, <3>2
  <2> QED BY <2>1, CalmAway
<1>7. CASE FinishPassword(c)
  <2>1. Left({"done"}) /\ UNCHANGED <<billing, doc>>
    BY <1>7, <1>e DEF FinishPassword
  <2>2. \A a \in Account : account'[a].life = account[a].life
    BY <1>0, <1>7 DEF FinishPassword, TypeOK
  <2> QED BY <2>1, <2>2, CalmAway
<1>8. CASE FinishRegistration(c)
  <2>1. Left({"done"}) /\ UNCHANGED <<billing, doc>>
    BY <1>8, <1>e DEF FinishRegistration
  <2>2. account[call[c].acct].life = "unused"
    BY <1>8 DEF FinishRegistration, IInv, Members, Registration, At
  <2>3. \A a \in Account : account[a].life # "unused" => account'[a].life = account[a].life
    BY <1>0, <1>8, <2>2 DEF FinishRegistration, TypeOK
  <2> QED BY <2>1, <2>3, CalmAway
<1> QED BY <1>1, <1>2, <1>3, <1>4, <1>5, <1>6, <1>7, <1>8

\* Payments: no row of a billing account goes.
LEMMA PaymentCalm ==
  ASSUME TypeOK, UNCHANGED <<account, doc>>, NEW K, \A e \in Call \ K : call'[e] = call[e],
         \A a \in Account : billing[a] # "none" => billing'[a] # "none"
  PROVE  Undisturbed(K)
<1>1. \A a \in Account : Shrinks(a)
  BY DEF Shrinks, Alike, Weight, Current, Owned, Stored
<1>2. \A e \in Call : call[e].acct \in Account
  BY Shape DEF CallRecord
<1> QED BY <1>1, <1>2 DEF Undisturbed

\* A checkout adds an attempt to the billing account.
LEMMA CheckoutQuota ==
  ASSUME IInv, IInv', Quota, NEW c \in Call, Checkout(c)
  PROVE  Quota'
<1>1. TypeOK
  BY DEF IInv
<1>2. Only(c) /\ call'[c].pc = "done" /\ UNCHANGED <<account, doc>>
  BY <1>1, Ended DEF Checkout
<1>3. \A a \in Account : billing[a] # "none" => billing'[a] # "none"
  BY <1>1 DEF Checkout, TypeOK
<1>4. Undisturbed({c})
  BY <1>1, <1>2, <1>3, PaymentCalm DEF Only
<1> QED BY <1>2, <1>4, Away, QuotaGoes

\* A webhook moves a payment on.
LEMMA WebhookQuota ==
  ASSUME IInv, IInv', Quota, NEW a \in Account, Webhook(a)
  PROVE  Quota'
<1>1. \A b \in Account : billing[b] # "none" => billing'[b] # "none"
  BY DEF Webhook, IInv, TypeOK
<1>2. UNCHANGED <<account, doc, call>>
  BY DEF Webhook
<1>3. Undisturbed({})
  BY <1>1, <1>2, PaymentCalm DEF IInv
<1> QED BY <1>3, QuotaGoes

\* Documents go, none of them locked by another request.
LEMMA RemoveCalm ==
  ASSUME IInv, Quota, NEW K, K \subseteq Call, \A e \in Call \ K : call'[e] = call[e],
         \A a \in Account : account[a].life # "unused" =>
           account'[a].life # "unused" /\ (account'[a].life = "live" => account[a].life = "live"),
         \A a \in Account : account'[a].life = "live" /\ billing[a] # "none" => billing'[a] # "none",
         NEW ds, Remove(ds),
         \A e \in Call \ K : call[e].pc \in {"ensured", "counted"} => ds \cap call[e].docs = {}
  PROVE  Undisturbed(K)
<1>0. TypeOK /\ \A e \in Call : call[e].acct \in Account /\ call[e].docs \subseteq Doc
  BY Shape DEF IInv, CallRecord
<1>1. \A d \in Doc : \/ doc'[d] = doc[d]
                     \/ d \in ds /\ doc'[d].life = "gone"
  BY DEF Remove, NoDocument
<1>2. \A a \in Account : Shrinks(a)
  <2> SUFFICES ASSUME NEW a \in Account PROVE Shrinks(a)
    OBVIOUS
  <2>1. \A d \in Current(a)' : d \in Doc /\ doc'[d] = doc[d] /\ d \in Current(a)
    BY <1>1 DEF Current, Owned, Stored
  <2> QED BY <2>1 DEF Shrinks, Alike, Weight
<1>3. \A e \in Call \ K : call[e].pc \in {"ensured", "counted"} =>
        \A d \in call[e].docs : doc'[d] = doc[d]
  BY <1>0, <1>1
<1> QED BY <1>0, <1>2, <1>3 DEF Undisturbed

\* The clean-up waits for the rows of the documents that have expired.
LEMMA CleanUpQuota ==
  ASSUME IInv, IInv', Quota, CleanUp
  PROVE  Quota'
<1>1. \A e \in Call : call[e].pc \in {"ensured", "counted"} => Expired \cap call[e].docs = {}
  BY DEF CleanUp, DocFree, At
<1>2. Undisturbed({})
  BY <1>1, RemoveCalm DEF CleanUp
<1> QED BY <1>2, QuotaGoes

\* A removal deletes the rows it has locked.
LEMMA FinishRemovalQuota ==
  ASSUME IInv, IInv', Quota, NEW c \in Call, FinishRemoval(c)
  PROVE  Quota'
<1>1. Only(c) /\ call'[c].pc = "done" /\ UNCHANGED <<account, billing>>
  BY Ended DEF IInv, FinishRemoval
<1>2. \A e \in Call \ {c} : call[e].pc \in {"ensured", "counted"} => call[c].docs \cap call[e].docs = {}
  BY DEF FinishRemoval, Quota, Sound, Apart, At
<1>3. Undisturbed({c})
  BY <1>1, <1>2, RemoveCalm DEF FinishRemoval, Only
<1> QED BY <1>1, <1>3, Away, QuotaGoes

\* A deletion leaves no member whose row of a billing account could be missed.
LEMMA FinishDeleteQuota ==
  ASSUME IInv, IInv', Quota, NEW c \in Call, FinishDelete(c)
  PROVE  Quota'
<1>0. TypeOK /\ call[c].acct \in Account
  BY Shape DEF IInv, CallRecord
<1>1. Only(c) /\ call'[c].pc = "done"
  BY <1>0, Ended DEF FinishDelete
<1>2. \A e \in Call \ {c} : call[e].pc \in {"ensured", "counted"} => call[c].docs \cap call[e].docs = {}
  BY DEF FinishDelete, Quota, Sound, Apart, At
<1>3. \A a \in Account :
        /\ account[a].life # "unused" =>
             account'[a].life # "unused" /\ (account'[a].life = "live" => account[a].life = "live")
        /\ account'[a].life = "live" /\ billing[a] # "none" => billing'[a] # "none"
  <2>1. account'[call[c].acct].life = "deleted"
    BY <1>0 DEF FinishDelete, TypeOK
  <2>2. \A a \in Account \ {call[c].acct} : account'[a] = account[a] /\ billing'[a] = billing[a]
    BY <1>0 DEF FinishDelete, TypeOK
  <2> QED BY <2>1, <2>2
<1>4. Undisturbed({c})
  BY <1>1, <1>2, <1>3, RemoveCalm DEF FinishDelete, Only
<1> QED BY <1>1, <1>4, Away, QuotaGoes

\* A document that expires is still its owner's, and counts no more.
LEMMA ExpireQuota ==
  ASSUME IInv, IInv', Quota, NEW d \in Doc, Expire(d)
  PROVE  Quota'
<1>0. TypeOK /\ \A e \in Call : call[e].acct \in Account /\ call[e].docs \subseteq Doc
  BY Shape DEF IInv, CallRecord
<1>1. UNCHANGED <<account, billing, call>>
  BY DEF Expire
<1>2. /\ \A x \in Doc : doc'[x].text = doc[x].text /\ doc'[x].owner = doc[x].owner
                        /\ doc'[x].life = doc[x].life /\ doc'[x].original = doc[x].original
                        /\ (doc[x].aged => doc'[x].aged)
  BY <1>0, DocRows DEF Expire, DocRow
<1>3. \A a \in Account : Shrinks(a)
  BY <1>2 DEF Shrinks, Alike, Weight, Current, Owned, Stored
<1>4. Undisturbed({})
  BY <1>0, <1>1, <1>2, <1>3 DEF Undisturbed
<1> QED BY <1>4, QuotaGoes

\* Request c goes on, soundly.
LEMMA Goes ==
  ASSUME IInv, IInv', Quota, NEW c \in Call, Only(c), UNCHANGED <<account, billing, doc>>, Sound(c)'
  PROVE  Quota'
<1>1. Undisturbed({c})
  BY Calm DEF IInv
<1> QED BY <1>1, QuotaGoes

\* Who is authenticated is a member.
LEMMA AuthenticateQuota ==
  ASSUME IInv, IInv', Quota, NEW c \in Call, Authenticate(c)
  PROVE  Quota'
<1>0. TypeOK /\ call \in [Call -> CallRecord] /\ call[c] \in CallRecord
  BY DEF IInv, TypeOK
<1>1. PICK s, k :
        /\ s \in Sid /\ Valid(s)
        /\ call' = [call EXCEPT ![c].pc = "authenticated", ![c].acct = session[s][1],
                                ![c].sid = s, ![c].knows = k]
  BY DEF Authenticate
<1>2. PICK a : a = session[s][1]
  OBVIOUS
<1>3. a \in Account /\ account[a].life = "live"
  BY <1>1, <1>2 DEF Valid, Identity, Live
<1>4. Only(c) /\ call'[c].pc = "authenticated" /\ call'[c].acct = a
  BY <1>0, <1>1, <1>2 DEF Only, CallRecord
<1>5. UNCHANGED <<account, billing, doc>>
  BY DEF Authenticate
<1>6. Sound(c)'
  BY <1>3, <1>4, <1>5 DEF Sound, Adding, Holding, Room, Apart, At
<1> QED BY <1>4, <1>5, <1>6, Goes

\* The row of the account is read, or inserted and held; a save locks its document.
LEMMA EnsureQuota ==
  ASSUME IInv, IInv', Quota, NEW c \in Call, EnsureAccount(c)
  PROVE  Quota'
<1>0. TypeOK /\ call \in [Call -> CallRecord] /\ call[c] \in CallRecord
  BY DEF IInv, TypeOK
<1>a. PICK a : a = call[c].acct
  OBVIOUS
<1>h. PICK h \in BOOLEAN : h <=> billing[a] = "none"
  OBVIOUS
<1>1. PICK text, original, ds :
        /\ \/ call[c].op = "create" /\ ds = {}
           \/ call[c].op = "save" /\ \E d \in Current(a) : ds = {d} /\ DocFree(d)
        /\ call' = [call EXCEPT ![c].pc = "ensured", ![c].seen = billing[a], ![c].held = billing[a] = "none",
                                ![c].docs = ds, ![c].text = text, ![c].original = original]
  BY <1>a DEF EnsureAccount, Asks
<1>2. Only(c) /\ UNCHANGED <<account, billing, doc>>
  BY <1>0, <1>1 DEF EnsureAccount, Only
<1>3. /\ call'[c].pc = "ensured" /\ call'[c].acct = a /\ call'[c].op = call[c].op
      /\ call'[c].docs = ds
  BY <1>0, <1>1, <1>a DEF CallRecord
<1>4. call'[c].held <=> billing[a] = "none"
  BY <1>0, <1>1 DEF CallRecord
<1>5. Adding(c)'
  <2>1. account[a].life # "unused"
    BY <1>a DEF EnsureAccount, Asks, Quota, Sound, Adding
  <2>2. \A d \in Current(a) : d \in Doc /\ doc[d].life # "unused" /\ doc[d].owner = a
    BY DEF Current, Owned, Stored
  <2> QED BY <1>1, <1>2, <1>3, <2>1, <2>2 DEF Adding
<1>6. Holding(c)' /\ Room(c)'
  BY <1>2, <1>3, <1>4 DEF Holding, Room
<1>7. ASSUME NEW e \in Call \ {c} PROVE Apart(c, e)'
  <2>1. call'[e] = call[e]
    BY <1>2 DEF Only
  <2>2. ~(call'[c].held /\ call[e].pc \in {"ensured", "counted", "put"} /\ call[e].held /\ call[e].acct = a)
    BY <1>4, <1>a DEF EnsureAccount, BillingFree, At
  <2>3. call[e].pc \in {"ensured", "counted", "removing", "checked"} => ds \cap call[e].docs = {}
    BY <1>1 DEF DocFree, At
  <2> QED BY <1>3, <2>1, <2>2, <2>3 DEF Apart, At
<1>8. Sound(c)'
  BY <1>5, <1>6, <1>7 DEF Sound
<1> QED BY <1>2, <1>8, Goes

\* A count that fits locks the row of the account.
LEMMA CountQuota ==
  ASSUME IInv, IInv', Quota, NEW c \in Call, Count(c)
  PROVE  Quota'
<1>0. TypeOK /\ call \in [Call -> CallRecord] /\ call[c] \in CallRecord
  BY DEF IInv, TypeOK
<1>c. UNCHANGED <<account, billing, doc>> /\ call[c].pc = "ensured" /\ Sound(c)
  BY DEF Count, Quota
<1>1. CASE End(c)
  <2>1. Only(c) /\ call'[c].pc = "done"
    BY <1>0, <1>1, Ended
  <2> QED BY <1>c, <2>1, CalmAway
<1>2. CASE ~End(c)
  <2>1. /\ Fits(c)
        /\ call' = [call EXCEPT ![c].pc = "counted", ![c].held = @ \/ billing[call[c].acct] # "none"]
    BY <1>2 DEF Count
  <2>2. Only(c)
    BY <1>0, <2>1 DEF Only
  <2>3. /\ call'[c].pc = "counted" /\ call'[c].acct = call[c].acct /\ call'[c].op = call[c].op
        /\ call'[c].docs = call[c].docs /\ call'[c].seen = call[c].seen
        /\ call'[c].text = call[c].text /\ call'[c].original = call[c].original
    BY <1>0, <2>1 DEF CallRecord
  <2>4. call'[c].held <=> call[c].held \/ billing[call[c].acct] # "none"
    BY <1>0, <2>1 DEF CallRecord
  <2>5. Adding(c)'
    BY <1>c, <2>3 DEF Sound, Adding
  <2>6. Holding(c)'
    BY <1>c, <2>3, <2>4 DEF Sound, Holding, Live
  <2>7. Room(c)'
    <3>a. PICK a : a = call[c].acct
      OBVIOUS
    <3>1. Growth(c)' = Growth(c)
      <4>1. CASE call[c].op = "create"
        BY <1>c, <2>3, <4>1 DEF Growth
      <4>2. CASE call[c].op # "create"
        <5>1. PICK d : call[c].docs = {d}
          BY <1>c, <4>2 DEF Sound, Adding
        <5>2. Growth(c) = IF call[c].text > doc[d].text THEN call[c].text - doc[d].text ELSE 0
          BY <4>2, <5>1, GrowthOfSave
        <5>3. Growth(c)' = IF call'[c].text > doc'[d].text THEN call'[c].text - doc'[d].text ELSE 0
          BY <2>3, <4>2, <5>1, GrowthNext
        <5> QED BY <1>c, <2>3, <5>2, <5>3
      <4> QED BY <4>1, <4>2
    <3>2. Current(a)' = Current(a)
      BY <1>c DEF Current, Owned, Stored
    <3>3. Bytes(a)' = Bytes(a)
      BY <1>c, <3>2, BytesNext, CurrentDocs
    <3>4. Fits(c)'
      BY <2>1, <2>3, <3>a, <3>1, <3>2, <3>3 DEF Fits
    <3> QED BY <3>4 DEF Room
  <2>8. ASSUME NEW e \in Call \ {c} PROVE Apart(c, e)'
    <3>1. call'[e] = call[e] /\ Apart(c, e)
      BY <1>c, <2>2 DEF Only, Sound
    <3>2. \/ call[c].held
          \/ ~(call[e].pc \in {"ensured", "counted", "put"} /\ call[e].held /\ call[e].acct = call[c].acct)
      BY DEF Count, BillingFree, At
    <3> QED BY <1>c, <2>3, <3>1, <3>2 DEF Apart, At
  <2>9. Sound(c)'
    BY <2>5, <2>6, <2>7, <2>8 DEF Sound
  <2> QED BY <1>c, <2>2, <2>9, Goes
<1> QED BY <1>1, <1>2

\* The original is put into the store by the one who has counted.
LEMMA PutQuota ==
  ASSUME IInv, IInv', Quota, NEW c \in Call, PutOriginal(c)
  PROVE  Quota'
<1>0. TypeOK /\ call \in [Call -> CallRecord] /\ call[c] \in CallRecord
  BY DEF IInv, TypeOK
<1>1. PICK ds : call' = [call EXCEPT ![c].pc = "put", ![c].docs = ds]
  BY DEF PutOriginal
<1>2. /\ Only(c) /\ UNCHANGED <<account, billing, doc>>
      /\ call[c].pc = "counted" /\ call[c].op = "create" /\ Sound(c)
  BY <1>0, <1>1 DEF PutOriginal, Asks, Only, Quota
<1>3. /\ call'[c].pc = "put" /\ call'[c].acct = call[c].acct /\ call'[c].op = "create"
      /\ call'[c].seen = call[c].seen /\ call'[c].held = call[c].held
      /\ call'[c].text = call[c].text /\ call'[c].original = call[c].original
  BY <1>0, <1>1, <1>2 DEF CallRecord
<1>4. Adding(c)' /\ Holding(c)'
  BY <1>2, <1>3 DEF Sound, Adding, Holding, Live
<1>5. Room(c)'
  <2>1. PICK a : a = call[c].acct
    OBVIOUS
  <2>2. Growth(c)' = Growth(c)
    BY <1>2, <1>3 DEF Growth
  <2>3. Current(a)' = Current(a)
    BY <1>2 DEF Current, Owned, Stored
  <2>4. Bytes(a)' = Bytes(a)
    BY <1>2, <2>3, BytesNext, CurrentDocs
  <2>5. a \in Live' => Fits(c)
    BY <1>2, <2>1 DEF Sound, Room, Live
  <2> QED BY <1>2, <1>3, <2>1, <2>2, <2>3, <2>4, <2>5 DEF Room, Fits
<1>6. ASSUME NEW e \in Call \ {c} PROVE Apart(c, e)'
  <2>1. call'[e] = call[e] /\ Apart(c, e)
    BY <1>2 DEF Only, Sound
  <2> QED BY <1>2, <1>3, <2>1 DEF Apart, At
<1>7. Sound(c)'
  BY <1>4, <1>5, <1>6 DEF Sound
<1> QED BY <1>2, <1>7, Goes

\* A request that removes documents has waited for their rows.
LEMMA LockDocs ==
  ASSUME IInv, IInv', Quota, NEW c \in Call, Only(c), UNCHANGED <<account, billing, doc>>,
         call'[c].pc \in {"removing", "checked"}, \A d \in call'[c].docs : DocFree(d)
  PROVE  Quota'
<1>1. ASSUME NEW e \in Call \ {c} PROVE Apart(c, e)'
  <2>1. call'[e] = call[e]
    BY DEF Only
  <2> QED BY <2>1 DEF Apart, At, DocFree
<1>2. Sound(c)'
  BY <1>1 DEF Sound, Adding, Holding, Room
<1> QED BY <1>2, Goes

\* A removal locks the row of its document.
LEMMA RemoveQuota ==
  ASSUME IInv, IInv', Quota, NEW c \in Call, RemoveDocument(c)
  PROVE  Quota'
<1>0. call \in [Call -> CallRecord] /\ call[c] \in CallRecord
  BY DEF IInv, TypeOK
<1>1. PICK d : DocFree(d) /\ call' = [call EXCEPT ![c].pc = "removing", ![c].docs = {d}]
  BY DEF RemoveDocument
<1>2. Only(c) /\ call'[c].pc = "removing" /\ call'[c].docs = {d}
  BY <1>0, <1>1 DEF Only, CallRecord
<1> QED BY <1>1, <1>2, LockDocs DEF RemoveDocument

\* A deletion locks the rows of the documents it has listed.
LEMMA CheckDeleteQuota ==
  ASSUME IInv, IInv', Quota, NEW c \in Call, CheckDelete(c)
  PROVE  Quota'
<1>0. call \in [Call -> CallRecord] /\ call[c] \in CallRecord
  BY DEF IInv, TypeOK
<1>1. PICK b : call' = [call EXCEPT ![c].pc = "checked", ![c].erase = b]
  BY DEF CheckDelete
<1>2. Only(c) /\ call'[c].pc = "checked" /\ call'[c].docs = call[c].docs
  BY <1>0, <1>1 DEF Only, CallRecord
<1> QED BY <1>1, <1>2, LockDocs DEF CheckDelete

\* Who commits for a member is the only one to have counted its documents.
LEMMA Alone ==
  ASSUME Quota, NEW c \in Call, NEW e \in Call \ {c},
         call[c].pc \in {"counted", "put"}, call[e].pc \in {"counted", "put"},
         call[e].acct \in Live
  PROVE  call[e].acct # call[c].acct
BY DEF Quota, Sound, Holding, Apart, At

\* The document that request c writes is its member's, and no other request has locked it.
LEMMA WritesOne ==
  ASSUME IInv, Quota, NEW c \in Call, Only(c), account' = account, KeepAccount(c),
         call[c].pc \in {"counted", "put"}, NEW d,
         doc'[d].owner = call[c].acct, \A f \in Doc \ {d} : doc'[f] = doc[f],
         \A e \in Call \ {c} : call[e].pc \in {"ensured", "counted"} => d \notin call[e].docs
  PROVE  Undisturbed({c})
<1>0. TypeOK /\ \A e \in Call : call[e].docs \subseteq Doc
  BY Shape DEF IInv, CallRecord
<1>1. ASSUME NEW b, b # call[c].acct PROVE Shrinks(b)
  <2>1. \A f \in Current(b)' : f \in Doc /\ f # d
    BY <1>1 DEF Current, Owned, Stored
  <2>2. \A f \in Current(b)' : doc'[f] = doc[f] /\ f \in Current(b)
    BY <2>1 DEF Current, Owned, Stored
  <2> QED BY <2>2 DEF Shrinks, Alike, Weight
<1>2. \A e \in Call \ {c} : call[e].pc \in {"counted", "put"} /\ account'[call[e].acct].life = "live" =>
        Shrinks(call[e].acct)
  <2> SUFFICES ASSUME NEW e \in Call \ {c}, call[e].pc \in {"counted", "put"},
                      account[call[e].acct].life = "live"
               PROVE  Shrinks(call[e].acct)
    OBVIOUS
  <2>1. call[e].acct \in Live
    BY <1>0, Shape DEF Live, CallRecord
  <2> QED BY <1>1, <2>1, Alone
<1>3. \A a \in Account : billing[a] # "none" => billing'[a] # "none"
  BY <1>0 DEF KeepAccount, TypeOK
<1>4. \A e \in Call \ {c} : call[e].pc \in {"ensured", "counted"} =>
        \A f \in call[e].docs : doc'[f] = doc[f]
  BY <1>0
<1> QED BY <1>2, <1>3, <1>4 DEF Undisturbed, Only

\* A creation fills a row nobody has locked.
LEMMA CommitQuota ==
  ASSUME IInv, IInv', Quota, NEW c \in Call, CommitDocument(c)
  PROVE  Quota'
<1>0. TypeOK /\ doc \in [Doc -> DocRow]
  BY DocRows DEF IInv
<1>1. Only(c) /\ call'[c].pc = "done" /\ account' = account /\ call[c].pc \in {"counted", "put"}
  BY <1>0, Ended DEF CommitDocument
<1>2. PICK d \in Doc :
        /\ doc[d].life = "unused"
        /\ doc' = [doc EXCEPT ![d] = [life |-> "stored", owner |-> call[c].acct, text |-> call[c].text,
                                      original |-> call[c].original, aged |-> FALSE]]
  BY Created
<1>3. doc'[d].owner = call[c].acct /\ \A f \in Doc \ {d} : doc'[f] = doc[f]
  BY <1>0, <1>2
<1>4. \A e \in Call \ {c} : call[e].pc \in {"ensured", "counted"} => d \notin call[e].docs
  BY <1>2 DEF Quota, Sound, Adding
<1>5. Undisturbed({c})
  BY <1>1, <1>3, <1>4, WritesOne DEF CommitDocument
<1> QED BY <1>1, <1>5, Away, QuotaGoes

\* The document that a save has locked.
LEMMA Saving ==
  ASSUME IInv, Quota, NEW c \in Call, CommitSave(c)
  PROVE  \E d \in Doc : /\ call[c].docs = {d} /\ doc[d].owner = call[c].acct
                        /\ doc' = [doc EXCEPT ![d].text = call[c].text]
<1>0. doc \in [Doc -> DocRow]
  BY DocRows DEF IInv
<1>1. PICK d \in Doc : call[c].docs = {d} /\ doc[d].owner = call[c].acct
  BY DEF CommitSave, Asks, Quota, Sound, Adding
<1>2. doc' = [doc EXCEPT ![d].text = call[c].text]
  BY <1>0, <1>1 DEF CommitSave, DocRow
<1> QED BY <1>1, <1>2

\* A save writes the row it has locked.
LEMMA SaveQuota ==
  ASSUME IInv, IInv', Quota, NEW c \in Call, CommitSave(c)
  PROVE  Quota'
<1>0. TypeOK /\ doc \in [Doc -> DocRow]
  BY DocRows DEF IInv
<1>1. Only(c) /\ call'[c].pc = "done" /\ account' = account /\ call[c].pc = "counted"
  BY <1>0, Ended DEF CommitSave, Asks
<1>2. PICK d \in Doc : /\ call[c].docs = {d} /\ doc[d].owner = call[c].acct
                       /\ doc' = [doc EXCEPT ![d].text = call[c].text]
  BY Saving
<1>3. doc'[d].owner = call[c].acct /\ \A f \in Doc \ {d} : doc'[f] = doc[f]
  BY <1>0, <1>2 DEF DocRow
<1>4. \A e \in Call \ {c} : call[e].pc \in {"ensured", "counted"} => d \notin call[e].docs
  BY <1>1, <1>2 DEF Quota, Sound, Apart, At
<1>5. Undisturbed({c})
  BY <1>1, <1>3, <1>4, WritesOne DEF CommitSave
<1> QED BY <1>1, <1>5, Away, QuotaGoes

-----------------------------------------------------------------------------
\* What a creation leaves its member with is what was counted and what it adds.
LEMMA CreatedFits ==
  ASSUME IInv, IInv', Quota, NEW c \in Call, CommitDocument(c), NEW a \in Account, a = call[c].acct,
         a \in Live
  PROVE  /\ Cardinality(Current(a))' <= DocLimit[PlanOf(call[c].seen)]
         /\ Bytes(a)' <= ByteLimit[PlanOf(call[c].seen)]
<1>0. doc \in [Doc -> DocRow] /\ doc' \in [Doc -> DocRow] /\ call[c] \in CallRecord
  BY Shape DEF IInv, TypeOK, DocRow
<1>1. call[c].op = "create" /\ Fits(c)
  BY DEF CommitDocument, Quota, Sound, Room
<1>2. PICK d \in Doc :
        /\ doc[d].life = "unused"
        /\ doc' = [doc EXCEPT ![d] = [life |-> "stored", owner |-> call[c].acct, text |-> call[c].text,
                                      original |-> call[c].original, aged |-> FALSE]]
  BY Created
<1>3. \A f \in Doc \ {d} : doc'[f] = doc[f]
  BY <1>0, <1>2
<1>4. /\ doc'[d].life = "stored" /\ doc'[d].owner = a /\ doc'[d].aged = FALSE
      /\ doc'[d].text = call[c].text /\ doc'[d].original = call[c].original
  BY <1>0, <1>2
<1>5. PICK S, T : S = Current(a) /\ T = Current(a)'
  OBVIOUS
<1>6. T = S \cup {d} /\ d \notin S /\ S = T \ {d} /\ S \subseteq Doc /\ T \subseteq Doc
  BY <1>2, <1>3, <1>4, <1>5 DEF Current, Owned, Stored
<1>7. Cardinality(T) = Cardinality(S) + 1
  BY <1>0, <1>6, DocsWeighed, FS_AddElement
<1>8. Size(doc', T) = Weight(doc', d) + Size(doc', S)
  <2>1. d \in T /\ Weighed(doc', T)
    BY <1>0, <1>6, DocsWeighed
  <2> QED BY <1>6, <2>1, SizeTakes
<1>9. Size(doc', S) \in Nat /\ Size(doc, S) \in Nat /\ Size(doc', S) <= Size(doc, S)
  <2>1. Weighed(doc, S) /\ Alike(doc, doc', S)
    BY <1>0, <1>3, <1>6, DocsWeighed DEF Alike, Weight
  <2> QED BY <2>1, SizeShrinks
<1>10. Weight(doc', d) = Growth(c) /\ Growth(c) \in Nat
  <2>1. call[c].text \in Contents \cup {0} /\ call[c].original \in {0, Original}
    BY <1>0 DEF CallRecord
  <2>2. call[c].text \in Nat /\ call[c].original \in Nat
    BY <2>1, Sizes
  <2> QED BY <1>1, <1>4, <2>2 DEF Weight, Growth
<1>11. Bytes(a) = Size(doc, S) /\ Bytes(a)' = Size(doc', T)
  BY <1>5, CurrentDocs, BytesNext
<1>12. /\ Cardinality(S) + 1 <= DocLimit[PlanOf(call[c].seen)]
       /\ Size(doc, S) + Growth(c) <= ByteLimit[PlanOf(call[c].seen)]
  BY <1>1, <1>5, <1>11 DEF Fits
<1>13. ByteLimit[PlanOf(call[c].seen)] \in Nat
  BY DEF PlanOf, Plan
<1>14. Size(doc', T) <= ByteLimit[PlanOf(call[c].seen)]
  BY <1>8, <1>9, <1>10, <1>12, <1>13
<1> QED BY <1>5, <1>7, <1>11, <1>12, <1>14

\* What a save leaves its member with is what was counted and the growth of its text.
LEMMA SavedFits ==
  ASSUME IInv, IInv', Quota, NEW c \in Call, CommitSave(c), NEW a \in Account, a = call[c].acct,
         a \in Live
  PROVE  /\ Cardinality(Current(a))' <= DocLimit[PlanOf(call[c].seen)]
         /\ Bytes(a)' <= ByteLimit[PlanOf(call[c].seen)]
<1>0. /\ doc \in [Doc -> DocRow] /\ doc' \in [Doc -> DocRow] /\ call[c] \in CallRecord
      /\ TypeOK /\ TypeOK'
  BY Shape DEF IInv, TypeOK, DocRow
<1>1. call[c].op = "save" /\ Fits(c) /\ call[c].pc = "counted"
  BY DEF CommitSave, Asks, Quota, Sound, Room
<1>2. PICK d \in Doc : call[c].docs = {d} /\ doc' = [doc EXCEPT ![d].text = call[c].text]
  BY Saving
<1>3. \A f \in Doc \ {d} : doc'[f] = doc[f]
  BY <1>0, <1>2
<1>4. /\ doc'[d].life = doc[d].life /\ doc'[d].owner = doc[d].owner /\ doc'[d].aged = doc[d].aged
      /\ doc'[d].text = call[c].text /\ doc'[d].original = doc[d].original
  BY <1>0, <1>2 DEF DocRow
<1>5. PICK S : S = Current(a)
  OBVIOUS
<1>6. Current(a)' = S /\ S \subseteq Doc
  BY <1>3, <1>4, <1>5 DEF Current, Owned, Stored
<1>7. Bytes(a) = Size(doc, S) /\ Bytes(a)' = Size(doc', S)
  BY <1>5, <1>6, CurrentDocs, BytesNext
<1>8. Weighed(doc, S) /\ Weighed(doc', S)
  BY <1>0, <1>6, DocsWeighed
<1>9. /\ Growth(c) \in Nat
      /\ Growth(c) = IF call[c].text > doc[d].text THEN call[c].text - doc[d].text ELSE 0
  BY <1>0, <1>1, <1>2, GrowthType, GrowthOfSave DEF Quota, Sound
<1>10. Size(doc', S) \in Nat /\ Size(doc, S) \in Nat /\ Size(doc', S) <= Size(doc, S) + Growth(c)
  <2>1. CASE d \notin S
    <3>1. Alike(doc, doc', S)
      BY <1>3, <1>6, <2>1 DEF Alike, Weight
    <3>2. Size(doc', S) \in Nat /\ Size(doc, S) \in Nat /\ Size(doc', S) <= Size(doc, S)
      BY <1>8, <3>1, SizeShrinks
    <3> QED BY <1>9, <3>2
  <2>2. CASE d \in S
    <3>1. Alike(doc, doc', S \ {d}) /\ S \ {d} \subseteq S
      BY <1>3, <1>6 DEF Alike, Weight
    <3>2. Size(doc', S \ {d}) <= Size(doc, S)
      BY <1>8, <3>1, SizeShrinks
    <3>3. /\ Size(doc, S) \in Nat /\ Size(doc, S \ {d}) \in Nat
          /\ Size(doc, S) = Weight(doc, d) + Size(doc, S \ {d})
      BY <1>8, <2>2, SizeTakes
    <3>4. /\ Size(doc', S) \in Nat /\ Size(doc', S \ {d}) \in Nat
          /\ Size(doc', S) = Weight(doc', d) + Size(doc', S \ {d})
      BY <1>8, <2>2, SizeTakes
    <3>5. Size(doc', S \ {d}) <= Size(doc, S \ {d})
      <4>1. PICK R : R = S \ {d}
        OBVIOUS
      <4>2. Weighed(doc, R) /\ R \subseteq R /\ Alike(doc, doc', R)
        BY <1>0, <1>6, <3>1, <4>1, DocsWeighed
      <4> QED BY <4>1, <4>2, SizeShrinks
    <3>6. PICK old \in Nat, new \in Nat, rest \in Nat :
            old = doc[d].text /\ new = call[c].text /\ rest = doc[d].original
      <4>1. /\ call[c].text \in Contents \cup {0} /\ doc[d].text \in Contents \cup {0}
            /\ doc[d].original \in {0, Original}
        BY <1>0 DEF CallRecord, DocRow
      <4> QED BY <4>1, Sizes
    <3>7. Weight(doc, d) = old + rest /\ Weight(doc', d) = new + rest
      BY <1>4, <3>6 DEF Weight
    <3>8. new + rest <= old + rest + Growth(c)
      BY <1>9, <3>6
    <3> QED BY <1>9, <3>3, <3>4, <3>5, <3>7, <3>8
  <2> QED BY <2>1, <2>2
<1>11. /\ Cardinality(S) + 0 <= DocLimit[PlanOf(call[c].seen)]
       /\ Size(doc, S) + Growth(c) <= ByteLimit[PlanOf(call[c].seen)]
  BY <1>1, <1>5, <1>7 DEF Fits
<1>12. DocLimit[PlanOf(call[c].seen)] \in Nat /\ ByteLimit[PlanOf(call[c].seen)] \in Nat
  BY DEF PlanOf, Plan
<1>13. Cardinality(S) \in Nat
  BY <1>6, <1>0, DocsWeighed
<1>14. Cardinality(S) <= DocLimit[PlanOf(call[c].seen)] /\ Size(doc', S) <= ByteLimit[PlanOf(call[c].seen)]
  BY <1>9, <1>10, <1>11, <1>12, <1>13
<1> QED BY <1>6, <1>7, <1>14

\* Every step keeps the counts and the locks sound.
LEMMA QuotaStep ==
  ASSUME IInv, IInv', Quota, [Next]_vars
  PROVE  Quota'
<1>1. ASSUME NEW c \in Call, Identify(c) \/ Crash(c)
      PROVE  Quota'
  BY <1>1, QuietQuota, AuthenticateQuota DEF Identify
<1>2. ASSUME NEW c \in Call, Work(c)
      PROVE  Quota'
  BY <1>2, QuietQuota, CheckDeleteQuota, FinishDeleteQuota, EnsureQuota, CountQuota, PutQuota,
     CommitQuota, SaveQuota, RemoveQuota, FinishRemovalQuota, CheckoutQuota DEF Work
<1>3. CASE CleanUp
  BY <1>3, CleanUpQuota
<1>4. ASSUME NEW d \in Doc, Expire(d)
      PROVE  Quota'
  BY <1>4, ExpireQuota
<1>5. ASSUME NEW a \in Account, Webhook(a)
      PROVE  Quota'
  BY <1>5, WebhookQuota
<1>6. CASE UNCHANGED vars
  <2>1. UNCHANGED <<account, billing, doc, call>>
    BY <1>6 DEF vars
  <2>2. Undisturbed({})
    BY <2>1, PaymentCalm DEF IInv
  <2> QED BY <2>2, QuotaGoes
<1> QED BY <1>1, <1>2, <1>3, <1>4, <1>5, <1>6 DEF Next

\* Nobody counts at the start.
LEMMA QuotaStart ==
  ASSUME Init
  PROVE  Quota
<1>1. PICK ops \in Scenarios :
        call = [c \in Call |->
         [op |-> ops[c], pc |-> "idle", acct |-> First, sid |-> First, knows |-> 0,
          id |-> <<First, 0>>, seen |-> "none", docs |-> {}, erase |-> FALSE, held |-> FALSE, text |-> 0,
          original |-> 0]]
  BY DEF Init
<1>2. \A c \in Call : call[c].pc = "idle"
  BY <1>1
<1> QED BY <1>2 DEF Quota, Sound, Adding, Holding, Room, Apart, At

\* A request moves nobody but itself.
LEMMA Moves ==
  ASSUME TypeOK, NEW e \in Call, Identify(e) \/ Work(e) \/ Crash(e), NEW c \in Call, c # e
  PROVE  call'[c] = call[c]
<1>0. call \in [Call -> CallRecord]
  BY DEF TypeOK
<1>1. End(e) => call'[c] = call[c]
  BY <1>0 DEF End
<1>2. CASE Identify(e)
  BY <1>0, <1>1, <1>2 DEF Identify, Register, RefuseRegistration, VerifyLogin, Present, Authenticate
<1>3. CASE Crash(e) \/ FinishRegistration(e) \/ FinishLogin(e) \/ Logout(e) \/ FinishPassword(e)
           \/ FinishDelete(e) \/ CommitDocument(e) \/ CommitSave(e) \/ FinishRemoval(e) \/ Checkout(e)
  BY <1>1, <1>3 DEF Crash, FinishRegistration, FinishLogin, Logout, FinishPassword, FinishDelete,
     CommitDocument, CommitSave, FinishRemoval, Checkout
<1>4. CASE IdentifyLogin(e) \/ CheckDelete(e) \/ Count(e)
  BY <1>0, <1>1, <1>4 DEF IdentifyLogin, CheckDelete, Count
<1>5. CASE LockUser(e)
  BY <1>0, <1>1, <1>5 DEF LockUser
<1>6. CASE PutOriginal(e) \/ RemoveDocument(e)
  BY <1>0, <1>6 DEF PutOriginal, RemoveDocument
<1>7. CASE EnsureAccount(e)
  BY <1>0, <1>7 DEF EnsureAccount
<1> QED BY <1>2, <1>3, <1>4, <1>5, <1>6, <1>7 DEF Work

\* A request that has counted is over when it has committed or died.
LEMMA CountedEnds ==
  ASSUME TypeOK, [Next]_vars, NEW c \in Call, call[c].pc \in {"counted", "put"}, call'[c].pc = "done"
  PROVE  CommitDocument(c) \/ CommitSave(c) \/ Crash(c)
<1>0. call \in [Call -> CallRecord] /\ call'[c] # call[c]
  BY DEF TypeOK
<1>1. PICK e \in Call : Identify(e) \/ Work(e) \/ Crash(e)
  BY <1>0 DEF Next, vars, CleanUp, Expire, Webhook
<1>2. e = c
  BY <1>0, <1>1, Moves
<1>3. ~Identify(c)
  BY DEF Identify, Register, RefuseRegistration, VerifyLogin, Present, Authenticate, Asks
<1>4. PutOriginal(c) => call'[c].pc = "put"
  BY <1>0 DEF PutOriginal, CallRecord
<1>5. Work(c) => CommitDocument(c) \/ CommitSave(c)
  BY <1>4 DEF Work, FinishRegistration, FinishLogin, Logout, FinishPassword, FinishDelete, IdentifyLogin,
     CheckDelete, Count, LockUser, RemoveDocument, EnsureAccount, FinishRemoval, Checkout, Asks
<1> QED BY <1>1, <1>2, <1>3, <1>5

\* What a request leaves its member with, whether it commits or dies.
LEMMA CapacityStep ==
  ASSUME IInv, IInv', Quota, [Next]_vars, NEW c \in At({"counted", "put"}),
         call'[c].pc = "done", call[c].acct \in Live'
  PROVE  /\ Cardinality(Current(call[c].acct))' <= DocLimit[PlanOf(call[c].seen)]
         /\ Bytes(call[c].acct)' <= ByteLimit[PlanOf(call[c].seen)]
<1>0. TypeOK /\ TypeOK' /\ call \in [Call -> CallRecord] /\ c \in Call /\ call[c] \in CallRecord
  BY DEF IInv, TypeOK, At
<1>1. CommitDocument(c) \/ CommitSave(c) \/ Crash(c)
  BY <1>0, CountedEnds DEF At
<1>2. End(c) /\ account' = account
  BY <1>1 DEF CommitDocument, CommitSave, Crash
<1>3. PICK a \in Account : a = call[c].acct
  BY <1>0 DEF CallRecord
<1>4. call'[c].acct = a
  BY <1>0, <1>2, <1>3 DEF End, CallRecord
<1>5. a \in Live
  BY <1>2, <1>3 DEF Live
<1>6. /\ Cardinality(Current(a))' <= DocLimit[PlanOf(call[c].seen)]
      /\ Bytes(a)' <= ByteLimit[PlanOf(call[c].seen)]
  <2>1. CASE CommitDocument(c)
    BY <1>0, <1>3, <1>5, <2>1, CreatedFits
  <2>2. CASE CommitSave(c)
    BY <1>0, <1>3, <1>5, <2>2, SavedFits
  <2>3. CASE Crash(c)
    <3>1. Shrinks(a)
      BY <2>3 DEF Crash, Shrinks, Alike, Weight, Current, Owned, Stored
    <3>2. Fits(c) /\ Growth(c) \in Nat
      BY <1>0, <1>3, <1>5, GrowthType DEF Quota, Sound, Room, At
    <3>3. /\ Cardinality(Current(a)) + (IF call[c].op = "create" THEN 1 ELSE 0)
               <= DocLimit[PlanOf(call[c].seen)]
          /\ Bytes(a) + Growth(c) <= ByteLimit[PlanOf(call[c].seen)]
      BY <1>3, <3>2 DEF Fits
    <3>4. DocLimit[PlanOf(call[c].seen)] \in Nat /\ ByteLimit[PlanOf(call[c].seen)] \in Nat
      BY DEF PlanOf, Plan
    <3>5. /\ Cardinality(Current(a)) \in Nat /\ Cardinality(Current(a))' \in Nat
          /\ Cardinality(Current(a))' <= Cardinality(Current(a))
          /\ Bytes(a) \in Nat /\ Bytes(a)' \in Nat /\ Bytes(a)' <= Bytes(a)
      BY <1>0, <3>1, Shrunk
    <3> QED BY <3>2, <3>3, <3>4, <3>5
  <2> QED BY <1>1, <2>1, <2>2, <2>3
<1> QED BY <1>3, <1>4, <1>6

-----------------------------------------------------------------------------
\* The inductive invariant holds in every behaviour.
LEMMA Invariance == Spec => []IInv
<1>1. Init => IInv
  BY Start
<1>2. IInv /\ [Next]_vars => IInv'
  BY Step
<1> QED BY <1>1, <1>2, PTL DEF Spec

\* The tables, the object store and the requests keep their shape.
THEOREM TypeCorrect == Spec => []TypeOK
<1>1. IInv => TypeOK
  BY DEF IInv
<1> QED BY <1>1, Invariance, PTL

\* public_max_accounts holds and user names are unique however many register at once:
\* the count and the insert are under one lock (register, accounts.py).
THEOREM CapsAccounts == Spec => []AccountCap
<1>1. IInv => AccountCap
  BY DEF IInv, Members
<1> QED BY <1>1, Invariance, PTL

\* Of the changes, recoveries and deletions that were asked for with one credential,
\* one wins: the credential a handler has verified under the row's lock is in force
\* until it commits.
THEOREM OneWins == Spec => []OneWinner
<1>1. IInv => OneWinner
  BY DEF IInv, Members
<1> QED BY <1>1, Invariance, PTL

\* An original in the object store belongs to a document, to a request about to commit
\* one, or to one that died before it did: removal empties the store before the rows go.
THEOREM FilesBelongTo == Spec => []FilesBelong
<1>1. IInv => FilesBelong
  BY DEF IInv, Files
<1> QED BY <1>1, Invariance, PTL

\* The counts and the locks are sound in every behaviour.
LEMMA QuotaInvariance == Spec => [](IInv /\ Quota)
<1>1. Init => Quota
  BY QuotaStart
<1>2. IInv /\ IInv' /\ Quota /\ [Next]_vars => Quota'
  BY QuotaStep
<1> QED BY <1>1, <1>2, Invariance, PTL DEF Spec

\* Keeping to the plan: the documents of a member fit the plan that was read when one is
\* created or grows, however many requests count at once (enforce_document_capacity, under
\* the lock of the billing account that the request holds to its commit).
THEOREM KeepsCapacity == Spec => WithinCapacity
<1>1. IInv /\ IInv' /\ Quota /\ [Next]_vars =>
        [\A c \in At({"counted", "put"}) :
           call'[c].pc = "done" /\ call[c].acct \in Live' /\ lost' = lost
             => /\ Cardinality(Current(call[c].acct))' <= DocLimit[PlanOf(call[c].seen)]
                /\ Bytes(call[c].acct)' <= ByteLimit[PlanOf(call[c].seen)]]_vars
  BY CapacityStep
<1> QED BY <1>1, QuotaInvariance, PTL DEF Spec, WithinCapacity
=============================================================================
