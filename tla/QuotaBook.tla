------------------------------ MODULE QuotaBook ------------------------------
(***************************************************************************)
(* What the reservation table of billing.py promises, with no locks or     *)
(* requests in sight: units of a monthly quota that are free, held or      *)
(* charged.  A unit is taken only while its month has room.  What may be   *)
(* given back is a held unit, or one that somebody saw held long enough to *)
(* doom it: the expiry is written later, whatever became of the unit.      *)
(***************************************************************************)
EXTENDS Integers, FiniteSets

CONSTANTS
  Unit,    \* identities of units
  Pool,    \* what a limit applies to: the meters
  Month,
  PoolOf(_),
  Limit    \* [Pool -> Nat]

VARIABLES
  state,   \* [Unit -> {"free", "held", "charged"}]
  month,   \* [Unit -> Month], the month a unit was last taken in
  doomed   \* units read as expired whose expiry is not written yet

vars == <<state, month, doomed>>

Taken(g, m) == {u \in Unit : PoolOf(u) = g /\ month[u] = m /\ state[u] # "free"}
Held == {u \in Unit : state[u] = "held"}

Init ==
  /\ state = [u \in Unit |-> "free"]
  /\ month \in [Unit -> Month]
  /\ doomed = {}

\* Each unit of us stays, or is given back.
StayOrGoBack(us) ==
  \A v \in us : \/ state'[v] = state[v]
                \/ state'[v] = "free" /\ (state[v] = "held" \/ v \in doomed)

\* Take u and, in the same transaction, give back what was read as expired.
Take(u, m) ==
  /\ state[u] = "free" /\ state'[u] = "held"
  /\ Cardinality(Taken(PoolOf(u), m)) < Limit[PoolOf(u)]
  /\ StayOrGoBack(Unit \ {u})
  /\ month' = [month EXCEPT ![u] = m]
  /\ doomed' \subseteq doomed

GiveBack ==
  /\ StayOrGoBack(Unit)
  /\ doomed' \subseteq doomed
  /\ UNCHANGED month

Charge(u) ==
  /\ state[u] = "held"
  /\ state' = [state EXCEPT ![u] = "charged"]
  /\ UNCHANGED <<month, doomed>>

\* Only a unit held now can be doomed.
Doom ==
  /\ doomed' \subseteq doomed \cup Held
  /\ UNCHANGED <<state, month>>

Next ==
  \/ GiveBack \/ Doom
  \/ \E u \in Unit : Charge(u) \/ \E m \in Month : Take(u, m)

Spec == Init /\ [][Next]_vars
=============================================================================
