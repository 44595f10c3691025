----------------------------- MODULE MCAccounts -----------------------------
(***************************************************************************)
(* Three requests of any kind, at an account that exists and at one that   *)
(* registers under the same name or another.                               *)
(***************************************************************************)
EXTENDS Accounts

CONSTANTS a1, a2, a3, a4, d1, d2, d3, c1, c2, c3

Names == [a \in Account |-> CASE a = a3 -> "second" [] a = a4 -> "third" [] OTHER -> "first"]

\* Requests are interchangeable: one order of each three kinds is enough.
Rank == [o \in Op |-> CASE o = "register" -> 1 [] o = "login" -> 2 [] o = "logout" -> 3
                         [] o = "recover" -> 4 [] o = "password" -> 5 [] o = "delete" -> 6
                         [] o = "create" -> 7 [] o = "save" -> 8 [] o = "remove" -> 9
                         [] OTHER -> 10]
AllThree == {f \in [Call -> Op] : Rank[f[c1]] <= Rank[f[c2]] /\ Rank[f[c2]] <= Rank[f[c3]]}

FreeOneProTwo  == [p \in Plan |-> IF p = "free" THEN 1 ELSE 2]
FreeTwoProFour == [p \in Plan |-> IF p = "free" THEN 2 ELSE 4]
=============================================================================
