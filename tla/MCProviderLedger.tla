-------------------------- MODULE MCProviderLedger --------------------------
(***************************************************************************)
(* One owner with two Pangram detections of the same paper and one of      *)
(* another, and a second owner's rewrite.  A Pangram reservation lives     *)
(* less than a tick, and so does an hour.                                  *)
(***************************************************************************)
EXTENDS ProviderLedger, TLC

CONSTANTS b1, b2, b3, b4, e1, e2, e3, e4, paper, essay, draft

Batches  == (e1 :> b1 @@ e2 :> b2 @@ e3 :> b3 @@ e4 :> b4)
Owners   == [b \in Batch |-> IF b = b4 THEN "o2" ELSE "o1"]
Provided == [b \in Batch |-> IF b = b4 THEN "DeepSeek" ELSE "Pangram"]
Contents == (e1 :> paper @@ e2 :> paper @@ e3 :> essay @@ e4 :> draft)
=============================================================================
