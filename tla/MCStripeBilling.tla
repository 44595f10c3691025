--------------------------- MODULE MCStripeBilling ---------------------------
(***************************************************************************)
(* Stripe cancels a subscription when its retries have failed, or leaves   *)
(* it unpaid until it is paid or canceled (UnpaidMoves).                   *)
(***************************************************************************)
EXTENDS StripeBilling, TLC

CONSTANTS r1, r2

CancelMoves == {<<"active", "past_due">>, <<"past_due", "active">>, <<"active", "repriced">>,
                <<"active", "canceled">>, <<"past_due", "canceled">>, <<"repriced", "canceled">>}
UnpaidMoves == CancelMoves \cup {<<"past_due", "unpaid">>, <<"unpaid", "active">>,
                               <<"unpaid", "canceled">>}

Requests == Permutations(Request)
=============================================================================
