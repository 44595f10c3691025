---------------------------- MODULE MCWorkspace ----------------------------
(***************************************************************************)
(* Two documents and an edit.  One has room for one more version, and for  *)
(* three sessions and patches: a message that begins a session, another    *)
(* that refines its patch, a batch.  The other has room for two more       *)
(* versions; rewriting is refused there.                                   *)
(***************************************************************************)
EXTENDS Workspace, TLC

CONSTANTS d1, d2, e1

Room      == (d1 :> 2 @@ d2 :> 3)
Proposals == (d1 :> 3 @@ d2 :> 0)
=============================================================================
