------------------------- MODULE MCAnalysisPipeline -------------------------
(***************************************************************************)
(* Analyses of documents with the same content, and two workers.           *)
(***************************************************************************)
EXTENDS AnalysisPipeline, TLC

CONSTANTS q1, q2, d1, d2, c1, w1, w2

Documents == (q1 :> d1 @@ q2 :> d2)
Contents  == [d \in Doc |-> c1]
BothModes == {"eager", "celery"}
Celery    == {"celery"}
=============================================================================
