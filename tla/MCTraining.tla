----------------------------- MODULE MCTraining -----------------------------
(* Instances of Training for TLC.                                          *)
EXTENDS Training, TLC

CONSTANTS q1, t1, t2, c1, c2, r1, r2

(* Content c1 has one chunk, c2 has two.                                   *)
OneAndTwo == (c1 :> 1) @@ (c2 :> 2)
=============================================================================
