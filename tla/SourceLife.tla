----------------------------- MODULE SourceLife ------------------------------
(***************************************************************************)
(* What the training pipeline promises about its sources, without jobs,    *)
(* requests or a worker: a source that is added or changed waits for its   *)
(* training, and leaves the wait trained, given up or deleted.  Nothing    *)
(* becomes trained or given up without having waited, and deletion is for  *)
(* good.  A fault may lose a source its training, whatever its row says:   *)
(* only another training, or its deletion, ends that.                      *)
(***************************************************************************)
CONSTANT Sources

VARIABLE stage

Stages == {"absent", "waiting", "ready", "failed", "lost", "deleted"}
Present == {"waiting", "ready", "failed", "lost"}

Init == stage = [s \in Sources |-> "absent"]

(* A bulk creation adds several sources at once, and may lose several when *)
(* it is cut off; the deletion of the chatbot takes all there are.         *)
Some(from, to) ==
  /\ stage' \in [Sources -> Stages]
  /\ \A s \in Sources : stage'[s] = stage[s] \/ (stage[s] \in from /\ stage'[s] = to)
One(s, from, to) == stage[s] \in from /\ stage' = [stage EXCEPT ![s] = to]

Add == Some({"absent"}, "waiting")
Remove == Some(Present, "deleted")
Lose == Some({"waiting", "ready", "failed"}, "lost")
Change(s) == One(s, {"ready", "failed", "lost"}, "waiting")
Train(s) == One(s, {"waiting"}, "ready")
GiveUp(s) == One(s, {"waiting"}, "failed")

Next == Add \/ Remove \/ Lose \/ \E s \in Sources : Change(s) \/ Train(s) \/ GiveUp(s)

Spec == Init /\ [][Next]_stage
=============================================================================
