------------------------ MODULE WriteReviewContract ------------------------
(***************************************************************************)
(* What a caller of the write-review flow may rely on, whatever else runs  *)
(* on the same task table: a run moves to review only over a finished      *)
(* implement task, to its report only over a finished review, and reports  *)
(* success only when all three of its tasks are done; a task once done     *)
(* stays done; a run that stopped never comes back.                        *)
(***************************************************************************)
CONSTANT Runs           \* the write-review requests

VARIABLES
  phase,                \* where each run is, as its caller could see it
  done                  \* the tasks of each run that are done

Parts == {"impl", "review", "root"}
Phases == {"implementing", "reviewing", "reporting", "reported", "stopped"}

vars == <<phase, done>>

Init ==
  /\ phase = [r \in Runs |-> "implementing"]
  /\ done = [r \in Runs |-> {}]

\* Anyone with access to the task table may finish tasks; nobody undoes them.
Settle ==
  /\ done' \in [Runs -> SUBSET Parts]
  /\ \A r \in Runs : done[r] \subseteq done'[r]

MoveTo(r, from, to, needs) ==
  /\ phase[r] = from
  /\ needs \subseteq done'[r]
  /\ phase' = [phase EXCEPT ![r] = to]

StartReview(r) == MoveTo(r, "implementing", "reviewing", {"impl"})
StartReport(r) == MoveTo(r, "reviewing", "reporting", {"impl", "review"})
Report(r) == MoveTo(r, "reporting", "reported", Parts)

\* A run fails, or several are lost together with the daemon.
Stop(S) ==
  /\ \A r \in S : phase[r] # "reported"
  /\ phase' = [r \in Runs |-> IF r \in S THEN "stopped" ELSE phase[r]]

Next ==
  /\ Settle
  /\ \/ UNCHANGED phase
     \/ \E r \in Runs : StartReview(r) \/ StartReport(r) \/ Report(r)
     \/ \E S \in SUBSET Runs : Stop(S)

Spec == Init /\ [][Next]_vars
=============================================================================
