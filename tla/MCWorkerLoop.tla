---------------------------- MODULE MCWorkerLoop ----------------------------
(***************************************************************************)
(* What the loop of apps/worker/main.py does in turn, the outbox and the   *)
(* document jobs, for TLC.  The two share no variable, so that there is a  *)
(* job or there are events.  The loop of the workers goes on in both cases *)
(* (it finds no job while there are events): whatever the fairness of the  *)
(* one part asks for is never kept back by the other.                      *)
(***************************************************************************)
EXTENDS MCDocumentJobs, Outbox

NoJobYet == \A j \in Jobs : jobs[j] = NoJobRow

MCInit == JobsInit /\ Init

MCNext ==
    \/ NoJobYet /\ Next /\ UNCHANGED jobVars
    \/ JobsNext /\ (Init \/ NoJobYet') /\ UNCHANGED vars

MCSpec == MCInit /\ [][MCNext]_<<jobVars, vars>> /\ JobsFairness /\ Fairness
=============================================================================
