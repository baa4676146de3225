------------------------- MODULE DocumentJobClaims -------------------------
(***************************************************************************)
(* What the worker says of a job and DocumentJobs, as the code, does not   *)
(* keep.                                                                   *)
(***************************************************************************)
EXTENDS DocumentJobs

\* A job found interrupted is tried again ("Processamento interrompido; lote
\* liberado para nova tentativa.", written by _claim_next).  One interrupted in
\* its last attempt is released as FAILED and stays so: it is never claimed,
\* and never becomes DEAD_LETTER.
ReleasedIsRetried ==
    \A j \in Jobs : jobs[j].status = "FAILED" ~> jobs[j].status # "FAILED"
=============================================================================
