---------------------------- MODULE MCBackground ----------------------------
(***************************************************************************)
(* What runs in the background and keeps files: a worker with its jobs,    *)
(* the object storage with its retention, and the schedulers with their    *)
(* backups, for TLC.  The three share no variable, so that each is         *)
(* explored with the others at rest, and the values a and b can play every *)
(* pair: units, requests and schedulers.                                   *)
(***************************************************************************)
EXTENDS MCDocumentJobs, ObjectStorage, Scheduler

MCSymmetry == Permutations(Agendadores)

MCInit == JobsInit /\ StorageInit /\ SchedInit

MCNext ==
    \/ StorageInit /\ SchedInit /\ JobsNext /\ UNCHANGED <<storageVars, schedVars>>
    \/ JobsInit /\ SchedInit /\ StorageNext /\ UNCHANGED <<jobVars, schedVars>>
    \/ JobsInit /\ StorageInit /\ SchedNext /\ UNCHANGED <<jobVars, storageVars>>

MCSpec == MCInit /\ [][MCNext]_<<jobVars, storageVars, schedVars>>
=============================================================================
