---------------------------- MODULE DocumentJobs ----------------------------
(***************************************************************************)
(* The batches of financial documents: workers claim a job, store one PDF  *)
(* per beneficiary and the archive, and mark the job.  A step is one       *)
(* database transaction or one write to the object storage; a worker may   *)
(* die between any two of them and is started again.                       *)
(*                                                                         *)
(* Times only matter by how they compare with the present: a job RUNNING   *)
(* for more than 15 minutes is old, a job whose next_attempt_at has passed *)
(* is due.                                                                 *)
(***************************************************************************)
EXTENDS Naturals, FiniteSets

CONSTANTS
    Workers,        \* processes running worker.main
    Jobs,           \* rows of document_jobs, numbered as created
    Items,          \* beneficiaries a report may have
    Editions,       \* what a document may say when it is rendered
    MaxAttempts     \* column max_attempts, 3 in the code

ASSUME JobsAssumption == Jobs \subseteq Nat \ {0}

ASSUME AttemptsAssumption == MaxAttempts \in Nat \ {0}

VARIABLES
    jobs,           \* table document_jobs
    documents,      \* table stored_documents: by job and document_key, sha256
    objects,        \* the bucket: by job and document_key, the content
    worker          \* what each worker holds in memory

jobVars == <<jobs, documents, objects, worker>>

JobStatus == {"PENDING", "RUNNING", "FAILED", "COMPLETED", "DEAD_LETTER"}

JobRow ==
    [status : JobStatus \union {"NONE"}, attempts : 0..MaxAttempts,
     old : BOOLEAN, due : BOOLEAN]

NoJobRow == [status |-> "NONE", attempts |-> 0, old |-> FALSE, due |-> FALSE]

Archive == "archive"

Keys == Items \union {Archive}

ASSUME ArchiveAssumption == Archive \notin Items

Nothing == "nothing"

ASSUME NothingAssumption == Nothing \notin Editions \union Keys

NoJob == 0

\* seen: the stale jobs its session loaded, with their attempt_count.
Idle == [pc |-> "idle", seen |-> {}, job |-> NoJob, attempts |-> 0,
         left |-> {}, key |-> Nothing, edition |-> Nothing]

Becomes(w, fields) == worker' = [worker EXCEPT ![w] = fields]

-----------------------------------------------------------------------------
\* A request for a batch.  A repeated request finds its row and changes nothing.
CreateJob(j) ==
    /\ jobs[j].status = "NONE"
    /\ \A i \in Jobs : i < j => jobs[i].status # "NONE"
    /\ jobs' = [jobs EXCEPT ![j].status = "PENDING"]
    /\ UNCHANGED <<documents, objects, worker>>

\* 15 minutes pass since the start of an attempt.
Age(j) ==
    /\ jobs[j].status = "RUNNING"
    /\ ~jobs[j].old
    /\ jobs' = [jobs EXCEPT ![j].old = TRUE]
    /\ UNCHANGED <<documents, objects, worker>>

\* The back-off of a failed job passes.
RetryDue(j) ==
    /\ jobs[j].status = "FAILED"
    /\ ~jobs[j].due
    /\ jobs' = [jobs EXCEPT ![j].due = TRUE]
    /\ UNCHANGED <<documents, objects, worker>>

-----------------------------------------------------------------------------
\* _claim_next.

\* Mutant: the age of the last attempt is all that is looked at.
OldJobs == {j \in Jobs : jobs[j].old}

Stale == {j \in Jobs : jobs[j].status = "RUNNING" /\ jobs[j].old}

\* The SELECT of the stale jobs takes no lock.
ReadStale(w) ==
    /\ worker[w].pc = "idle"
    /\ Becomes(w, [Idle EXCEPT
           !.pc = IF Stale = {} THEN "claiming" ELSE "releasing",
           !.seen = {[job |-> j, attempts |-> jobs[j].attempts] : j \in Stale}])
    /\ UNCHANGED <<jobs, documents, objects>>

\* The UPDATEs name the rows by id, whatever they have become.
ReleaseStale(w) ==
    /\ worker[w].pc = "releasing"
    /\ Becomes(w, [worker[w] EXCEPT !.pc = "claiming"])
    /\ jobs' = [j \in Jobs |->
           IF \E s \in worker[w].seen : s.job = j
           THEN [jobs[j] EXCEPT !.status = "FAILED", !.due = TRUE]
           ELSE jobs[j]]
    /\ UNCHANGED <<documents, objects>>

\* Mutant: the attempts are not compared with their maximum.
ClaimableAgain ==
    {j \in Jobs :
        jobs[j].status = "PENDING" \/ (jobs[j].status = "FAILED" /\ jobs[j].due)}

Claimable ==
    {j \in Jobs :
        /\ jobs[j].attempts < MaxAttempts
        /\ jobs[j].status = "PENDING" \/ (jobs[j].status = "FAILED" /\ jobs[j].due)}

\* An instance already loaded by the session is not refreshed by the SELECT:
\* its count of attempts is the one read with the stale jobs.
AttemptsOf(w, j) ==
    IF \E s \in worker[w].seen : s.job = j
    THEN (CHOOSE s \in worker[w].seen : s.job = j).attempts
    ELSE jobs[j].attempts

\* SKIP LOCKED: the oldest job, unless another worker holds its row.
MayPick(w, j) ==
    \/ \A i \in Claimable : j <= i
    \/ \E v \in Workers \ {w} : worker[v].pc \in {"releasing", "claiming"}

\* Mutant: the attempt is not counted.
ClaimUncounted(w) ==
    /\ worker[w].pc = "claiming"
    /\ \E j \in Claimable :
        /\ MayPick(w, j)
        /\ jobs' = [jobs EXCEPT ![j].status = "RUNNING", ![j].old = FALSE, ![j].due = FALSE]
        /\ Becomes(w, [Idle EXCEPT !.pc = "querying", !.job = j, !.attempts = AttemptsOf(w, j)])
    /\ UNCHANGED <<documents, objects>>

\* SELECT FOR UPDATE to commit.
Claim(w) ==
    /\ worker[w].pc = "claiming"
    /\ \E j \in Claimable :
        /\ MayPick(w, j)
        /\ jobs' = [jobs EXCEPT ![j] =
               [status |-> "RUNNING", attempts |-> AttemptsOf(w, j) + 1,
                old |-> FALSE, due |-> FALSE]]
        /\ Becomes(w, [Idle EXCEPT !.pc = "querying", !.job = j,
                                   !.attempts = AttemptsOf(w, j) + 1])
    /\ UNCHANGED <<documents, objects>>

NothingToClaim(w) ==
    /\ worker[w].pc = "claiming"
    /\ Claimable = {}
    /\ Becomes(w, Idle)
    /\ UNCHANGED <<jobs, documents, objects>>

-----------------------------------------------------------------------------
\* _process.

\* Mutant: a retry only makes the documents that are missing.
QueryMissing(w) ==
    /\ worker[w].pc = "querying"
    /\ \E edition \in Editions :
        Becomes(w, [worker[w] EXCEPT
            !.pc = "storing", !.edition = edition,
            !.left = {i \in Items : documents[worker[w].job][i] = Nothing}])
    /\ UNCHANGED <<jobs, documents, objects>>

\* The report as the tables say it now.
QuerySummary(w) ==
    /\ worker[w].pc = "querying"
    /\ \E edition \in Editions :
        Becomes(w, [worker[w] EXCEPT !.pc = "storing", !.left = Items, !.edition = edition])
    /\ UNCHANGED <<jobs, documents, objects>>

\* Mutant: the archive does not wait for the last beneficiary.
AnyKey(w) == worker[w].left \union {Archive}

\* The archive comes after the last beneficiary.
NextKeys(w) == IF worker[w].left = {} THEN {Archive} ELSE worker[w].left

\* Mutant: an object that could not be stored is passed over.
PutObjectOrNot(w) ==
    /\ worker[w].pc = "storing"
    /\ \E key \in NextKeys(w) :
        /\ \/ objects' = [objects EXCEPT ![worker[w].job][key] = worker[w].edition]
           \/ UNCHANGED objects
        /\ Becomes(w, [worker[w] EXCEPT !.pc = "recording", !.key = key])
    /\ UNCHANGED <<jobs, documents>>

\* put_object replaces what an earlier attempt stored under the same key.
PutObject(w) ==
    /\ worker[w].pc = "storing"
    /\ \E key \in NextKeys(w) :
        /\ objects' = [objects EXCEPT ![worker[w].job][key] = worker[w].edition]
        /\ Becomes(w, [worker[w] EXCEPT !.pc = "recording", !.key = key])
    /\ UNCHANGED <<jobs, documents>>

RecordDocument(w) ==
    LET j == worker[w].job
        key == worker[w].key
    IN  /\ worker[w].pc = "recording"
        /\ documents' = [documents EXCEPT ![j][key] = worker[w].edition]
        /\ IF key = Archive
           THEN /\ jobs' = [jobs EXCEPT ![j].status = "COMPLETED"]
                /\ Becomes(w, Idle)
           ELSE /\ Becomes(w, [worker[w] EXCEPT !.pc = "storing", !.left = @ \ {key},
                                                !.key = Nothing])
                /\ UNCHANGED jobs
        /\ UNCHANGED objects

\* Rendering or storing a document raises.  No transaction is open then, so the
\* instance keeps what it holds and _mark_failure writes by it.
MarkFailure(w) ==
    LET j == worker[w].job
    IN  /\ worker[w].pc = "storing"
        /\ jobs' = [jobs EXCEPT
               ![j].status = IF worker[w].attempts >= MaxAttempts THEN "DEAD_LETTER" ELSE "FAILED",
               ![j].due = FALSE]
        /\ Becomes(w, Idle)
        /\ UNCHANGED <<documents, objects>>

\* The process dies and is started again.  An exception inside a transaction
\* ends it too: the rollback expires the job, whose id process_next then reads.
WorkerDies(w) ==
    /\ worker[w].pc # "idle"
    /\ Becomes(w, Idle)
    /\ UNCHANGED <<jobs, documents, objects>>

-----------------------------------------------------------------------------
JobsInit ==
    /\ jobs = [j \in Jobs |-> NoJobRow]
    /\ documents = [j \in Jobs |-> [key \in Keys |-> Nothing]]
    /\ objects = [j \in Jobs |-> [key \in Keys |-> Nothing]]
    /\ worker = [w \in Workers |-> Idle]

ClaimNext(w) == ReadStale(w) \/ ReleaseStale(w) \/ Claim(w) \/ NothingToClaim(w)

Process(w) == QuerySummary(w) \/ PutObject(w) \/ RecordDocument(w)

TimePasses(j) == Age(j) \/ RetryDue(j)

JobsNext ==
    \/ \E j \in Jobs : CreateJob(j) \/ TimePasses(j)
    \/ \E w \in Workers : ClaimNext(w) \/ Process(w) \/ MarkFailure(w) \/ WorkerDies(w)

\* Time passes; a live worker goes on with its loop; and a worker that is
\* started again and again does not die every time before its first commit.
JobsFairness ==
    /\ \A j \in Jobs : WF_jobVars(Age(j)) /\ WF_jobVars(RetryDue(j))
    /\ \A w \in Workers :
        /\ WF_jobVars(ClaimNext(w) \/ Process(w))
        /\ SF_jobVars(ReleaseStale(w))
        /\ SF_jobVars(Claim(w))

JobsSpec == JobsInit /\ [][JobsNext]_jobVars

FairJobsSpec == JobsSpec /\ JobsFairness

-----------------------------------------------------------------------------
(***************************************************************************)
(* Properties.                                                             *)
(***************************************************************************)

WorkerState ==
    [pc : {"idle", "releasing", "claiming", "querying", "storing", "recording"},
     seen : SUBSET [job : Jobs, attempts : 0..MaxAttempts],
     job : Jobs \union {NoJob}, attempts : 0..MaxAttempts,
     left : SUBSET Items, key : Keys \union {Nothing}, edition : Editions \union {Nothing}]

\* Every row has the shape of its model, and attempt_count never passes
\* max_attempts, although a worker may write it from a stale copy.
JobsTypeOK ==
    /\ jobs \in [Jobs -> JobRow]
    /\ documents \in [Jobs -> [Keys -> Editions \union {Nothing}]]
    /\ objects \in [Jobs -> [Keys -> Editions \union {Nothing}]]
    /\ worker \in [Workers -> WorkerState]

\* Whatever dies and whoever else works on the job, a row of stored_documents
\* never points to an object that was not stored.
RowsHaveObjects ==
    \A j \in Jobs, key \in Keys : documents[j][key] # Nothing => objects[j][key] # Nothing

\* A completed job can be downloaded, and every document of its archive was
\* stored on its own too.
CompletedDownloadable ==
    \A j \in Jobs : jobs[j].status = "COMPLETED" => \A key \in Keys : documents[j][key] # Nothing

\* With one worker, whatever the earlier attempts left behind, a completed job
\* holds one edition: rows, objects and archive agree, so size_bytes and sha256
\* are those of what is downloaded.
CompletedConsistent ==
    \A j \in Jobs : jobs[j].status = "COMPLETED" =>
        \E edition \in Editions : \A key \in Keys :
            documents[j][key] = edition /\ objects[j][key] = edition

\* With one worker, a job that ended is never taken up again and none of its
\* documents changes.
EndedIsFinal ==
    [][\A j \in Jobs : jobs[j].status \in {"COMPLETED", "DEAD_LETTER"} =>
        /\ jobs'[j] = jobs[j]
        /\ documents'[j] = documents[j]
        /\ objects'[j] = objects[j]]_jobVars

Ended(j) == jobs[j].status \in {"COMPLETED", "DEAD_LETTER"}

\* No job is retried forever nor left running: it ends, or stays FAILED with no
\* attempt left.
JobsSettle ==
    \A j \in Jobs :
        jobs[j].status # "NONE" ~>
            [](Ended(j) \/ (jobs[j].status = "FAILED" /\ jobs[j].attempts = MaxAttempts))
=============================================================================
