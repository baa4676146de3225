# RF Balance: formal specification and verification

RF Balance follows commercial proposals from their registration to the payment
of commissions. It is a modular monolith (FastAPI and SQLAlchemy over
MySQL/InnoDB, Redis and an S3 bucket) with a worker process, a scheduler and a
React client. This directory holds TLA+ modules that model its core, TLC
configurations that check them on small instances, and proofs checked by TLAPS.
Every definition is translated from the source; definitions keep the names of
the code, in Portuguese where the code is.

Paths below leave out `src/apps/api/app/` and `src/`.

## 1. The system: parts, state, operations

| Part | State it keeps | Operations |
| --- | --- | --- |
| Proposals, `modules/commercial` | table `proposals`: commission, cached total received, cash status, approval status, `version` | create, update, submit, approve, reject, cancel |
| Receipts, `modules/receivables` | tables `receipts` and `receipt_reversals` | declare, confirm or return, remove, reverse |
| Commission engines, `modules/commissions` | append-only ledger, snapshots of the rules used | credit at an approval or a check, debit at a reversal, preview, explain, report |
| Commission configuration, `modules/commissions` | versions of rule sets, strategy configurations and individual policies, each over an interval of dates | draft, activate, create a policy, find the rule of a date |
| Settlements, `modules/commissions` | `commission_settlements`: one row per beneficiary and window of days; manual entries | add a manual entry, generate, adjust, pay |
| Periods, `modules/commissions` | `commission_periods` | create, close, request a reopening, approve it |
| Organization and teams, `modules/organization` | collaborators, functions, links to leaders and payment keys over intervals of dates | register, edit, give and close functions, change modality, assign and close leaders, deactivate, reactivate, link an account |
| Companies, units, receiving accounts, `modules/organization`, `modules/receivables` | three tables with unique keys | create, edit, activate, deactivate, list |
| Identity and sessions, `modules/identity` | accounts, sessions, roles and permissions in MySQL; resolved sessions in Redis; attempts to log in | log in, resolve, rotate, log out, manage accounts, synchronise and purge roles |
| Outbox, `platform/bus` | table `outbox_events`, a Redis stream | record with the command, dispatch in batches, forget |
| Document jobs, `modules/documents`, `apps/worker` | `document_jobs`, `stored_documents`, objects in the bucket | request, claim, release when stale, store, complete, fail |
| Attachments and proofs | rows and objects in the bucket | upload, register, discard, remove |
| Scheduler, `apps/worker/scheduler.py` | a lease in Redis, its memory of the day | acquire, renew, run the jobs of a turn, release |
| Retention, backups, drills, integrity, `apps/worker/jobs` | archives and reports in the bucket | clean, dump and verify, restore and count, report |
| Legacy import, `modules/legacy` | a report with its issues | read, translate, report |
| Reporting, audit, web | read models; audit rows | read, append |

How they interact:

- Everything of one HTTP command runs in **one database transaction**, audit and
  outbox rows included, with a single commit. The isolation is READ COMMITTED
  (`infrastructure/compose/docker-compose.yml:101`), so what protects a command
  is the row locks it takes and the column `version` it compares.
- Receipts write into proposals: the approval of a proposal recognises its
  declared receipts, and each decision or reversal of a receipt recomputes the
  total cached in the proposal. Proposal commands lock the proposal first,
  receipt commands the receipt first.
- Recognising a receipt credits the ledger of commissions, by the rules, roles
  and leaders in force on its date; reversing it debits the ledger. The
  settlements sum the ledger by dates; the periods freeze them.
- A request of a user is resolved by a session, through a cache that no
  transaction covers. What the session may do comes from its roles.
- The bucket is outside every transaction too: an object is stored before its
  row and deleted after it.
- The worker loops over one outbox batch, then one document job; the scheduler
  runs the daily work while it holds a lease of 90 seconds. One replica of each
  is deployed, restarted whenever it dies (`restart: unless-stopped`).

What is hard, and what makes each part correct:

| Part | Hard behaviours | Correct when |
| --- | --- | --- |
| Proposals, receipts | two commands on one proposal; unlocked reads; opposite lock orders; stale screens; partial reversals in any order | the cached total is that of the receipts; the set under analysis is frozen; nobody checks his own receipt; no blind write; no deadlock but the known one |
| Ledger | receipts recognised and reversed in any order; a month recomputed by two requests; rounded quotients | credited once; entries, report and preview follow the money; a month is right after a reversal |
| Rules | activations that overlap, out of the order of their dates, over midnight | a day keeps a rule, and a past day the same one |
| Settlements, periods | regeneration after payments; debts and deferrals passed from week to week; windows that overlap; two-step reopening | debts neither lost nor paid over; frozen means only paid; paid is final |
| Teams | no locks: two transfers, a transfer with links that start later, deactivation and return | one leader a day or a race that is reported, no day without one, nothing in force for the inactive, the past not rewritten |
| Identity | a cache outside of the commit; two administrators at once; attempts counted before and recorded after | a change of access shows at once or the cache had nobody to clear it; somebody administers; old passwords have no session |
| Bucket | an object and a row written apart; the retention lists while others upload; an answer that is lost | no row without object; what is analysed stays |
| Scheduler, backups | work longer than the lease; death at any point; bad archives | one backup a day, true reports, a good archive kept |
| Document jobs | a worker dies anywhere; a slow worker and the one that took over; half-made batches | complete means complete and of one edition; nothing is retried forever |
| Outbox | death or lost connection between publishing and marking; answers lost; two dispatchers | only committed events, at least once, no duplicates without a loss |
| Import | faults of a row hidden by others; names that two people share | every row is answered, and a report without blocks can be believed |

`PROJECT.json` lists the hazards with their lines and the properties aimed at
them. Section 6 names those that no property covers.

## 2. Modules

### Proposals and receipts

- **`ProposalDomain`**: the rules of the aggregate (`proposal.py`, the tolerance
  policy) as pure operators: a guard (`PodeEnviar`, `PodeDecidir`, ...) and an
  effect (`AlterarOperacao`, `RegistrarTotalRecebido`, ...) per method.
- **`ProposalLifecycle`**: the atomic specification. State: the two tables.
  One action per request, up to its commit; a request that is refused is no step.
- **`ProposalRequests`**: the same handlers one database operation at a time.
  `request` is what each transaction holds in memory, `proposalLock`,
  `proposalShare` and `receiptLock` the row locks, `version` the optimistic
  column. A plain SELECT (`CheckProposal`) reads the last commit; FOR UPDATE
  (`LockProposal`, `LockReceipt`, `Recalculate`) waits; the INSERT of a reversal
  shares the row of the proposal because of its foreign key; writes appear at
  `Commit`, which compares versions; `Crash` may come at any moment, and stands
  for InnoDB's choice of a victim too.
- **`ProposalLifecycleProofs`**, **`ProposalRequestsProofs`**: theorems about
  them.

### Commissions

- **`CommissionRules`**: the arithmetic of the strategies as pure operators, in
  centavos with the rounding of the code (`Quantize`): ranges, the scaled table,
  shares of leaders and finalizers, and what a configuration must be to be valid.
- **`CommissionLedger`**: the standard, scaled and group engines. A request is
  two steps: `Begin` takes its locks (the proposal, and the consultant when his
  month is recomputed), reads the committed tables and computes its entries;
  `Commit` makes them visible. The preview, the explanation and the lines of the
  report are operators over the same ledger. Links, roles, policies and rules
  are constants per day here: they change in `Organization` and `RuleVersions`.
- **`RuleVersions`**: versions of rules as intervals. The three tables (rule
  sets, strategy configurations, policies) never meet, so a behaviour is about
  one of them (`especie`). `Prepare` locks the draft, checks it and locks the
  next version; `Activate` reads the earlier ones again, as the locking SELECT
  of the code does, and commits, perhaps after midnight.
- **`SettlementDomain`**: the arithmetic of one row (`manage_settlements.py`), in
  centavos, so the quantizations of the code change nothing.
- **`CommissionSettlements`**: entries, generation, adjustment, payment, and the
  four operations of periods, one action per request. The ledger is kept as what
  the queries of the code make of it: the sums of each beneficiary in each
  window. `present` tells "no entry" from "entries that add up to nothing", as
  the code does. When several settlements end on the same day, the code orders
  them by nothing else, and its two queries for the previous one may break the
  tie differently: `GeneratedRows` allows all outcomes.
- **`PayoutContract`**: the abstract specification whoever pays relies on:
  accounts that open, freeze, receive payments and settle for good. It is
  implemented through `phaseOf`, `paidOf`, `frozenOf`.
- **`SettlementClaims`**: statements of the documents that the code does not keep.
- **`LedgerClaims`**: the same for the ledger, with an instance of its own in which
  a consultant changes his leader from one day to the next and a finalizer reaches
  her target with two receipts.
- **`CommissionProofs`**: theorems about `RuleVersions` and `CommissionSettlements`;
  **`LedgerProofs`**: theorems about `CommissionLedger`.

### People and access

- **`Organization`**: collaborators, functions, links, payment keys. No command
  of this part locks what it reads: `Begin` reads the committed tables, checks
  and computes the writes, `Efetivar` writes them. A row stays the same row
  however its end moves. The queries other modules make for a date (`LiderNaData`,
  the modality of a day) and the overlap that `check_f2_integrity.py` counts are
  operators.
- **`OrganizationProofs`**: theorems about it.
- **`PermissionCatalog`**, **`AccessCatalog`**: the permissions and roles the
  code declares, and the tables kept equal to them: a deployment, the
  synchronisation (one transaction), and the purge, whose reads and deletions
  are apart because roles are given meanwhile.
- **`Identity`**: sessions, their cache and the accounts. A resolution is a read
  of the cache, of the session, of the user and a write of the cache, each its
  own step; a command is resolved first and then does what it was resolved to
  do. `semLimpeza` remembers the tokens whose cache entry nobody is left to drop
  and `semRespaldo` that a command was committed for somebody who had stopped
  being an administrator: the two ways the promises fail in the code.
- **`LoginThrottle`**: failures counted before the password, recorded after it.
- **`AccessProofs`**: theorems about `Identity`, `LoginThrottle` and
  `AccessCatalog`.
- **`ReceivingCatalog`**: companies, units and receiving accounts: a command
  reads, decides and commits; between the two only the unique keys speak.

### Background

- **`DocumentJobs`**: `financial_report_batch.py` with a step per transaction
  and per write to the bucket. What matters of time is how it compares with now:
  a RUNNING job is `old` or not, the back-off of a FAILED one is `due` or not.
  Two facts of SQLAlchemy are modelled because they change what is written:
  the locking SELECT does not refresh an instance the session already loaded
  (`AttemptsOf`), and a rollback expires the job, so that an exception inside a
  transaction makes the handler itself raise when it reads `job.id` and ends the
  process (`WorkerDies`). An exception outside a transaction (rendering, `put_object`)
  is `MarkFailure`. The contents of a report are an edition: what the tables
  said when it was read.
- **`DocumentJobClaims`**: what the worker says of a job and does not keep.
- **`ObjectStorage`**: the proofs of a proposal and the generated documents, as
  objects and rows. An upload stores, registers and, when its commit raises,
  deletes, whether the row is there or not (`incertas` remembers the rows whose
  commit went through and raised); a removal commits and then deletes; the
  retention reads the references, lists the bucket and deletes, a step each.
  Keys have a prefix in the bucket, which the code adds and takes away.
- **`Scheduler`**: the lease and the two daily jobs that leave files. A turn is
  the backup, then the drill; a scheduler may lose its lease at any moment and
  goes on (`semLease` remembers it), or die. What a process remembers of the day
  dies with it; what is in the bucket does not. The outcome of an upload may be
  bad (`integro`), which only the verification tells.
- **`Outbox`**: `outbox_recorder.py`, `outbox_dispatcher.py` and the loop of
  `apps/worker/main.py`: a step per `xadd`, the rows of a batch locked from the
  SELECT (SKIP LOCKED) to the commit. `PublishFails` lets the stream store the
  event and the answer be lost; `LoseConnection` frees the rows while the process
  goes on publishing, and then its commit raises (`CommitRaises`). `lost` is a
  history variable: events with an attempt that stored them, or may still, and
  that nobody can mark. Copies saturate at two. The count of attempts only sets
  the length of the back-off and is left out.
- **`AtLeastOnce`**: the abstract specification, from ADR 0005: accept, deliver
  (again and again), forget.
- **`BackgroundProofs`**: theorems about `ObjectStorage`, `Scheduler`, `Outbox`
  and `DocumentJobs`.
- **`LegacyImport`**: the four tables read row by row, translated to candidates
  or to issues; names looked up among the consultants that were translated;
  duplicates and totals; one commit of the report at the end. It takes the
  status of a proposal from `ProposalDomain`.

### The modules for TLC

`MCProposalRequests`, `MCCommissionSettlements` and `MCDocumentJobs` add symmetry
sets and the list of handlers; `MCOrganization`, `MCLegacyImport` and
`MCCommissionLedger` the people, rows, rules and declarations of the instance.

`MCAccess`, `MCRuleVersions`, `MCBackground`, `MCWorkerLoop` and
`MCCommissionLedger` put parts that **share no variable** side by side in one run: their next-state
relation lets a part move while all others are in an initial state. As no action
of a part reads or writes a variable of another, an interleaving of two parts
adds no behaviour of either, and every invariant and action property is about
one part: nothing is lost by exploring each with the others at rest. `MCWorkerLoop` has
liveness properties too, so there the loop of the workers goes on while the outbox
moves (and finds no job): the fairness each part states can be met whichever of
them moves. Parts that
do interact are composed in the modules themselves: receipts with proposals,
periods with settlements, the cache with the accounts, the retention with the
uploads, the drill with the backups.

## 3. Runs

| Run | What it asks | Instance |
| --- | --- | --- |
| `requests` (`MCAccess`) | two concurrent transactions on a proposal, all handlers, crashes; each commit is a step of `ProposalLifecycle`; duties apart, the set under analysis moved by removals alone, the cached total and status right | 1 proposal, 2 receipts, 2 users, commissions {1, 4}, amount 2, tolerances 1 and 2 |
| | accounts and sessions: access, passwords, administrators | 3 users, 2 requests after up to two open sessions, 3 tokens, 2 passwords, cache of 2 ticks |
| | the limit on log-ins; the tables of roles | 2 e-mails, 2 addresses, 2 clients, limit 1, 3 attempts; 2 releases, 2 accounts |
| `requests_frozen` | finding 1 | as the first of `requests` |
| `settlements_week` (`MCRuleVersions`) | one window: any order of entries, generations, adjustments, instalments, closing and reopening; implements `PayoutContract` | 1 beneficiary, 2 users, amounts {1, 2}, adjustments {0, 1, 3}, sums up to 2 |
| | rules: no gap, no past day changed | 4 days, 3 versions, 2 requests, each of the three tables |
| | teams: one leader a day or a reported race, no day without one, nothing in force for the inactive, the past of a modality | 3 people (a consultant, a leader, one who may join as either), 2 days and those around them, 2 slots, 3 requests |
| `ledger` (`MCCommissionLedger`) | the ledger: credited once, entries, report, preview and the share of a commercial leader follow the money, months right after reversals | 4 proposals, 4 receipts in 4 sets of declarations, a standard, a scaled and a changing consultant, a finalizer, a leader and, on one day, another, 2 days |
| | two windows and the one that covers both, with their debts and deferrals: a repeated generation changes nothing | 1 beneficiary, 2 days, span 2, amount 1, adjustments {0, 1}, no periods |
| | the import: every row answered, a clean report believed | 3 rows over 4 tables, out of a right row and those that differ from it in one field |
| | the accounts, explored with them (their list is proved to have one order) | 2 keys, 1 place, 2 commands, 2 rows (3 with a race) |
| `claim_paid_period`, `claim_late_reversal`, `claim_counted_once` | findings 2 to 4 | as small as shows them |
| `claim_one_leader` | finding 6 | 1 proposal, 2 receipts of 2 days, a leader for each day |
| `claim_finalizer_week` | finding 7 | the same instance: each receipt is below the target of the finalizer, both together reach it |
| `jobs_one_worker` (`MCBackground`) | a worker that dies anywhere: one edition | 2 jobs, 2 beneficiaries, 2 editions, 2 attempts |
| | the bucket: rows and objects, the proofs under analysis | 2 proofs, 1 document, 1 prefix, grace of 1 tick, 2 requests |
| | the schedulers: one backup a day, true reports, a good archive kept | 2 schedulers, 2 days, 2 archives, retention of 1 day |
| `worker_loop` (`MCWorkerLoop`) | two workers on one job: complete is complete, jobs settle | 1 job, 1 beneficiary, 2 editions, 3 attempts |
| | two dispatchers under faults: no duplicate without a loss, liveness; implements `AtLeastOnce` | 2 events, 2 dispatchers, batches of 2 |
| `jobs_released` | finding 5 | 1 worker, 1 job, 2 attempts |

Why these bounds:

- Proposals interact only through their receipts, and a race needs two
  transactions: two requests, with two receipts so that one may be partly
  reversed, removed or declared while the other is decided. The amounts reach
  every status (nothing, part, settled, in excess, inside the tolerance).
  `MaxVersion = 5` lets four commits follow the creation of a proposal.
- A row of a team is touched by a request, by one that overlaps it and by one
  that follows: three requests, two at a time. Three people make a transfer from
  one leader to another, and a leader who is himself deactivated. Links and
  functions depend on which of two dates comes first, and on ends on the last
  day: two days, one before them and "no end".
- Two requests are enough for a resolution against a command and for two
  administrators against each other; what they find already there (up to two
  sessions) is chosen in the initial state.
- The limit on log-ins counts e-mail and address apart: two of each. With limit
  1 and two clients, one guess more than the limit passes.
- A rule set is bounded by the versions before and after it: with three, two
  activations are in flight before or after another one, and a policy has one on
  either side.
- A settlement depends on the previous one only, so two consecutive windows and
  one that overlaps both show every passage of debt and deferral. `MaxTotal`
  bounds the sums of a window: with 2, a debt may be smaller than, equal to or
  larger than the credit; with 1, over two windows, what is inherited makes a debt
  of 2. `MaxSpan` stands for 93 days. Periods only forbid steps of the windows they
  freeze, so the run over several windows leaves them out.
- The ledger is arithmetic, so its instance is chosen and not enumerated: a
  proposal paid twice over, a scaled month with an overpaid first receipt, three
  consultants in one week, a change of role between two receipts, an agreement
  and a commercial leader that change from one day to the next, percentages
  and ranges that make every rounding show. Each receipt may be reversed in
  full; only receipt 1 may be reversed in part (`MCLevels`), in two steps.
  Cancelled proposals hold no money and are left out. A day is long enough to
  order its receipts by id, as the queries do.
- The import reads its rows one by one, and what one row does to another takes
  two rows of a table and one of another: three. A row of the instance has at
  most one fault, or two where one hides the other.
- A job is taken by at most two workers at a time that matter: the slow one and
  the one that took over; three attempts are the ones of the code.
- In the bucket, one upload against another and the retention against both; the
  grace needs to be longer than nothing. A second prefix would only repeat the
  first.
- Two schedulers show a lease outlived; two days a retention that removes. A
  retry after a failure waits some minutes, which here is any number of turns;
  an hour or a day of the week that has not come is a turn that skips the job.
- A batch of two events shows partial failure; two dispatchers show SKIP LOCKED.

`CHECK_DEADLOCK FALSE` where the system may really stop: every receipt
identifier and version of the instance used up, everything paid and closed on
the last day, every event forgotten.

### Fairness

- `DocumentJobs`: time passes (weak fairness on `Age` and `RetryDue`); the loop of
  `worker.main` goes on (weak, on the steps of each worker); a worker restarted by
  its container does not die every single time between the start of its loop and
  its first commit (strong, on `ReleaseStale` and `Claim`: deaths disable them
  again and again). It may still die in every attempt it has claimed, which is
  what the attempts are counted for.
- `Outbox`: time passes, the loop goes on, and from some time on nothing fails.
  The last is needed: a Redis that never answers delivers nothing. What faults
  left behind before is still arbitrary.

The other parts promise nothing that must happen: a request may always be the
last one, and `SynchronizationSettles` speaks of a single transaction.

## 4. Findings

| | Run | What the code does | What it says |
| --- | --- | --- | --- |
| 1 | `requests_frozen` | `remove` reads the proposal without a lock; a submission that commits in between leaves a proposal under analysis from which a receipt then disappears, possibly its last | "o conjunto que o Financeiro analisa não muda por baixo da decisão" (`receipt_service.py:315`) |
| 2 | `claim_paid_period` | `approve_reopen` does not look at payments made since the request | "Período com fechamento pago não reabre" (ADR 0016) |
| 3 | `claim_late_reversal` | a reversal dated in a window whose settlement is PAID reaches no settlement | "é carregada até ser absorvida" (ADR 0016) |
| 4 | `claim_counted_once` | two overlapping windows both count a credit | "um item não pertence a dois settlements ativos" (plan, phase F5) |
| 5 | `jobs_released` | a job interrupted in its last attempt becomes FAILED for ever, never DEAD_LETTER | "lote liberado para nova tentativa" (`financial_report_batch.py:73`) |
| 6 | `claim_one_leader` | the first payment is looked up again at each recognition, among the receipts approved by then: one of an earlier day, recognised last, gives the proposal a second commercial leader, who is credited the receipts the first one was credited too | "o primeiro pagamento fixa o líder comercial histórico usado para todas as parcelas da proposta" (`09-REGRAS`, section 13.1) |
| 7 | `claim_finalizer_week` | a receipt is credited to the finalizer for the difference it makes to the earlier receipts of its week, once: of two that reach the target only together, recognised against the order of their dates, neither is credited anything | "se base_finalizacao >= R$ 70.000,00" (`09-REGRAS`, section 10.3, on the sum of the payments of the period) and "delta semanal da fórmula de gatilho" (`f4-motor-comissao.md:141`) |

`requests` shows that finding 1 is the only way interleaved requests differ from
requests taken one at a time (`LateRemoval` names the two orders of the race), and
that a removal at its commit is all that ever moves the set under analysis
(`FrozenButForRemovals`).

Several promises of the code hold only with an exception, which the property
names; each was met as a counterexample before it was written down:

- `OneLeaderOrReported`, `InactiveIsOut`: two requests on one person at the same
  time, as nothing is locked (`assign_leader.py:4` says there is no moment with
  two leaders). Deactivation closes the open links of the person, those that
  start later included (they then end before they start, and a later transfer
  is refused), but as a leader only the links of that day: one that starts later
  keeps an inactive leader (`deactivate_collaborator.py:3-4`).
- `AccessChangeShowsAtOnce`: log-out and rotation drop the cache entry before
  their commit (`revoke_session.py:50`, `refresh_session.py:66`), against what
  `redis_session_cache.py:5` says; a resolution in between writes it again.
- `SomebodyAdministers`: two administrators at once (`manage_user.py:7`).
- `GuessesPerWindow`: what runs at the same time passes the count. Refused
  attempts count as failures, and a success erases nothing.
- `RowsPointToObjects`: a commit that goes through and raises deletes the object
  of an existing row (`receipt_service.py:219`, `:351`, `receipts.py:144`,
  `add_proposal_attachment.py:125`). `AnalysedProofsStay`: a removal only looks
  at the proposal (`remove_proposal_attachment.py:54`).
- `OneBackupPerDay`, `ReportsAreTrue`: work longer than the lease
  (`scheduler.py:51`), and one database for all drills (`restore_drill.py:147`).
  An archive whose verification failed still counts as the backup of its day
  (`database_backup.py:184`); `AGoodArchiveStays` shows what limits the damage.
- `RowsAreAnswered`: a row whose amount is NULL vanishes without an issue
  (`legado-mapeamento.md:92`).
- `PastRulesAreFixed`: a policy may start on the day it is created.
- `NetFollowsMoney`: overpaid proposals, where a receipt stands in for one that is
  reversed and what was credited for the first stays (no upper bound), at the
  percentage of its own day (a lower bound only if the days have one percentage).
  `ReportFollowsMoney`: a receipt so small that its commission is zero has a line
  for its credit and none for its reversal (`financial_report.py:389` divides by
  what the snapshot received). The ceiling `f4-motor-comissao.md:16`
  promises differs from what `standard_commission_engine.py:109` computes once
  receipts are reversed (`Ceiling` is stated and no run checks it).
- `LeaderFollowsMoney`: overpaid proposals, where a reversal makes room for another
  receipt and the difference of the whole proposal is charged to the one reversed.
  And it does not say that there is one leader: each of the two of finding 6 keeps
  his share.
- `ReversalSettlesMonth`: overpaid proposals again, whose receipts above the
  ceiling have no credit and are reversed without the lock of the consultant
  (`standard_commission_engine.py:226` goes by the credit of the receipt).

Met while modelling, outside of any property: a manual entry may be dated in a
closed period; a generation is refused only when a frozen period has exactly its
dates; two reversals of receipts of one proposal can deadlock on its row; with two
workers, documents of different editions may be mixed in one completed job; the
cleanup adds the prefix of the bucket to a `storage_key` that already has it
(`cleanup.py:60`, written by `financial_report_batch.py:172`), so that expired
documents stay in the bucket for ever, and it deletes objects before its commit;
DEAD_LETTER jobs are never cleaned; `CloseAssignment` and `CloseFunction` racing
a transfer extend the row it closed; two payment keys of one day tie; the change
of modality compares overlaps with rows of the new function only
(`10-GUIA:48`); the scope of data uses the team of today where
`proposal_scope.py:8` promises that of the date; the translated consultants are
not asked whether the `consultant_id` of a proposal exists.

## 5. Proofs

No theorem bounds the number of proposals, receipts, requests, people,
beneficiaries, days, versions, users, sessions, attempts, rows of the former
system, jobs, workers, schedulers, archives, keys, events or dispatchers, nor the
amounts. The assumptions are those named in the modules: amounts are naturals,
identifiers are not the sentinels, limits are positive. Two that are less plain:

- `ThrottleAssumption`: the limit of attempts is at least one, which
  `platform/config/security.py:30` validates (`ge=1`), and the clients
  that run at one time are a finite set.
- `ImportAssumption`: the name of a consultant is a text, which is there or is
  not; only numbers, dates and documents fail to convert
  (`campos_legados.py:93`).

**`ProposalLifecycleProofs`** (10 theorems). `TypeOK` is inductive as it stands.
Segregation, checks only after the approval and bounded reversals are inductive
together (`DutiesInv`), and with a non-empty analysis (`AnalysisInv`): that no
receipt is decided before its proposal is approved is what keeps a separate
decision from emptying the set under analysis. `PaidCacheConsistent` needs that
every step that changes a sum recomputes it, and that the others leave equal
functions to be folded (`SameTotal`; `EmptyTotal` for a proposal without
receipts). `StatusInv` builds on it: a cancellation needs a total of zero, and
every later step that would change the total asks for an active proposal. The
action properties follow from `TypeOK` step by step. Being proved for every
instance, the types, the bounds of the reversals and the permanence of what was
recognised are not run; the duties, the cached total, the status and the frozen set
are run where requests interleave, and proved there too.

**`ProposalRequestsProofs`** (7 theorems): the transactions of the same handlers,
for any number of them. What must be shown of a commit is that what the handler
read steps ago still is so; `RInv` says it of each request in flight, by what it
has in memory. `ProposalKept`: who holds the proposal exclusively has in memory
the row that is committed, and what he summed or marked is what is there.
`ReceiptKept`: who holds a receipt finds it as he checked it. `ScreenKept`: while
the version is that of the screen, so is the row, and under analysis the declared
receipts but for those removed since - the one exception is finding 1. `LocksOK`
ties the three maps of locks to where each request is, so that two requests that
could disturb each other never hold the same row (`Apart`); `LeavesAlone` is what
one commit guarantees to all the others. From it:

- each commit is one step of `ProposalLifecycle`, or the removal of finding 1
  (`InterleavingsAreAtomic`);
- hence what was proved of the atomic handlers holds of the interleaved ones, if
  it survives that removal too. Duties, the order of approval and check, the limit
  of reversals, the cached total and the status do (`DutiesUnderInterleaving`,
  `MoneyUnderInterleaving`); a non-empty analysis does not, which is why
  `DutiesInv` was cut out of `AnalysisInv`;
- the frozen set does with the exception it must have: an atomic step keeps it
  (`AnalysisFrozen`), only the commit of a removal takes a receipt away
  (`OnlyRemovalsDelete`), and a submission that finds its receipts gone does not
  approve (`FrozenUnderInterleaving`);
- no write is blind (`WritesAreSeen`), an approval recognises what was read
  (`ReviewIsRecognised`), and a cycle of waits needs two reversals, since only they
  share the row of the proposal before they lock it (`DeadlocksAreReversals`).

`Names` (the receipts a request in flight may still name) and `Saves` are
operators of the module so that the proofs can speak of them.

**`CommissionProofs`** (13 theorems, over two modules that share no variable).

For `CommissionSettlements`, the invariant `IInv` says of each row, besides its
type, that its columns are those `Recalculate` and `ApplyReversalDiscount` leave:
the balance and the status follow from the other columns, and the debt is all
absorbed or nothing is payable. Types alone are not inductive, as an adjustment
subtracts: `FinishedRow` shows that whatever passes through both functions is right
again. `GeneratedTwice` gives idempotence, `PInv` the disjoint periods
(`NoSharedDay`) and the two persons, `RowStep` the three action properties, and
`ContractStep` the refinement of `PayoutContract`.

For `RuleVersions`, what an engine is given depends only on the ids and the starts
of the rows in force (`ChoiceGoesByIdAndStart`), and a commit changes ends only,
those after the day it was checked. `VInv` carries what makes that true however
long the request waited: ids count the rows and name them, so the draft is still
the one that was checked (`RowsRewritten`, `RowAdded`: the count and the ids go on
together); and the policies a request is about to end are rows nobody else is about
to end, because it locked them.

That no day loses its rule (`NoDayIsUncovered`) needs no lock at all. `CInv` says that
where a version runs past the start of another, the versions from that start on cover
all they share (`SemLacuna`), so the earlier may be closed at any start without a gap.
A request in flight goes by what it saw: what others activated since between its start
and its end covers the days in between (`AtivacaoOK`), and of two that wait together
the one that starts later is covered beyond its end as far as the other reaches, whoever
commits first (`ParOK`).

**`LedgerProofs`** (7 theorems).

For `CommissionLedger`, with any rules, `OneCredit` is not inductive: `LInv` adds
what a request in flight is about to write. A request with credits to write holds
its consultant, and no two requests hold one consultant (`LocksHeld`); its credits
are of its own proposal or, when scaled, of another proposal of the same consultant
(`CreditOK`); and none of them is in the ledger yet. Whoever else commits meanwhile
writes for another consultant, so what the request computed is still new when it
commits.

The money. `NetFollowsMoney` compares sums over sets of entries and receipts, and
`SumFunction` is a recursion over sets that no induction theorem can be cited for.
The facts about sums are therefore proved from the well-foundedness of the
subsets of a finite set (`SmallestSet`, `SetInduction`): a sum exists (`SumsExist`), does
not depend on the order (`SumAny`), grows by the element that is added
(`SumMore`), compares term by term (`SumAtMost`) and is the sum of the sums of its
parts (`SumOfParts`). Rounding is `PercentRounds` and `QuantizeRounds`: half a
unit, either way.

The property itself is not inductive: of a reversal one has to know what the credit of
its receipt was, and of a transaction that runs, what the tables will be when it
commits. `MInv` says, of the tables and of the tables as each transaction that
runs leaves them (`TxMoney`):

- each receipt of a proposal has no line, or one credit and debits of it
  (`LinesOK`);
- in a proposal that is not overpaid each receipt counts in full
  (`EligibleInFull`), its credit is the percentage of its whole amount, and its lines
  follow what is kept of it, in money (`FollowsRate`) and in the report
  (`FollowsAmount`), to the rounding of each line;
- at one percentage, the lines of a proposal cover what the ceiling releases of it
  (`Released`), overpaid or not. Recognising a receipt releases its eligible share,
  and one of a later day recognised before it may count for less from then on, but
  keeps what it was credited (`EligibleShrinks`); a reversal takes back what the sum
  under the ceiling loses (`Reduction`), and no more.

That a receipt's eligible share fills the ceiling together with the others is
`EligibleTogether`, by the order of the receipts; that the CHOOSE of a percentage finds
a range is `SomeRange`, from the ranges being contiguous (`ValidStandard`). Requests
on other proposals leave all of it alone (`MoneyOfOthers`). The theorems on the net of a consultant and on the report then
add up over receipts (`NetOfBook`, `SumOfLines`).

The preview. A receipt of the whole commission, with nothing kept before it, is
eligible in full and stands for the whole production (`FullShares`,
`QuantizeExact`); as the last of its month, what comes before it is all the month
has. The credit must also be new: `GInv` says that each line, of the ledger and of a
request that runs, is of a receipt that was recognised, so a declared one has none.

The scaled month (`MonthsAreSettled`). When a reversal computes, the debit is by
construction what the month lacks, and it is one line: the receipt has one credit
(`OneCredit`) and no line of this reversal yet, since totals grow (`ReversalSettles`).
What has to be shown is that the month is still worth that when the request commits.
`SInv` says three things of the tables and of each request in flight. The lines of
the strategy belong to the consultant of their receipt, and a request that writes
some holds him, so nobody else does (`LocksHeld`). In a proposal that is not overpaid
every receipt is eligible in full (`WithinInFull`), so each one that was earned as
scaled has its credit (`ScaledIsCredited`); a reversal that does not lock the
consultant is therefore of a receipt of another role (`TxScaledStays`). And then the
receipts of his month, their shares and the order between them are what they were
(`MonthSame`, `MonthStays`). Without "not overpaid" it is false: a receipt above the
ceiling has no credit and is reversed without the lock.

The commercial leader (`LeadersFollowMoney`). A reversal compares what *all* receipts
of the proposal are worth to a leader with what *all* his lines say, and charges the
difference to the receipt that is reversed. That this is the right receipt's debt is
the point: `CInv` says that, in a proposal that is not overpaid, the lines of every
leader on every receipt are exactly his share of what is left of it (`LeaderPaid`), and
that the leader of today has a line for each. So all the other receipts cancel out of
the difference (`SumOfOthers`), and what remains is what this one lost (`LeaderDifference`),
never negative as a percentage only falls with the amount (`PercentMonotone`). It
says so of the tables and of the tables as each request that runs leaves them
(`TxLed`). A recognition may move the first payment, and with it the leader:
`RecogniseLed` shows that whoever leads then is credited every receipt, and that the
lines of who led before stay right. A reversal moves nobody (`ReverseLed`), as a
receipt reversed in full is still looked at for the first payment. A debit is the
difference of two shares, each rounded as a credit is, so no error adds up and the
equality holds to the centavo.

**`OrganizationProofs`** (7 theorems). Nothing is locked here, so nothing a request
read need hold when it commits. `OInv` therefore says two things of each request in
flight: what its own data say, whatever was committed since (`WritesOK`: it writes
rows of its own people only, and a transfer ends every row it touches on the eve of
the one it adds), and what the tables still say while nobody else changed a person
of it (`CurrentOK`, dropped when `obsoleto` is set). The first alone gives
`TransfersLeaveNoGap`, which no race can break; the second gives one leader a day,
the inactive and the keys until a race (`correu`), after which two leaders need the
overlap the integrity job counts. `OpenKeyIsAnswered` (`LastKeyInForce`) is proved
and not run.

**`AccessProofs`** (7 theorems). `AInv`: a request in flight belongs to somebody,
and a command on one's own account neither takes its roles nor deactivates it.
So whoever a command is committed for is an administrator afterwards if he still
was one before, and a last one remains. `SInv` adds that no request in flight and no
entry of the cache has a token that was not issued yet (`PassosOK`, `TokensOK`): the
token of a new session was never cached, so an entry with an old access is always of
a session that a command revoked, and then it is about to be dropped or one of the
named exceptions. A new account has its first password only (`NovasOK`).
For the limit on log-ins, `TInv` counts the failures of the window *and* the
guesses under way: a client that passed the count found fewer than the limit, and
at most the other clients were not counted (`CoveredBound`). Synchronising settles
in one step, for any content of the tables; that the roles of accounts exist needs
the foreign key, since what a purge read may be old when it deletes.

**`ImportProofs`** (3 theorems). `IInv` answers each row the moment it is read: a
row of `consultants` has an issue, a candidate or a blocking issue; a proposal a
candidate, a blocking issue or no amount; a parallel row an issue or a candidate,
which `Detectar` turns into an issue. That no fault is hidden by another is
`NoFaultNoGap`: a row without a fault and with an amount can be translated. A report
counts the blocking issues, so none means each consultant is a candidate
(`AsManyAsRows`) and the index of names saw them all. For the list of accounts,
`CInv` needs the unique key of the labels, asked for at each commit, and that the
next place is a number, hence that a finite set of numbers has a largest one
(`LargestExists`, by a smallest counterexample, as induction is out of reach).

**`BackgroundProofs`** (14 theorems). For the bucket, `SInv`: an upload owns its
key, the object of an upload in flight is younger than the grace, a removal
deletes the object of a row that is gone, and whatever the retention holds as
unreferred had no row when its list was cut and is older than any upload in
flight. For the schedulers, `KInv`: whoever holds the lease is on the latest day
anybody works on and, as long as nobody outlived his lease, finds what he left
(no archive of the day before an upload, his own archive in the database of the
drill); every archive removed is older than a good one that is kept, which is why
the retention can follow a verified upload that itself was removed meanwhile. That
a set of archives has a latest one is carried in the invariant. For the outbox,
`OInv` says that a batch holds all its rows or, the connection lost, none; that its
rows are committed and what it published is in the stream; and that an event with
one copy and no lost attempt is marked, or held by who published it. The last is
what makes a second copy impossible without a loss; `DeliveryStep` maps each step
to `AtLeastOnce`.

For the jobs, the bound on attempts needs `SeenAtMaximum`: a stale copy of a count that was read at the maximum is still
right, so whatever can be claimed was read below it. `DInv` adds what a busy
worker has already stored. One edition and finality hold for one worker only (assumption `Alone`,
which the theorems state); `WorkerAloneOK` says that what the busy worker has stored so
far is of its edition.

**Only model-checked**: liveness (`JobsSettle`, `EventuallyMarked`), out of the
prover's reach.

Some properties are defined and not run: those proved (`StatusFollowsMoney` and
others above, `RowsHaveObjects`, `MarkedIsPublished`, `RolesOfAccountsExist`,
`LastKeyInForce`, `NothingPayableOverDebt`, `ListOrderIsTotal`), those a stronger one covers (`DoneMeansArchived`,
`OneRulePerDay`), and what the code says and does not keep (`NoRowWithoutFile`,
`Ceiling`).

## 6. Not modelled

- The transactions of settlements and periods, which are whole steps: two
  creations of periods that overlap, or a closing during a generation, both
  commit (`manage_periods.py:61`).
- Redis losing data or cutting the stream (nothing in the repository reads it);
  events of two transactions published in an order other than that of their ids.
- Progress counters and the scope of a report; the expiry of outbox and of
  integrity rows; the replica of backups on a local disk.
- The scope of data by role and the token of CSRF, which only read; names,
  addresses and bank data nothing depends on; `update_company`, which only
  renames.
- Reporting, audit and the web client keep no state a property could be about.

Hazards of the ledger and the settlements that no property covers: late credits
of a group dated in a closed period; a receipt above the ceiling, without credit,
whose reversal takes nothing back; two reversals of one week of a leader; an
approved proposal edited after its
commissions; the gate on closed periods, which looks at the receipts of the
consultant only; a deferral carried and then withdrawn; a bonus replaced after it
was paid; windows generated in an order other than that of their dates. A
reversal larger than what a settlement has left (`manage_settlements.py:533`) and two
creations of accounts that read one last place (`manage_receiving_accounts.py:124`)
are covered by theorems (`DebtBeforePayment`, `AccountsHaveOneOrder`) and by no run.

## 7. What could follow

1. `SettlementRequests`: the transactions of generate, adjust, pay, close and
   reopen under READ COMMITTED, shown to implement `CommissionSettlements` but
   for the races it names; conservation of a debt over several settlements.
2. The ledger with its rules, links and periods as variables, so that late
   credits and edited proposals are covered, and its refinement to the dated sums
   `CommissionSettlements` uses.
3. Proofs: the sums of a week of the groups (a general leader, a finalizer), when
   the requests that write it do not overlap, and the conservation of a debt over
   several settlements, on the facts about sums of `LedgerProofs`.
