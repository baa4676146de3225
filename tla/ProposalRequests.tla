------------------------- MODULE ProposalRequests --------------------------
(***************************************************************************)
(* The handlers of ProposalLifecycle as they run: concurrent requests,     *)
(* each a database transaction of several operations on MySQL/InnoDB under *)
(* READ COMMITTED.                                                         *)
(*                                                                         *)
(*  - a plain SELECT reads the last committed row and takes no lock;       *)
(*  - SELECT ... FOR UPDATE and UPDATE wait for the exclusive lock of the  *)
(*    row and read its last committed version;                             *)
(*  - the INSERT of a reversal takes a shared lock on the proposal row its *)
(*    foreign key points to;                                               *)
(*  - writes become visible, and locks are freed, at the single commit;    *)
(*  - a request may die at any time before it (rollback), and InnoDB rolls *)
(*    back one of the transactions of a cycle of waits.                    *)
(*                                                                         *)
(* The committed tables are the variables of ProposalLifecycle; column     *)
(* proposals.version is kept apart in variable version.                    *)
(***************************************************************************)
EXTENDS ProposalLifecycle, FiniteSets

CONSTANTS
    Requests,       \* requests in flight at the same time
    Handlers,       \* the operations the instance exercises
    MaxVersion      \* bound on proposals.version

ASSUME MaxVersionAssumption == MaxVersion \in Nat

VARIABLES
    version,        \* [Proposals -> Nat], 0 while the row does not exist
    request,        \* [Requests -> what each transaction holds in memory]
    proposalLock,   \* [Proposals -> holder of the exclusive row lock]
    proposalShare,  \* [Proposals -> holders of the shared row lock]
    receiptLock     \* [Receipts -> holder of the exclusive row lock]

locks == <<proposalLock, proposalShare, receiptLock>>
rvars == <<proposals, receipts, version, request, proposalLock, proposalShare, receiptLock>>

Free == "free"

ASSUME FreeAssumption == Free \notin Requests

NoReceipt == "none"

ASSUME NoReceiptAssumption == NoReceipt \notin Receipts

\* Commands that carry the version their client read.
Versioned == {"update", "submit", "approve", "reject", "cancel"}

\* Commands that take the lock of the proposal first.
ProposalFirst == Versioned \union {"create"}

\* Commands that take the lock of the receipt first.
ReceiptFirst == {"confirm", "return", "remove", "reverse"}

ASSUME HandlersAssumption == Handlers \subseteq ProposalFirst \union ReceiptFirst

NoRequest == [op |-> "none", pc |-> "idle"]

\* What the client had on screen when it sent the command.
Seen(p) == [row |-> proposals[p], declared |-> Declarados(receipts, p), version |-> version[p]]

NotSeen == [version |-> 0]

Active(q) == request[q].pc # "idle"

-----------------------------------------------------------------------------
\* The tables as transaction q sees them: its own writes over the committed
\* rows.

OwnReceipts(q) ==
    LET t == request[q]
    IN  CASE t.op = "approve" ->
                [r \in DOMAIN receipts |->
                    IF r \in t.marked
                    THEN [receipts[r] EXCEPT !.status = "APPROVED", !.decidedBy = t.user]
                    ELSE receipts[r]]
          [] t.op = "confirm" ->
                [receipts EXCEPT ![t.r].status = "APPROVED", ![t.r].decidedBy = t.user]
          [] t.op = "return" ->
                [receipts EXCEPT ![t.r].status = "REJECTED", ![t.r].decidedBy = t.user]
          [] t.op = "reverse" -> [receipts EXCEPT ![t.r].reversed = @ + t.arg]
          [] t.op = "remove" -> Deleted(receipts, t.r)
          [] t.op = "create" -> Inserted(receipts, t.r, NovoRecebimento(t.p, t.user, t.arg))
          [] OTHER -> receipts

\* The row the transaction writes back, from the copy it read under the lock.
OwnProposal(q) ==
    LET t == request[q]
    IN  CASE t.op = "update" -> AlterarOperacao(t.row, t.arg)
          [] t.op = "submit" -> ComAprovacao(t.row, "SUBMITTED")
          [] t.op = "reject" -> ComAprovacao(t.row, "REJECTED")
          [] t.op = "cancel" -> Cancelada(t.row)
          [] t.op = "approve" ->
                RegistrarTotalRecebido(ComAprovacao(t.row, "APPROVED"), t.total)
          [] t.op \in {"confirm", "return", "reverse"} -> RegistrarTotalRecebido(t.row, t.total)
          [] OTHER -> t.row

\* What the handler checks once it holds the lock of the proposal.
AllowedByProposal(q, row) ==
    LET t == request[q]
    IN  CASE t.op = "update" -> PodeAlterarOperacao(row)
          [] t.op = "submit" ->
                PodeEnviar(row, Cardinality(Declarados(receipts, t.p)))
          [] t.op = "approve" ->
                ~FoiDeclaradoPor(receipts, t.p, t.user) /\ PodeDecidir(row, "APPROVED")
          [] t.op = "reject" -> PodeDecidir(row, "REJECTED")
          [] t.op = "cancel" -> PodeCancelar(row)
          [] t.op = "create" -> AceitaRecebimento(row)
          [] OTHER -> PodeRegistrarTotal(row)

-----------------------------------------------------------------------------
\* Locks.

ExclusiveFree(q, p) ==
    proposalLock[p] \in {Free, q} /\ proposalShare[p] \subseteq {q}

ReceiptFree(q, r) == receiptLock[r] \in {Free, q}

\* Mutant: the session is not closed and its receipt stays locked.
ReleaseOnlyProposals(q) ==
    /\ proposalLock' = [p \in Proposals |-> IF proposalLock[p] = q THEN Free ELSE proposalLock[p]]
    /\ proposalShare' = [p \in Proposals |-> proposalShare[p] \ {q}]
    /\ UNCHANGED receiptLock

ReleaseAll(q) ==
    /\ proposalLock' = [p \in Proposals |-> IF proposalLock[p] = q THEN Free ELSE proposalLock[p]]
    /\ proposalShare' = [p \in Proposals |-> proposalShare[p] \ {q}]
    /\ receiptLock' = [r \in Receipts |-> IF receiptLock[r] = q THEN Free ELSE receiptLock[r]]

\* The transaction ends without effect: a check raised, or the request died.
Rollback(q) ==
    /\ request' = [request EXCEPT ![q] = NoRequest]
    /\ ReleaseAll(q)
    /\ UNCHANGED <<proposals, receipts, version>>

\* The transaction goes on to pc with fields changed in its memory.
Goes(q, pc) == request' = [request EXCEPT ![q].pc = pc]

-----------------------------------------------------------------------------
\* Identifiers are never reused while a request, or the screen it was sent
\* from, still names them.
Names(q) ==
    IF request[q].op \in Versioned THEN request[q].seen.declared ELSE {request[q].r}

Unused == {r \in Receipts \ DOMAIN receipts : \A q \in Requests : Active(q) => r \notin Names(q)}

\* A request arrives.  InFlight bounds the versions it can still produce.

InFlight(p) == Cardinality({q \in Requests : Active(q) /\ request[q].p = p})

Arrives(q, op, p, r, u, arg) ==
    /\ ~Active(q)
    /\ op \in Handlers
    /\ version[p] + InFlight(p) < MaxVersion
    /\ request' = [request EXCEPT ![q] =
           [op |-> op, p |-> p, r |-> r, user |-> u, arg |-> arg, pc |-> "start",
            seen |-> IF op \in Versioned THEN Seen(p) ELSE NotSeen,
            row |-> NotSeen, marked |-> {}, total |-> 0]]
    /\ UNCHANGED <<proposals, receipts, version, locks>>

ArrivesForProposal(q, p, u) ==
    \/ \E op \in {"submit", "approve", "reject", "cancel"} : Arrives(q, op, p, NoReceipt, u, 0)
    \/ \E c \in Commissions : Arrives(q, "update", p, NoReceipt, u, c)
    \/ \E r \in Unused, a \in Amounts : Arrives(q, "create", p, r, u, a)

ArrivesForReceipt(q, r, u) ==
    LET p == receipts[r].proposal
    IN  \/ \E op \in {"confirm", "return", "remove"} : Arrives(q, op, p, r, u, 0)
        \/ \E a \in 1..receipts[r].amount : Arrives(q, "reverse", p, r, u, a)

-----------------------------------------------------------------------------
\* Mutant: the proposal is read with obter, waiting for nobody.
ReadProposalUnlocked(q) ==
    LET t == request[q]
    IN  /\ t.pc = "start"
        /\ t.op \in ProposalFirst
        /\ IF AllowedByProposal(q, proposals[t.p])
           THEN /\ request' = [request EXCEPT
                       ![q].pc = IF t.op = "approve" THEN "marking" ELSE "writing",
                       ![q].row = proposals[t.p]]
                /\ UNCHANGED <<proposals, receipts, version, locks>>
           ELSE Rollback(q)

\* obter_para_atualizacao at the start of a proposal command or of a receipt
\* declaration.
LockProposal(q) ==
    LET t == request[q]
    IN  /\ t.pc = "start"
        /\ t.op \in ProposalFirst
        /\ ExclusiveFree(q, t.p)
        /\ IF AllowedByProposal(q, proposals[t.p])
           THEN /\ request' = [request EXCEPT
                       ![q].pc = IF t.op = "approve" THEN "marking" ELSE "writing",
                       ![q].row = proposals[t.p]]
                /\ proposalLock' = [proposalLock EXCEPT ![t.p] = q]
                /\ UNCHANGED <<proposals, receipts, version, proposalShare, receiptLock>>
           ELSE Rollback(q)

\* reconhecer: the bulk UPDATE locks every declared receipt of the proposal;
\* the total is read after it, in the same transaction.
MarkReceipts(q) ==
    LET t == request[q]
        declared == Declarados(receipts, t.p)
    IN  /\ t.pc = "marking"
        /\ \A r \in declared : ReceiptFree(q, r)
        /\ receiptLock' = [r \in Receipts |-> IF r \in declared THEN q ELSE receiptLock[r]]
        /\ request' = [request EXCEPT
               ![q].pc = "writing",
               ![q].marked = declared,
               ![q].total = Total(Reconhecer(receipts, t.p, t.user), t.p)]
        /\ UNCHANGED <<proposals, receipts, version, proposalLock, proposalShare>>

\* ReceiptService._locked and the checks on the receipt that follow it.
LockReceipt(q) ==
    LET t == request[q]
        allowed ==
            /\ t.r \in DOMAIN receipts
            /\ IF t.op = "reverse"
               THEN receipts[t.r].status = "APPROVED" /\ t.arg <= Liquido(receipts[t.r])
               ELSE receipts[t.r].status = "SUBMITTED"
    IN  /\ t.pc = "start"
        /\ t.op \in ReceiptFirst
        /\ ReceiptFree(q, t.r)
        /\ IF allowed
           THEN /\ Goes(q, IF t.op = "reverse" THEN "inserting" ELSE "checking")
                /\ receiptLock' = [receiptLock EXCEPT ![t.r] = q]
                /\ UNCHANGED <<proposals, receipts, version, proposalLock, proposalShare>>
           ELSE Rollback(q)

\* Mutant: remove locks the proposal after its receipt, as decide does.
CheckProposalThenLock(q) ==
    LET t == request[q]
        row == proposals[t.p]
        allowed == IF t.op = "remove"
                   THEN AceitaRecebimento(row)
                   ELSE row.approval = "APPROVED" /\ receipts[t.r].createdBy # t.user
    IN  /\ t.pc = "checking"
        /\ IF allowed
           THEN /\ Goes(q, "locking")
                /\ UNCHANGED <<proposals, receipts, version, locks>>
           ELSE Rollback(q)

\* The proposal as decide and remove read it: obter, without a lock.
CheckProposal(q) ==
    LET t == request[q]
        row == proposals[t.p]
        allowed == IF t.op = "remove"
                   THEN AceitaRecebimento(row)
                   ELSE row.approval = "APPROVED" /\ receipts[t.r].createdBy # t.user
    IN  /\ t.pc = "checking"
        /\ IF allowed
           THEN /\ Goes(q, IF t.op = "remove" THEN "writing" ELSE "locking")
                /\ UNCHANGED <<proposals, receipts, version, locks>>
           ELSE Rollback(q)

\* The INSERT of the reversal and the shared lock of its foreign key.
InsertReversal(q) ==
    LET t == request[q]
    IN  /\ t.pc = "inserting"
        /\ proposalLock[t.p] \in {Free, q}
        /\ Goes(q, "locking")
        /\ proposalShare' = [proposalShare EXCEPT ![t.p] = @ \union {q}]
        /\ UNCHANGED <<proposals, receipts, version, proposalLock, receiptLock>>

\* Mutant: the sum runs before the flush of the transaction's own change.
RecalculateBeforeFlush(q) ==
    LET t == request[q]
    IN  /\ t.pc = "locking"
        /\ ExclusiveFree(q, t.p)
        /\ IF AllowedByProposal(q, proposals[t.p])
           THEN /\ request' = [request EXCEPT
                       ![q].pc = "writing",
                       ![q].row = proposals[t.p],
                       ![q].total = Total(receipts, t.p)]
                /\ proposalLock' = [proposalLock EXCEPT ![t.p] = q]
                /\ UNCHANGED <<proposals, receipts, version, proposalShare, receiptLock>>
           ELSE Rollback(q)

\* _recalculate: the lock of the proposal, then the sum of its receipts.
Recalculate(q) ==
    LET t == request[q]
    IN  /\ t.pc = "locking"
        /\ ExclusiveFree(q, t.p)
        /\ IF AllowedByProposal(q, proposals[t.p])
           THEN /\ request' = [request EXCEPT
                       ![q].pc = "writing",
                       ![q].row = proposals[t.p],
                       ![q].total = Total(OwnReceipts(q), t.p)]
                /\ proposalLock' = [proposalLock EXCEPT ![t.p] = q]
                /\ UNCHANGED <<proposals, receipts, version, proposalShare, receiptLock>>
           ELSE Rollback(q)

\* Whether the save of q bumps the version of its proposal.
WritesProposal(q) == request[q].op \notin {"create", "remove"}

\* Mutant: salvar does not compare the version of the client.
CommitAnyVersion(q) ==
    LET t == request[q]
    IN  /\ t.pc = "writing"
        /\ receipts' = OwnReceipts(q)
        /\ IF WritesProposal(q)
           THEN /\ proposals' = [proposals EXCEPT ![t.p] = OwnProposal(q)]
                /\ version' = [version EXCEPT ![t.p] = @ + 1]
           ELSE UNCHANGED <<proposals, version>>
        /\ request' = [request EXCEPT ![q] = NoRequest]
        /\ ReleaseAll(q)

\* salvar compares the version of the client and increments it; everything
\* the transaction wrote becomes visible at the commit that follows.
Commit(q) ==
    LET t == request[q]
        current == t.op \notin Versioned \/ version[t.p] = t.seen.version
    IN  /\ t.pc = "writing"
        /\ IF current
           THEN /\ receipts' = OwnReceipts(q)
                /\ IF WritesProposal(q)
                   THEN /\ proposals' = [proposals EXCEPT ![t.p] = OwnProposal(q)]
                        /\ version' = [version EXCEPT ![t.p] = @ + 1]
                   ELSE UNCHANGED <<proposals, version>>
                /\ request' = [request EXCEPT ![q] = NoRequest]
                /\ ReleaseAll(q)
           ELSE Rollback(q)

\* The request dies before its commit: client gone, process killed, pool or
\* lock wait timeout, an exception of a later step of the handler.
Crash(q) == Active(q) /\ Rollback(q)

-----------------------------------------------------------------------------
\* A new proposal is invisible to every other request until it is committed.

Insert ==
    /\ \E p \in Proposals, c \in Commissions :
           /\ \/ CreateProposal(p, c)
              \/ \E r \in Unused, u \in Users, a \in Amounts :
                    CreateProposalWithReceipt(p, c, r, u, a)
           /\ version' = [version EXCEPT ![p] = 1]
    /\ UNCHANGED <<request, locks>>

RInit ==
    /\ Init
    /\ version = [p \in Proposals |-> 0]
    /\ request = [q \in Requests |-> NoRequest]
    /\ proposalLock = [p \in Proposals |-> Free]
    /\ proposalShare = [p \in Proposals |-> {}]
    /\ receiptLock = [r \in Receipts |-> Free]

Arrival ==
    \E q \in Requests, u \in Users :
        \/ \E p \in DOMAIN proposals : ArrivesForProposal(q, p, u)
        \/ \E r \in DOMAIN receipts : ArrivesForReceipt(q, r, u)

Step(q) ==
    \/ LockProposal(q) \/ MarkReceipts(q) \/ LockReceipt(q) \/ CheckProposal(q)
    \/ InsertReversal(q) \/ Recalculate(q) \/ Commit(q)

RNext ==
    \/ Insert
    \/ Arrival
    \/ \E q \in Requests : Step(q) \/ Crash(q)

RSpec == RInit /\ [][RNext]_rvars

-----------------------------------------------------------------------------
(***************************************************************************)
(* Properties.  The invariants of ProposalLifecycle are about the          *)
(* committed tables and are checked here too.                              *)
(***************************************************************************)

Request ==
    [op : ProposalFirst \union ReceiptFirst, p : Proposals,
     r : Receipts \union {NoReceipt}, user : Users, arg : Nat,
     pc : {"start", "marking", "checking", "inserting", "locking", "writing"},
     seen : {NotSeen} \union [row : ProposalRow(Int), declared : SUBSET Receipts, version : Nat],
     row : {NotSeen} \union ProposalRow(Int), marked : SUBSET Receipts, total : Int]

\* Shape of the requests and locks; only a live transaction holds a lock.
RTypeOK ==
    /\ version \in [Proposals -> 0..MaxVersion]
    /\ request \in [Requests -> Request \union {NoRequest}]
    /\ \A p \in Proposals :
           /\ proposalLock[p] = Free \/ Active(proposalLock[p])
           /\ \A q \in proposalShare[p] : Active(q)
    /\ \A r \in Receipts : receiptLock[r] = Free \/ Active(receiptLock[r])

\* What a removal and a submission leave when neither sees the other: the
\* receipt goes after the proposal has left the window of removals, or the
\* proposal is submitted without the receipts the handler had counted.
LateRemoval ==
    \/ /\ \E r \in DOMAIN receipts :
            /\ receipts[r].status = "SUBMITTED"
            /\ ~AceitaRecebimento(proposals[receipts[r].proposal])
            /\ receipts' = Deleted(receipts, r)
       /\ UNCHANGED proposals
    \/ /\ \E p \in DOMAIN proposals :
            /\ Declarados(receipts, p) = {}
            /\ PodeEnviar(proposals[p], 1)
            /\ proposals' = [proposals EXCEPT ![p] = ComAprovacao(@, "SUBMITTED")]
       /\ UNCHANGED receipts

\* Interleaved requests do together what the same requests do one at a time:
\* every commit is a step of the atomic specification.  A removal that races
\* with a submission is the only exception.
RequestsImplementLifecycle == Init /\ [][Next \/ LateRemoval]_vars

\* While a proposal is under analysis its declared receipts are frozen, and an
\* approval recognises exactly them, whatever requests overlap: what a removal
\* that checked before the submission takes away when it commits is the only
\* exception ("o conjunto que o Financeiro analisa não muda por baixo da
\* decisão", receipt_service.py).
FrozenButForRemovals ==
    [][\A p \in DOMAIN proposals :
        proposals[p].approval = "SUBMITTED" =>
            IF proposals'[p].approval = "APPROVED"
            THEN Reconhecidos(receipts', p) =
                     Reconhecidos(receipts, p) \union Declarados(receipts, p)
            ELSE \/ Declarados(receipts', p) = Declarados(receipts, p)
                 \/ \E q \in Requests :
                       /\ request[q].op = "remove" /\ request[q].pc = "writing"
                       /\ Declarados(receipts', p) =
                              Declarados(receipts, p) \ {request[q].r}]_rvars

\* A step that saves the proposal of q, which only the holder of its lock can.
Saves(q) == request[q].pc = "writing" /\ version'[request[q].p] # version[request[q].p]

\* The optimistic version: a command never replaces a row that differs from
\* the one its client had on screen, although receipts also write the row.
NoBlindWrite ==
    [][\A q \in Requests :
        Saves(q) /\ request[q].op \in Versioned => proposals[request[q].p] = request[q].seen.row]_rvars

\* What the Financeiro approves was on the screen: an approval recognises no
\* receipt its client had not read, and leaves out none that still exists.
ReviewedSetIsRecognised ==
    [][\A q \in Requests :
        Saves(q) /\ request[q].op = "approve" =>
            request[q].marked = request[q].seen.declared \intersect DOMAIN receipts]_rvars

\* The requests whose end q is waiting for.
Blockers(q) ==
    LET t == request[q]
        exclusive == {proposalLock[t.p]} \ {Free, q}
        shared == proposalShare[t.p] \ {q}
    IN  CASE t.pc = "start" /\ t.op \in ProposalFirst -> exclusive \union shared
          [] t.pc = "start" /\ t.op \in ReceiptFirst -> {receiptLock[t.r]} \ {Free, q}
          [] t.pc = "marking" -> {receiptLock[r] : r \in Declarados(receipts, t.p)} \ {Free, q}
          [] t.pc = "inserting" -> exclusive
          [] t.pc = "locking" -> exclusive \union shared
          [] OTHER -> {}

\* Proposals lock before their receipts and receipts before their proposal,
\* yet no cycle of waits forms, except between two reversals of receipts of
\* the same proposal, which share the row of the proposal before asking for
\* it exclusively.
OnlyReversalsDeadlock ==
    \A waiting \in SUBSET Requests :
        waiting # {} /\ (\A q \in waiting : Blockers(q) \intersect waiting # {}) =>
            \E q1, q2 \in waiting :
                /\ q1 # q2
                /\ request[q1].op = "reverse" /\ request[q2].op = "reverse"
                /\ request[q1].p = request[q2].p
=============================================================================
