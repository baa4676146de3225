------------------------- MODULE ProposalLifecycle -------------------------
(***************************************************************************)
(* What the commercial and receivables modules promise, with every request *)
(* taken as one atomic step: the life of proposals, of the receipts        *)
(* declared on them and of the reversals of those receipts.                *)
(*                                                                         *)
(* A step is a whole request, up to its single commit.  A request the code *)
(* refuses changes nothing and is no step here.  ProposalRequests breaks   *)
(* the same handlers into their database operations and is shown to        *)
(* implement this module.                                                  *)
(***************************************************************************)
EXTENDS ProposalDomain, Functions

CONSTANTS
    Proposals,      \* identifiers of the rows of proposals
    Receipts,       \* identifiers of the rows of receipts
    Users,          \* accounts; any of them may hold both permissions
    Commissions,    \* what a proposal may be worth to the company
    Amounts         \* what a receipt may declare

ASSUME AmountsAssumption == Amounts \subseteq Nat \ {0}

ASSUME CommissionsAssumption == Commissions \subseteq Nat

VARIABLES
    proposals,      \* table proposals: id -> row, for the ids in use
    receipts        \* table receipts: id -> row, with the reversed total

vars == <<proposals, receipts>>

Nobody == "nobody"

ASSUME NobodyAssumption == Nobody \notin Users

ProposalRow(money) ==
    [commission : Commissions, paid : money,
     status : StatusDaProposta, approval : SituacaoDeAprovacao]

ReceiptRow ==
    [proposal : Proposals, amount : Amounts,
     status : {"SUBMITTED", "APPROVED", "REJECTED"},
     createdBy : Users, decidedBy : Users \union {Nobody}, reversed : Nat]

-----------------------------------------------------------------------------
\* Queries.

EmptyTable == [x \in {} |-> x]

Inserted(table, id, row) ==
    [x \in DOMAIN table \union {id} |-> IF x = id THEN row ELSE table[x]]

Deleted(table, id) == [x \in DOMAIN table \ {id} |-> table[x]]

\* contar_declarados counts them, reconhecer updates them.
Declarados(recs, p) ==
    {r \in DOMAIN recs : recs[r].proposal = p /\ recs[r].status = "SUBMITTED"}

Reconhecidos(recs, p) ==
    {r \in DOMAIN recs : recs[r].proposal = p /\ recs[r].status = "APPROVED"}

\* Mutant: only who declared the whole set is refused.
FoiTodoDeclaradoPor(recs, p, u) ==
    Declarados(recs, p) # {} /\ \A r \in Declarados(recs, p) : recs[r].createdBy = u

FoiDeclaradoPor(recs, p, u) == \E r \in Declarados(recs, p) : recs[r].createdBy = u

Liquido(row) == row.amount - row.reversed

\* SqlReceiptRecognizer.total: recognised and not reversed.
Liquidos(recs, p) == [r \in Reconhecidos(recs, p) |-> Liquido(recs[r])]

Soma(f) == FoldFunction(LAMBDA x, y : x + y, 0, f)

Total(recs, p) == Soma(Liquidos(recs, p))

NovoRecebimento(p, u, amount) ==
    [proposal |-> p, amount |-> amount, status |-> "SUBMITTED",
     createdBy |-> u, decidedBy |-> Nobody, reversed |-> 0]

\* The bulk UPDATE of SqlReceiptRecognizer.reconhecer.
Reconhecer(recs, p, u) ==
    [r \in DOMAIN recs |->
        IF r \in Declarados(recs, p)
        THEN [recs[r] EXCEPT !.status = "APPROVED", !.decidedBy = u]
        ELSE recs[r]]

\* ReceiptService._recalculate against the receipts recs.
Recalculada(row, recs, p) == RegistrarTotalRecebido(row, Total(recs, p))

-----------------------------------------------------------------------------
\* Commands on proposals.

CreateProposal(p, c) ==
    /\ p \notin DOMAIN proposals
    /\ proposals' = Inserted(proposals, p, NovaProposta(c))
    /\ UNCHANGED receipts

\* One commit for the proposal and its first receipt.
CreateProposalWithReceipt(p, c, r, u, amount) ==
    /\ p \notin DOMAIN proposals
    /\ r \notin DOMAIN receipts
    /\ proposals' = Inserted(proposals, p, NovaProposta(c))
    /\ receipts' = Inserted(receipts, r, NovoRecebimento(p, u, amount))

UpdateProposal(p, c) ==
    /\ PodeAlterarOperacao(proposals[p])
    /\ proposals' = [proposals EXCEPT ![p] = AlterarOperacao(@, c)]
    /\ UNCHANGED receipts

SubmitProposal(p) ==
    /\ PodeEnviar(proposals[p], IF Declarados(receipts, p) = {} THEN 0 ELSE 1)
    /\ proposals' = [proposals EXCEPT ![p] = ComAprovacao(@, "SUBMITTED")]
    /\ UNCHANGED receipts

\* Approving recognises, in the same commit, everything declared.
ApproveProposal(p, u) ==
    /\ ~FoiDeclaradoPor(receipts, p, u)
    /\ PodeDecidir(proposals[p], "APPROVED")
    /\ receipts' = Reconhecer(receipts, p, u)
    /\ proposals' = [proposals EXCEPT ![p] =
           Recalculada(ComAprovacao(@, "APPROVED"), receipts', p)]

RejectProposal(p) ==
    /\ PodeDecidir(proposals[p], "REJECTED")
    /\ proposals' = [proposals EXCEPT ![p] = ComAprovacao(@, "REJECTED")]
    /\ UNCHANGED receipts

CancelProposal(p) ==
    /\ PodeCancelar(proposals[p])
    /\ proposals' = [proposals EXCEPT ![p] = Cancelada(@)]
    /\ UNCHANGED receipts

-----------------------------------------------------------------------------
\* Commands on receipts.

CreateReceipt(r, p, u, amount) ==
    /\ r \notin DOMAIN receipts
    /\ AceitaRecebimento(proposals[p])
    /\ receipts' = Inserted(receipts, r, NovoRecebimento(p, u, amount))
    /\ UNCHANGED proposals

\* Mutant: the approval of the proposal is not looked at.
DecideReceiptSemProposta(r, u, approve) ==
    LET p == receipts[r].proposal
    IN  /\ receipts[r].status = "SUBMITTED"
        /\ receipts[r].createdBy # u
        /\ PodeRegistrarTotal(proposals[p])
        /\ receipts' = [receipts EXCEPT
               ![r].status = IF approve THEN "APPROVED" ELSE "REJECTED",
               ![r].decidedBy = u]
        /\ proposals' = [proposals EXCEPT ![p] = Recalculada(@, receipts', p)]

\* The separate check of what is paid after the proposal was approved.
DecideReceipt(r, u, approve) ==
    LET p == receipts[r].proposal
    IN  /\ receipts[r].status = "SUBMITTED"
        /\ proposals[p].approval = "APPROVED"
        /\ receipts[r].createdBy # u
        /\ PodeRegistrarTotal(proposals[p])
        /\ receipts' = [receipts EXCEPT
               ![r].status = IF approve THEN "APPROVED" ELSE "REJECTED",
               ![r].decidedBy = u]
        /\ proposals' = [proposals EXCEPT ![p] = Recalculada(@, receipts', p)]

\* Mutant: a receipt already checked can be removed.
RemoveReceiptSemStatus(r) ==
    /\ AceitaRecebimento(proposals[receipts[r].proposal])
    /\ receipts' = Deleted(receipts, r)
    /\ UNCHANGED proposals

RemoveReceipt(r) ==
    /\ receipts[r].status = "SUBMITTED"
    /\ AceitaRecebimento(proposals[receipts[r].proposal])
    /\ receipts' = Deleted(receipts, r)
    /\ UNCHANGED proposals

\* Mutant: the reversal forgets the cached total of the proposal.
ReverseReceiptSemRecalculo(r, amount) ==
    /\ receipts[r].status = "APPROVED"
    /\ amount > 0
    /\ amount <= Liquido(receipts[r])
    /\ receipts' = [receipts EXCEPT ![r].reversed = @ + amount]
    /\ UNCHANGED proposals

\* Mutant: the reversal is compared with the receipt, not with what is left.
ReverseReceiptDoBruto(r, amount) ==
    LET p == receipts[r].proposal
    IN  /\ receipts[r].status = "APPROVED"
        /\ amount > 0
        /\ amount <= receipts[r].amount
        /\ PodeRegistrarTotal(proposals[p])
        /\ receipts[r].reversed < receipts[r].amount
        /\ receipts' = [receipts EXCEPT ![r].reversed = @ + amount]
        /\ proposals' = [proposals EXCEPT ![p] = Recalculada(@, receipts', p)]

ReverseReceipt(r, amount) ==
    LET p == receipts[r].proposal
    IN  /\ receipts[r].status = "APPROVED"
        /\ amount > 0
        /\ amount <= Liquido(receipts[r])
        /\ PodeRegistrarTotal(proposals[p])
        /\ receipts' = [receipts EXCEPT ![r].reversed = @ + amount]
        /\ proposals' = [proposals EXCEPT ![p] = Recalculada(@, receipts', p)]

-----------------------------------------------------------------------------
Init ==
    /\ proposals = EmptyTable
    /\ receipts = EmptyTable

NextProposal(p) ==
    \/ \E c \in Commissions : UpdateProposal(p, c)
    \/ SubmitProposal(p)
    \/ \E u \in Users : ApproveProposal(p, u)
    \/ RejectProposal(p)
    \/ CancelProposal(p)
    \/ \E r \in Receipts, u \in Users, a \in Amounts : CreateReceipt(r, p, u, a)

NextReceipt(r) ==
    \/ \E u \in Users, approve \in BOOLEAN : DecideReceipt(r, u, approve)
    \/ RemoveReceipt(r)
    \/ \E a \in 1..receipts[r].amount : ReverseReceipt(r, a)

Next ==
    \/ \E p \in Proposals, c \in Commissions : CreateProposal(p, c)
    \/ \E p \in Proposals, c \in Commissions, r \in Receipts, u \in Users, a \in Amounts :
           CreateProposalWithReceipt(p, c, r, u, a)
    \/ \E p \in DOMAIN proposals : NextProposal(p)
    \/ \E r \in DOMAIN receipts : NextReceipt(r)

Spec == Init /\ [][Next]_vars

-----------------------------------------------------------------------------
(***************************************************************************)
(* Properties.                                                             *)
(***************************************************************************)

\* Every row in use has the shape its table gives it, and every receipt
\* belongs to a proposal that exists (foreign key of receipt_model.py).  What
\* paid holds is said by PaidCacheConsistent.
TypeOK ==
    /\ proposals = [p \in DOMAIN proposals |-> proposals[p]]
    /\ \A p \in DOMAIN proposals : proposals[p] \in ProposalRow({proposals[p].paid})
    /\ DOMAIN proposals \subseteq Proposals
    /\ receipts \in [DOMAIN receipts -> ReceiptRow]
    /\ DOMAIN receipts \subseteq Receipts
    /\ \A r \in DOMAIN receipts : receipts[r].proposal \in DOMAIN proposals

\* Nobody checks money he declared himself, neither in the separate decision
\* on a receipt nor through the approval that recognises the whole set.
SegregationOfDuties ==
    \A r \in DOMAIN receipts : receipts[r].decidedBy # receipts[r].createdBy

\* A receipt is only ever checked once its proposal was approved, so no money
\* is recognised for a proposal the Financeiro has not accepted.
CheckedOnlyWhenApproved ==
    \A r \in DOMAIN receipts :
        receipts[r].status # "SUBMITTED" =>
            proposals[receipts[r].proposal].approval = "APPROVED"

\* A proposal under analysis always has something to analyse: the receipts
\* counted at submission cannot vanish before the decision.
SubmittedHasReceipt ==
    \A p \in DOMAIN proposals :
        proposals[p].approval = "SUBMITTED" => Declarados(receipts, p) # {}

\* The cached total of a proposal is the sum of what its receipts hold, after
\* approvals, separate decisions and partial reversals in any order.
PaidCacheConsistent ==
    \A p \in DOMAIN proposals : proposals[p].paid = Total(receipts, p)

\* The cash status is the one the tolerance policy gives for the current
\* commission and the current total; a proposal without money may instead
\* still carry the OPEN it was born with.
StatusFollowsMoney ==
    \A p \in DOMAIN proposals :
        LET row == proposals[p]
        IN  Ativa(row) =>
                \/ row.status = StatusPara(row.commission, row.paid)
                \/ row.status = "OPEN" /\ row.paid = 0

\* A cancelled proposal holds no money: none was there when it was cancelled
\* and none of the receipts left behind is ever recognised.
CancelledHoldsNoMoney ==
    \A p \in DOMAIN proposals :
        proposals[p].status = "CANCELLED" =>
            /\ proposals[p].paid = 0
            /\ Total(receipts, p) = 0

\* What a proposal shows of its money is what its receipts hold, whatever was
\* recognised, reversed, edited or cancelled meanwhile.
MoneyConsistent == PaidCacheConsistent /\ StatusFollowsMoney /\ CancelledHoldsNoMoney

\* Partial reversals never add up to more than the receipt, and only money
\* that was recognised is reversed.
ReversedWithinReceipt ==
    \A r \in DOMAIN receipts :
        /\ receipts[r].reversed <= receipts[r].amount
        /\ receipts[r].reversed > 0 => receipts[r].status = "APPROVED"

\* While a proposal is under analysis the set of declared receipts is frozen,
\* and approval recognises exactly that set.
AnalysisSetFrozen ==
    [][\A p \in DOMAIN proposals :
        proposals[p].approval = "SUBMITTED" =>
            IF proposals'[p].approval = "APPROVED"
            THEN Reconhecidos(receipts', p) =
                     Reconhecidos(receipts, p) \union Declarados(receipts, p)
            ELSE Declarados(receipts', p) = Declarados(receipts, p)]_vars

\* Recognised money leaves only through reversals: a recognised receipt is
\* never removed, re-decided or changed in value, its reversed total only
\* grows, and an approval is never undone.
RecognisedIsPermanent ==
    [][/\ \A r \in DOMAIN receipts :
              receipts[r].status = "APPROVED" =>
                  /\ r \in DOMAIN receipts'
                  /\ receipts'[r].reversed >= receipts[r].reversed
                  /\ receipts'[r] = [receipts[r] EXCEPT !.reversed = receipts'[r].reversed]
       /\ \A p \in DOMAIN proposals :
              proposals[p].approval = "APPROVED" => proposals'[p].approval = "APPROVED"]_vars
=============================================================================
