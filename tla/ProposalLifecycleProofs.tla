---------------------- MODULE ProposalLifecycleProofs ----------------------
(***************************************************************************)
(* Proofs about ProposalLifecycle, for every set of proposals, receipts,   *)
(* users, amounts and commissions and every tolerance.                     *)
(***************************************************************************)
EXTENDS ProposalLifecycle, TLAPS

\* Writing a row back with another status, total, approval or commission of
\* the right type gives a row of the table.
LEMMA RowTypes ==
    ASSUME NEW row, NEW paid, row \in ProposalRow({paid})
    PROVE  /\ \A x : RegistrarTotalRecebido(row, x) \in ProposalRow({x})
           /\ \A c \in Commissions : AlterarOperacao(row, c) \in ProposalRow({paid})
           /\ \A s \in SituacaoDeAprovacao : ComAprovacao(row, s) \in ProposalRow({paid})
           /\ Cancelada(row) \in ProposalRow({paid})
<1>1. \A e, x : StatusPara(e, x) \in StatusDaProposta
  BY DEF StatusPara, Classificar, StatusDaProposta
<1>2. \A x : RegistrarTotalRecebido(row, x) \in ProposalRow({x})
  BY <1>1 DEF RegistrarTotalRecebido, ReavaliarStatus, ProposalRow
<1>3. \A c \in Commissions : AlterarOperacao(row, c) \in ProposalRow({paid})
  BY <1>1 DEF AlterarOperacao, ReavaliarStatus, ProposalRow
<1>4. \A s \in SituacaoDeAprovacao : ComAprovacao(row, s) \in ProposalRow({paid})
  BY DEF ComAprovacao, ProposalRow
<1>5. Cancelada(row) \in ProposalRow({paid})
  BY DEF Cancelada, ProposalRow, StatusDaProposta
<1> QED  BY <1>2, <1>3, <1>4, <1>5

\* The two ways a new row is born.
LEMMA NewRowTypes ==
    /\ \A c \in Commissions : NovaProposta(c) \in ProposalRow({0})
    /\ \A p \in Proposals, u \in Users, a \in Amounts : NovoRecebimento(p, u, a) \in ReceiptRow
BY DEF NovaProposta, ProposalRow, StatusDaProposta, SituacaoDeAprovacao,
       NovoRecebimento, ReceiptRow

-----------------------------------------------------------------------------
(***************************************************************************)
(* Type correctness.                                                       *)
(***************************************************************************)

\* A row written back over a proposal that exists keeps the table typed.
LEMMA ProposalWritten ==
    ASSUME TypeOK, NEW p \in DOMAIN proposals, NEW row, row \in ProposalRow({row.paid}),
           proposals' = [proposals EXCEPT ![p] = row]
    PROVE  /\ DOMAIN proposals' = DOMAIN proposals
           /\ proposals' = [x \in DOMAIN proposals' |-> proposals'[x]]
           /\ \A x \in DOMAIN proposals : proposals'[x] = IF x = p THEN row ELSE proposals[x]
           /\ \A x \in DOMAIN proposals' : proposals'[x] \in ProposalRow({proposals'[x].paid})
<1>1. /\ DOMAIN proposals' = DOMAIN proposals
      /\ \A x \in DOMAIN proposals : proposals'[x] = IF x = p THEN row ELSE proposals[x]
  BY DEF TypeOK
<1>2. proposals' = [x \in DOMAIN proposals' |-> proposals'[x]]
  BY DEF TypeOK
<1>3. \A x \in DOMAIN proposals' : proposals'[x] \in ProposalRow({proposals'[x].paid})
  BY <1>1 DEF TypeOK
<1> QED  BY <1>1, <1>2, <1>3

\* A row inserted under a new identifier keeps the table typed.
LEMMA ProposalInserted ==
    ASSUME TypeOK, NEW p \in Proposals, NEW c \in Commissions,
           proposals' = Inserted(proposals, p, NovaProposta(c))
    PROVE  /\ DOMAIN proposals' = DOMAIN proposals \union {p}
           /\ proposals' = [x \in DOMAIN proposals' |-> proposals'[x]]
           /\ proposals'[p] = NovaProposta(c)
           /\ \A x \in DOMAIN proposals : x # p => proposals'[x] = proposals[x]
           /\ \A x \in DOMAIN proposals' : proposals'[x] \in ProposalRow({proposals'[x].paid})
<1>1. /\ DOMAIN proposals' = DOMAIN proposals \union {p}
      /\ proposals' = [x \in DOMAIN proposals' |-> proposals'[x]]
      /\ proposals'[p] = NovaProposta(c)
      /\ \A x \in DOMAIN proposals : x # p => proposals'[x] = proposals[x]
  BY DEF Inserted
<1>2. NovaProposta(c) \in ProposalRow({NovaProposta(c).paid})
  BY NewRowTypes DEF NovaProposta
<1>3. \A x \in DOMAIN proposals' : proposals'[x] \in ProposalRow({proposals'[x].paid})
  BY <1>1, <1>2 DEF TypeOK
<1> QED  BY <1>1, <1>3

\* A declaration adds one row, declared and not decided.
LEMMA ReceiptInserted ==
    ASSUME TypeOK, NEW r \in Receipts, NEW p \in Proposals, NEW u \in Users, NEW a \in Amounts,
           receipts' = Inserted(receipts, r, NovoRecebimento(p, u, a))
    PROVE  /\ DOMAIN receipts' = DOMAIN receipts \union {r}
           /\ receipts'[r] = NovoRecebimento(p, u, a)
           /\ \A x \in DOMAIN receipts : x # r => receipts'[x] = receipts[x]
           /\ receipts' \in [DOMAIN receipts' -> ReceiptRow]
<1>1. /\ DOMAIN receipts' = DOMAIN receipts \union {r}
      /\ receipts' = [x \in DOMAIN receipts' |-> receipts'[x]]
      /\ receipts'[r] = NovoRecebimento(p, u, a)
      /\ \A x \in DOMAIN receipts : x # r => receipts'[x] = receipts[x]
  BY DEF Inserted
<1>2. \A x \in DOMAIN receipts' : receipts'[x] \in ReceiptRow
  BY <1>1, NewRowTypes DEF TypeOK
<1> QED  BY <1>1, <1>2

\* Writing one receipt back, with a value of the table, touches no other.
LEMMA ReceiptWritten ==
    ASSUME TypeOK, NEW r \in DOMAIN receipts, NEW row \in ReceiptRow,
           row.proposal = receipts[r].proposal,
           receipts' = [receipts EXCEPT ![r] = row]
    PROVE  /\ DOMAIN receipts' = DOMAIN receipts
           /\ \A x \in DOMAIN receipts : receipts'[x] = IF x = r THEN row ELSE receipts[x]
           /\ receipts' \in [DOMAIN receipts' -> ReceiptRow]
           /\ \A x \in DOMAIN receipts : receipts'[x].proposal = receipts[x].proposal
BY DEF TypeOK

\* What a decision and a reversal write on the receipt.
LEMMA ReceiptRowTypes ==
    ASSUME NEW row \in ReceiptRow
    PROVE  /\ \A s \in {"APPROVED", "REJECTED"}, u \in Users :
                  [row EXCEPT !.status = s, !.decidedBy = u] \in ReceiptRow
           /\ \A a \in Nat : [row EXCEPT !.reversed = @ + a] \in ReceiptRow
           /\ row.amount \in Nat \ {0} /\ row.reversed \in Nat
<1>1. \A s \in {"APPROVED", "REJECTED"}, u \in Users :
          [row EXCEPT !.status = s, !.decidedBy = u] \in ReceiptRow
  BY DEF ReceiptRow
<1>2. row.amount \in Nat \ {0} /\ row.reversed \in Nat
  BY AmountsAssumption DEF ReceiptRow
<1>3. \A a \in Nat : [row EXCEPT !.reversed = @ + a] \in ReceiptRow
  <2> SUFFICES ASSUME NEW a \in Nat PROVE [row EXCEPT !.reversed = @ + a] \in ReceiptRow
    OBVIOUS
  <2>1. row.reversed + a \in Nat
    BY <1>2
  <2> QED  BY <2>1 DEF ReceiptRow
<1> QED  BY <1>1, <1>2, <1>3

\* The bulk recognition: which rows change, and how.
LEMMA Recognised ==
    ASSUME TypeOK, NEW p \in DOMAIN proposals, NEW u \in Users,
           receipts' = Reconhecer(receipts, p, u)
    PROVE  /\ DOMAIN receipts' = DOMAIN receipts
           /\ \A x \in DOMAIN receipts :
                  receipts'[x] = IF receipts[x].proposal = p /\ receipts[x].status = "SUBMITTED"
                                 THEN [receipts[x] EXCEPT !.status = "APPROVED", !.decidedBy = u]
                                 ELSE receipts[x]
           /\ receipts' \in [DOMAIN receipts' -> ReceiptRow]
           /\ \A x \in DOMAIN receipts : receipts'[x].proposal = receipts[x].proposal
<1>1. /\ DOMAIN receipts' = DOMAIN receipts
      /\ receipts' = [x \in DOMAIN receipts |-> receipts'[x]]
      /\ \A x \in DOMAIN receipts :
             receipts'[x] = IF receipts[x].proposal = p /\ receipts[x].status = "SUBMITTED"
                            THEN [receipts[x] EXCEPT !.status = "APPROVED", !.decidedBy = u]
                            ELSE receipts[x]
  BY DEF Reconhecer, Declarados
<1>2. \A x \in DOMAIN receipts : receipts'[x] \in ReceiptRow
  <2> SUFFICES ASSUME NEW x \in DOMAIN receipts PROVE receipts'[x] \in ReceiptRow
    OBVIOUS
  <2>1. receipts[x] \in ReceiptRow
    BY DEF TypeOK
  <2>2. [receipts[x] EXCEPT !.status = "APPROVED", !.decidedBy = u] \in ReceiptRow
    BY <2>1, ReceiptRowTypes
  <2>3. CASE receipts[x].proposal = p /\ receipts[x].status = "SUBMITTED"
    BY <1>1, <2>2, <2>3
  <2>4. CASE ~(receipts[x].proposal = p /\ receipts[x].status = "SUBMITTED")
    BY <1>1, <2>1, <2>4
  <2> QED  BY <2>3, <2>4
<1>3. \A x \in DOMAIN receipts : receipts'[x].proposal = receipts[x].proposal
  BY <1>1 DEF TypeOK, ReceiptRow
<1> QED  BY <1>1, <1>2, <1>3

LEMMA TypeInductive == TypeOK /\ [Next]_vars => TypeOK'
<1> SUFFICES ASSUME TypeOK, [Next]_vars PROVE TypeOK'
  OBVIOUS
<1>1. ASSUME NEW p \in Proposals, NEW c \in Commissions, CreateProposal(p, c) PROVE TypeOK'
  BY <1>1, ProposalInserted DEF CreateProposal, TypeOK
<1>2. ASSUME NEW p \in Proposals, NEW c \in Commissions, NEW r \in Receipts, NEW u \in Users,
             NEW a \in Amounts, CreateProposalWithReceipt(p, c, r, u, a)
      PROVE  TypeOK'
  <2>1. /\ proposals' = Inserted(proposals, p, NovaProposta(c))
        /\ receipts' = Inserted(receipts, r, NovoRecebimento(p, u, a))
    BY <1>2 DEF CreateProposalWithReceipt
  <2>2. receipts'[r].proposal = p
    <3>1. receipts'[r] = NovoRecebimento(p, u, a)
      BY <2>1, ReceiptInserted
    <3> QED  BY <3>1 DEF NovoRecebimento
  <2>3. /\ DOMAIN proposals' = DOMAIN proposals \union {p}
        /\ proposals' = [x \in DOMAIN proposals' |-> proposals'[x]]
        /\ \A x \in DOMAIN proposals' : proposals'[x] \in ProposalRow({proposals'[x].paid})
    BY <2>1, ProposalInserted
  <2>4. /\ DOMAIN receipts' = DOMAIN receipts \union {r}
        /\ \A x \in DOMAIN receipts : x # r => receipts'[x] = receipts[x]
        /\ receipts' \in [DOMAIN receipts' -> ReceiptRow]
    BY <2>1, ReceiptInserted
  <2> QED  BY <2>2, <2>3, <2>4 DEF TypeOK
<1>3. ASSUME NEW p \in DOMAIN proposals, NEW row, row \in ProposalRow({row.paid}),
             proposals' = [proposals EXCEPT ![p] = row], UNCHANGED receipts
      PROVE  TypeOK'
  BY <1>3, ProposalWritten DEF TypeOK
<1>4. ASSUME NEW p \in DOMAIN proposals, NEW c \in Commissions, UpdateProposal(p, c) PROVE TypeOK'
  <2>1. AlterarOperacao(proposals[p], c) \in ProposalRow({AlterarOperacao(proposals[p], c).paid})
    <3>1. AlterarOperacao(proposals[p], c) \in ProposalRow({proposals[p].paid})
      BY RowTypes DEF TypeOK
    <3> QED  BY <3>1 DEF ProposalRow
  <2> QED  BY <2>1, <1>3, <1>4 DEF UpdateProposal
<1>5. ASSUME NEW p \in DOMAIN proposals, NEW s \in SituacaoDeAprovacao,
             proposals' = [proposals EXCEPT ![p] = ComAprovacao(@, s)], UNCHANGED receipts
      PROVE  TypeOK'
  <2>1. ComAprovacao(proposals[p], s) \in ProposalRow({ComAprovacao(proposals[p], s).paid})
    <3>1. ComAprovacao(proposals[p], s) \in ProposalRow({proposals[p].paid})
      BY RowTypes DEF TypeOK
    <3> QED  BY <3>1 DEF ProposalRow
  <2> QED  BY <2>1, <1>3, <1>5
<1>6. ASSUME NEW p \in DOMAIN proposals, SubmitProposal(p) PROVE TypeOK'
  BY <1>5, <1>6 DEF SubmitProposal, SituacaoDeAprovacao
<1>7. ASSUME NEW p \in DOMAIN proposals, RejectProposal(p) PROVE TypeOK'
  BY <1>5, <1>7 DEF RejectProposal, SituacaoDeAprovacao
<1>8. ASSUME NEW p \in DOMAIN proposals, CancelProposal(p) PROVE TypeOK'
  <2>1. Cancelada(proposals[p]) \in ProposalRow({Cancelada(proposals[p]).paid})
    <3>1. Cancelada(proposals[p]) \in ProposalRow({proposals[p].paid})
      BY RowTypes DEF TypeOK
    <3> QED  BY <3>1 DEF ProposalRow
  <2> QED  BY <2>1, <1>3, <1>8 DEF CancelProposal
<1>9. ASSUME NEW p \in DOMAIN proposals, NEW u \in Users, ApproveProposal(p, u) PROVE TypeOK'
  <2> DEFINE row == Recalculada(ComAprovacao(proposals[p], "APPROVED"), receipts', p)
  <2>1. row \in ProposalRow({row.paid})
    <3>1. ComAprovacao(proposals[p], "APPROVED") \in ProposalRow({proposals[p].paid})
      BY RowTypes DEF TypeOK, SituacaoDeAprovacao
    <3>2. row \in ProposalRow({Total(receipts', p)})
      BY <3>1, RowTypes DEF Recalculada
    <3> QED  BY <3>2 DEF ProposalRow
  <2>2. proposals' = [proposals EXCEPT ![p] = row] /\ receipts' = Reconhecer(receipts, p, u)
    BY <1>9 DEF ApproveProposal
  <2> HIDE DEF row
  <2> QED  BY <2>1, <2>2, ProposalWritten, Recognised DEF TypeOK
<1>10. ASSUME NEW r \in Receipts, NEW p \in DOMAIN proposals, NEW u \in Users,
              NEW a \in Amounts, CreateReceipt(r, p, u, a)
       PROVE  TypeOK'
  <2>1. /\ receipts' = Inserted(receipts, r, NovoRecebimento(p, u, a))
        /\ UNCHANGED proposals
        /\ p \in Proposals
    BY <1>10 DEF CreateReceipt, TypeOK
  <2>2. receipts'[r].proposal = p
    <3>1. receipts'[r] = NovoRecebimento(p, u, a)
      BY <2>1, ReceiptInserted
    <3> QED  BY <3>1 DEF NovoRecebimento
  <2> QED  BY <2>1, <2>2, ReceiptInserted DEF TypeOK
<1>11. ASSUME NEW r \in DOMAIN receipts, NEW row \in ReceiptRow,
              row.proposal = receipts[r].proposal,
              receipts' = [receipts EXCEPT ![r] = row],
              proposals' = [proposals EXCEPT
                  ![row.proposal] = Recalculada(@, receipts', row.proposal)]
       PROVE  TypeOK'
  <2> DEFINE p == row.proposal
             new == Recalculada(proposals[p], receipts', p)
  <2>1. p \in DOMAIN proposals
    BY <1>11 DEF TypeOK
  <2>2. new \in ProposalRow({new.paid})
    <3>1. new \in ProposalRow({Total(receipts', p)})
      BY <2>1, RowTypes DEF TypeOK, Recalculada
    <3> QED  BY <3>1 DEF ProposalRow
  <2>3. proposals' = [proposals EXCEPT ![p] = new]
    BY <1>11
  <2> HIDE DEF p, new
  <2> QED  BY <1>11, <2>1, <2>2, <2>3, ProposalWritten, ReceiptWritten DEF TypeOK
<1>12. ASSUME NEW r \in DOMAIN receipts, NEW u \in Users, NEW approve \in BOOLEAN,
              DecideReceipt(r, u, approve)
       PROVE  TypeOK'
  <2> DEFINE row == [receipts[r] EXCEPT !.status = IF approve THEN "APPROVED" ELSE "REJECTED",
                                        !.decidedBy = u]
  <2>1. row \in ReceiptRow /\ row.proposal = receipts[r].proposal
    BY ReceiptRowTypes DEF TypeOK, ReceiptRow
  <2>2. /\ receipts' = [receipts EXCEPT ![r] = row]
        /\ proposals' = [proposals EXCEPT
               ![receipts[r].proposal] = Recalculada(@, receipts', receipts[r].proposal)]
    BY <1>12 DEF DecideReceipt, TypeOK
  <2> HIDE DEF row
  <2> QED  BY <1>11, <2>1, <2>2
<1>13. ASSUME NEW r \in DOMAIN receipts, RemoveReceipt(r) PROVE TypeOK'
  BY <1>13 DEF RemoveReceipt, Deleted, TypeOK
<1>14. ASSUME NEW r \in DOMAIN receipts, NEW a \in 1..receipts[r].amount, ReverseReceipt(r, a)
       PROVE  TypeOK'
  <2> DEFINE row == [receipts[r] EXCEPT !.reversed = @ + a]
  <2>1. row \in ReceiptRow /\ row.proposal = receipts[r].proposal
    <3>1. receipts[r] \in ReceiptRow
      BY DEF TypeOK
    <3>2. a \in Nat
      <4>1. receipts[r].amount \in Nat
        BY <3>1, ReceiptRowTypes
      <4> QED  BY <4>1
    <3>3. row \in ReceiptRow
      BY <3>1, <3>2, ReceiptRowTypes
    <3> QED  BY <3>1, <3>3 DEF ReceiptRow
  <2>2. /\ receipts' = [receipts EXCEPT ![r] = row]
        /\ proposals' = [proposals EXCEPT
               ![receipts[r].proposal] = Recalculada(@, receipts', receipts[r].proposal)]
    BY <1>14 DEF ReverseReceipt, TypeOK
  <2> HIDE DEF row
  <2> QED  BY <1>11, <2>1, <2>2
<1>15. CASE UNCHANGED vars
  BY <1>15 DEF vars, TypeOK
<1> QED
  BY <1>1, <1>2, <1>4, <1>6, <1>7, <1>8, <1>9, <1>10, <1>12, <1>13, <1>14, <1>15
     DEF Next, NextProposal, NextReceipt

\* Every reachable state is typed, whatever the number of proposals,
\* receipts and users and whatever the amounts.
THEOREM TypeCorrect == Spec => []TypeOK
<1>1. Init => TypeOK
  BY DEF Init, TypeOK, EmptyTable
<1>2. TypeOK /\ [Next]_vars => TypeOK'
  BY TypeInductive
<1> QED  BY <1>1, <1>2, PTL DEF Spec

-----------------------------------------------------------------------------
(***************************************************************************)
(* What each action does, row by row.  The invariants are proved from      *)
(* these facts.                                                            *)
(***************************************************************************)

OnlyProposal(p) ==
    /\ DOMAIN proposals' = DOMAIN proposals
    /\ \A x \in DOMAIN proposals : x # p => proposals'[x] = proposals[x]

OnlyReceipt(r) ==
    /\ DOMAIN receipts' = DOMAIN receipts
    /\ \A x \in DOMAIN receipts : x # r => receipts'[x] = receipts[x]

\* The fields of a row after each method of the entity.
LEMMA RowFields ==
    ASSUME NEW row, row \in ProposalRow({row.paid})
    PROVE  /\ \A x : /\ RegistrarTotalRecebido(row, x).approval = row.approval
                     /\ RegistrarTotalRecebido(row, x).commission = row.commission
                     /\ RegistrarTotalRecebido(row, x).paid = x
                     /\ RegistrarTotalRecebido(row, x).status = StatusPara(row.commission, x)
           /\ \A c : /\ AlterarOperacao(row, c).approval = row.approval
                     /\ AlterarOperacao(row, c).commission = c
                     /\ AlterarOperacao(row, c).paid = row.paid
                     /\ AlterarOperacao(row, c).status = StatusPara(c, row.paid)
           /\ \A s : /\ ComAprovacao(row, s).approval = s
                     /\ ComAprovacao(row, s).commission = row.commission
                     /\ ComAprovacao(row, s).paid = row.paid
                     /\ ComAprovacao(row, s).status = row.status
           /\ /\ Cancelada(row).approval = row.approval
              /\ Cancelada(row).commission = row.commission
              /\ Cancelada(row).paid = row.paid
              /\ Cancelada(row).status = "CANCELLED"
<1>1. \A x : /\ RegistrarTotalRecebido(row, x).approval = row.approval
             /\ RegistrarTotalRecebido(row, x).commission = row.commission
             /\ RegistrarTotalRecebido(row, x).paid = x
             /\ RegistrarTotalRecebido(row, x).status = StatusPara(row.commission, x)
  BY DEF RegistrarTotalRecebido, ReavaliarStatus, ProposalRow
<1>2. \A c : /\ AlterarOperacao(row, c).approval = row.approval
             /\ AlterarOperacao(row, c).commission = c
             /\ AlterarOperacao(row, c).paid = row.paid
             /\ AlterarOperacao(row, c).status = StatusPara(c, row.paid)
  BY DEF AlterarOperacao, ReavaliarStatus, ProposalRow
<1>3. \A s : /\ ComAprovacao(row, s).approval = s
             /\ ComAprovacao(row, s).commission = row.commission
             /\ ComAprovacao(row, s).paid = row.paid
             /\ ComAprovacao(row, s).status = row.status
  BY DEF ComAprovacao, ProposalRow
<1>4. /\ Cancelada(row).approval = row.approval
      /\ Cancelada(row).commission = row.commission
      /\ Cancelada(row).paid = row.paid
      /\ Cancelada(row).status = "CANCELLED"
  BY DEF Cancelada, ProposalRow
<1> QED  BY <1>1, <1>2, <1>3, <1>4

\* Commands that write only the proposal.
LEMMA ProposalCommandEffects ==
    ASSUME TypeOK, NEW p \in DOMAIN proposals
    PROVE  /\ \A c \in Commissions : UpdateProposal(p, c) =>
                  /\ OnlyProposal(p) /\ receipts' = receipts
                  /\ proposals[p].status # "CANCELLED"
                  /\ proposals[p].approval # "SUBMITTED"
                  /\ proposals'[p].approval = proposals[p].approval
                  /\ proposals'[p].commission = c
                  /\ proposals'[p].paid = proposals[p].paid
                  /\ proposals'[p].status = StatusPara(c, proposals[p].paid)
           /\ SubmitProposal(p) =>
                  /\ OnlyProposal(p) /\ receipts' = receipts
                  /\ proposals[p].approval \in {"DRAFT", "REJECTED"}
                  /\ Declarados(receipts, p) # {}
                  /\ proposals'[p].approval = "SUBMITTED"
                  /\ proposals'[p].commission = proposals[p].commission
                  /\ proposals'[p].paid = proposals[p].paid
                  /\ proposals'[p].status = proposals[p].status
           /\ RejectProposal(p) =>
                  /\ OnlyProposal(p) /\ receipts' = receipts
                  /\ proposals[p].approval = "SUBMITTED"
                  /\ proposals'[p].approval = "REJECTED"
                  /\ proposals'[p].commission = proposals[p].commission
                  /\ proposals'[p].paid = proposals[p].paid
                  /\ proposals'[p].status = proposals[p].status
           /\ CancelProposal(p) =>
                  /\ OnlyProposal(p) /\ receipts' = receipts
                  /\ proposals[p].paid = 0
                  /\ proposals'[p].approval = proposals[p].approval
                  /\ proposals'[p].commission = proposals[p].commission
                  /\ proposals'[p].paid = proposals[p].paid
                  /\ proposals'[p].status = "CANCELLED"
<1> DEFINE row == proposals[p]
<1>1. row \in ProposalRow({row.paid})
  BY DEF TypeOK
<1>2. ASSUME NEW new, proposals' = [proposals EXCEPT ![p] = new]
      PROVE  OnlyProposal(p) /\ proposals'[p] = new
  BY <1>2 DEF TypeOK, OnlyProposal
<1>3. ASSUME NEW c \in Commissions, UpdateProposal(p, c)
      PROVE  /\ OnlyProposal(p) /\ receipts' = receipts
             /\ row.status # "CANCELLED" /\ row.approval # "SUBMITTED"
             /\ proposals'[p] = AlterarOperacao(row, c)
  BY <1>2, <1>3 DEF UpdateProposal, PodeAlterarOperacao, Ativa
<1>4. ASSUME SubmitProposal(p)
      PROVE  /\ OnlyProposal(p) /\ receipts' = receipts
             /\ row.approval \in {"DRAFT", "REJECTED"}
             /\ Declarados(receipts, p) # {}
             /\ proposals'[p] = ComAprovacao(row, "SUBMITTED")
  <2>1. /\ UNCHANGED receipts
        /\ proposals' = [proposals EXCEPT ![p] = ComAprovacao(row, "SUBMITTED")]
    BY <1>4 DEF SubmitProposal
  <2>2. /\ AprovacaoPermite(row.approval, "SUBMITTED")
        /\ (IF Declarados(receipts, p) = {} THEN 0 ELSE 1) >= 1
    BY <1>4 DEF SubmitProposal, PodeEnviar
  <2>3. row.approval \in {"DRAFT", "REJECTED"}
    BY <2>2 DEF AprovacaoPermite, TransicoesDeAprovacao
  <2>4. Declarados(receipts, p) # {}
    BY <2>2
  <2> QED  BY <1>2, <2>1, <2>3, <2>4
<1>5. ASSUME RejectProposal(p)
      PROVE  /\ OnlyProposal(p) /\ receipts' = receipts
             /\ row.approval = "SUBMITTED"
             /\ proposals'[p] = ComAprovacao(row, "REJECTED")
  BY <1>2, <1>5 DEF RejectProposal, PodeDecidir, AprovacaoPermite, TransicoesDeAprovacao
<1>6. ASSUME CancelProposal(p)
      PROVE  /\ OnlyProposal(p) /\ receipts' = receipts
             /\ row.paid = 0
             /\ proposals'[p] = Cancelada(row)
  BY <1>2, <1>6 DEF CancelProposal, PodeCancelar
<1>7. /\ \A c : /\ AlterarOperacao(row, c).approval = row.approval
               /\ AlterarOperacao(row, c).commission = c
               /\ AlterarOperacao(row, c).paid = row.paid
               /\ AlterarOperacao(row, c).status = StatusPara(c, row.paid)
      /\ \A s : /\ ComAprovacao(row, s).approval = s
               /\ ComAprovacao(row, s).commission = row.commission
               /\ ComAprovacao(row, s).paid = row.paid
               /\ ComAprovacao(row, s).status = row.status
      /\ /\ Cancelada(row).approval = row.approval
         /\ Cancelada(row).commission = row.commission
         /\ Cancelada(row).paid = row.paid
         /\ Cancelada(row).status = "CANCELLED"
  BY <1>1, RowFields
<1> HIDE DEF row
<1>8. \A c \in Commissions : UpdateProposal(p, c) =>
          /\ OnlyProposal(p) /\ receipts' = receipts
          /\ row.status # "CANCELLED" /\ row.approval # "SUBMITTED"
          /\ proposals'[p].approval = row.approval
          /\ proposals'[p].commission = c
          /\ proposals'[p].paid = row.paid
          /\ proposals'[p].status = StatusPara(c, row.paid)
  BY <1>3, <1>7
<1>9. SubmitProposal(p) =>
          /\ OnlyProposal(p) /\ receipts' = receipts
          /\ row.approval \in {"DRAFT", "REJECTED"}
          /\ Declarados(receipts, p) # {}
          /\ proposals'[p].approval = "SUBMITTED"
          /\ proposals'[p].commission = row.commission
          /\ proposals'[p].paid = row.paid
          /\ proposals'[p].status = row.status
  BY <1>4, <1>7
<1>10. RejectProposal(p) =>
          /\ OnlyProposal(p) /\ receipts' = receipts
          /\ row.approval = "SUBMITTED"
          /\ proposals'[p].approval = "REJECTED"
          /\ proposals'[p].commission = row.commission
          /\ proposals'[p].paid = row.paid
          /\ proposals'[p].status = row.status
  BY <1>5, <1>7
<1>11. CancelProposal(p) =>
          /\ OnlyProposal(p) /\ receipts' = receipts
          /\ row.paid = 0
          /\ proposals'[p].approval = row.approval
          /\ proposals'[p].commission = row.commission
          /\ proposals'[p].paid = row.paid
          /\ proposals'[p].status = "CANCELLED"
  BY <1>6, <1>7
<1> QED  BY <1>8, <1>9, <1>10, <1>11 DEF row

\* Approving recognises every declared receipt of the proposal and nothing
\* else, and the cached total becomes what the receipts then hold.
LEMMA ApproveEffects ==
    ASSUME TypeOK, NEW p \in DOMAIN proposals, NEW u \in Users, ApproveProposal(p, u)
    PROVE  /\ OnlyProposal(p)
           /\ proposals[p].approval = "SUBMITTED"
           /\ proposals[p].status # "CANCELLED"
           /\ proposals'[p].approval = "APPROVED"
           /\ proposals'[p].commission = proposals[p].commission
           /\ proposals'[p].paid = Total(receipts', p)
           /\ proposals'[p].status = StatusPara(proposals[p].commission, Total(receipts', p))
           /\ DOMAIN receipts' = DOMAIN receipts
           /\ \A r \in DOMAIN receipts :
                  IF receipts[r].proposal = p /\ receipts[r].status = "SUBMITTED"
                  THEN /\ receipts[r].createdBy # u
                       /\ receipts'[r] = [receipts[r] EXCEPT !.status = "APPROVED", !.decidedBy = u]
                  ELSE receipts'[r] = receipts[r]
<1> DEFINE approved == ComAprovacao(proposals[p], "APPROVED")
<1>1. approved \in ProposalRow({approved.paid})
  <2>1. approved \in ProposalRow({proposals[p].paid})
    BY RowTypes DEF TypeOK, SituacaoDeAprovacao
  <2> QED  BY <2>1 DEF ProposalRow
<1>2. proposals' = [proposals EXCEPT ![p] = Recalculada(approved, receipts', p)]
  BY DEF ApproveProposal
<1>3. OnlyProposal(p) /\ proposals'[p] = RegistrarTotalRecebido(approved, Total(receipts', p))
  BY <1>2 DEF TypeOK, OnlyProposal, Recalculada
<1>4. /\ approved.approval = "APPROVED"
      /\ approved.commission = proposals[p].commission
  <2>1. proposals[p] \in ProposalRow({proposals[p].paid})
    BY DEF TypeOK
  <2> QED  BY <2>1, RowFields
<1>5. proposals[p].approval = "SUBMITTED" /\ proposals[p].status # "CANCELLED"
  BY DEF ApproveProposal, PodeDecidir, AprovacaoPermite, TransicoesDeAprovacao, Ativa
<1>6. \A r \in DOMAIN receipts :
          receipts[r].proposal = p /\ receipts[r].status = "SUBMITTED" => receipts[r].createdBy # u
  BY DEF ApproveProposal, FoiDeclaradoPor, Declarados
<1>7. receipts' = Reconhecer(receipts, p, u)
  BY DEF ApproveProposal
<1> HIDE DEF approved
<1>8. /\ proposals'[p].approval = "APPROVED"
      /\ proposals'[p].commission = proposals[p].commission
      /\ proposals'[p].paid = Total(receipts', p)
      /\ proposals'[p].status = StatusPara(proposals[p].commission, Total(receipts', p))
  <2> DEFINE t == Total(receipts', p)
  <2>1. /\ RegistrarTotalRecebido(approved, t).approval = approved.approval
        /\ RegistrarTotalRecebido(approved, t).commission = approved.commission
        /\ RegistrarTotalRecebido(approved, t).paid = t
        /\ RegistrarTotalRecebido(approved, t).status = StatusPara(approved.commission, t)
    <3> HIDE DEF t
    <3> QED  BY <1>1, RowFields
  <2> HIDE DEF t
  <2> QED  BY <1>3, <1>4, <2>1 DEF t
<1> QED  BY <1>3, <1>5, <1>6, <1>7, <1>8, Recognised

\* The commands that write one receipt and then recalculate its proposal.
LEMMA Recalculation ==
    ASSUME TypeOK, NEW r \in DOMAIN receipts, NEW p, p = receipts[r].proposal,
           proposals' = [proposals EXCEPT ![p] = Recalculada(@, receipts', p)]
    PROVE  /\ p \in DOMAIN proposals
           /\ OnlyProposal(p)
           /\ proposals'[p].approval = proposals[p].approval
           /\ proposals'[p].commission = proposals[p].commission
           /\ proposals'[p].paid = Total(receipts', p)
           /\ proposals'[p].status = StatusPara(proposals[p].commission, Total(receipts', p))
<1>1. p \in DOMAIN proposals /\ proposals[p] \in ProposalRow({proposals[p].paid})
  BY DEF TypeOK
<1>2. OnlyProposal(p) /\ proposals'[p] = RegistrarTotalRecebido(proposals[p], Total(receipts', p))
  BY <1>1 DEF TypeOK, OnlyProposal, Recalculada
<1> DEFINE t == Total(receipts', p)
<1>3. /\ RegistrarTotalRecebido(proposals[p], t).approval = proposals[p].approval
      /\ RegistrarTotalRecebido(proposals[p], t).commission = proposals[p].commission
      /\ RegistrarTotalRecebido(proposals[p], t).paid = t
      /\ RegistrarTotalRecebido(proposals[p], t).status = StatusPara(proposals[p].commission, t)
  <2> HIDE DEF t
  <2> QED  BY <1>1, RowFields
<1> HIDE DEF t
<1> QED  BY <1>1, <1>2, <1>3 DEF t

LEMMA DecideEffects ==
    ASSUME TypeOK, NEW r \in DOMAIN receipts, NEW u \in Users, NEW approve \in BOOLEAN,
           DecideReceipt(r, u, approve)
    PROVE  /\ proposals[receipts[r].proposal].approval = "APPROVED"
           /\ proposals[receipts[r].proposal].status # "CANCELLED"
           /\ proposals' = [proposals EXCEPT ![receipts[r].proposal] =
                               Recalculada(@, receipts', receipts[r].proposal)]
           /\ OnlyReceipt(r)
           /\ receipts[r].status = "SUBMITTED"
           /\ receipts[r].createdBy # u
           /\ receipts'[r].status \in {"APPROVED", "REJECTED"}
           /\ receipts'[r].decidedBy = u
           /\ receipts'[r].createdBy = receipts[r].createdBy
           /\ receipts'[r].proposal = receipts[r].proposal
           /\ receipts'[r].amount = receipts[r].amount
           /\ receipts'[r].reversed = receipts[r].reversed
<1>1. /\ receipts' = [receipts EXCEPT ![r].status = IF approve THEN "APPROVED" ELSE "REJECTED",
                                      ![r].decidedBy = u]
      /\ proposals' = [proposals EXCEPT ![receipts[r].proposal] =
                          Recalculada(@, receipts', receipts[r].proposal)]
      /\ proposals[receipts[r].proposal].approval = "APPROVED"
      /\ receipts[r].status = "SUBMITTED" /\ receipts[r].createdBy # u
  BY DEF DecideReceipt
<1>2. proposals[receipts[r].proposal].status # "CANCELLED"
  BY DEF DecideReceipt, PodeRegistrarTotal, Ativa
<1>3. receipts[r] \in ReceiptRow
  BY DEF TypeOK
<1>4. /\ OnlyReceipt(r)
      /\ receipts'[r] = [receipts[r] EXCEPT !.status = IF approve THEN "APPROVED" ELSE "REJECTED",
                                            !.decidedBy = u]
  BY <1>1 DEF TypeOK, OnlyReceipt
<1> QED  BY <1>1, <1>2, <1>3, <1>4 DEF ReceiptRow

LEMMA ReverseEffects ==
    ASSUME TypeOK, NEW r \in DOMAIN receipts, NEW a \in 1..receipts[r].amount,
           ReverseReceipt(r, a)
    PROVE  /\ proposals[receipts[r].proposal].status # "CANCELLED"
           /\ proposals' = [proposals EXCEPT ![receipts[r].proposal] =
                               Recalculada(@, receipts', receipts[r].proposal)]
           /\ OnlyReceipt(r)
           /\ receipts[r].status = "APPROVED"
           /\ a \in Nat
           /\ receipts[r].reversed + a <= receipts[r].amount
           /\ receipts'[r] = [receipts[r] EXCEPT !.reversed = receipts[r].reversed + a]
<1>1. /\ receipts' = [receipts EXCEPT ![r].reversed = @ + a]
      /\ proposals' = [proposals EXCEPT ![receipts[r].proposal] =
                          Recalculada(@, receipts', receipts[r].proposal)]
      /\ receipts[r].status = "APPROVED" /\ a <= Liquido(receipts[r])
  BY DEF ReverseReceipt
<1>2. proposals[receipts[r].proposal].status # "CANCELLED"
  BY DEF ReverseReceipt, PodeRegistrarTotal, Ativa
<1>3. /\ OnlyReceipt(r)
      /\ receipts'[r] = [receipts[r] EXCEPT !.reversed = receipts[r].reversed + a]
  BY <1>1 DEF TypeOK, OnlyReceipt
<1>4. receipts[r].amount \in Nat /\ receipts[r].reversed \in Nat
  BY ReceiptRowTypes DEF TypeOK
<1>5. a \in Nat /\ receipts[r].reversed + a <= receipts[r].amount
  BY <1>1, <1>4 DEF Liquido
<1> QED  BY <1>1, <1>2, <1>3, <1>5

\* A receipt is declared, or removed, before submission or after approval.
LEMMA DeclareEffects ==
    ASSUME TypeOK
    PROVE  /\ \A r \in Receipts, p \in DOMAIN proposals, u \in Users, a \in Amounts :
                  CreateReceipt(r, p, u, a) =>
                      /\ r \notin DOMAIN receipts
                      /\ proposals' = proposals
                      /\ proposals[p].approval # "SUBMITTED"
                      /\ DOMAIN receipts' = DOMAIN receipts \union {r}
                      /\ receipts'[r] = NovoRecebimento(p, u, a)
                      /\ \A x \in DOMAIN receipts : receipts'[x] = receipts[x]
           /\ \A r \in DOMAIN receipts :
                  RemoveReceipt(r) =>
                      /\ proposals' = proposals
                      /\ proposals[receipts[r].proposal].approval # "SUBMITTED"
                      /\ receipts[r].status = "SUBMITTED"
                      /\ DOMAIN receipts' = DOMAIN receipts \ {r}
                      /\ \A x \in DOMAIN receipts' : receipts'[x] = receipts[x]
<1>1. ASSUME NEW p, AceitaRecebimento(proposals[p]) PROVE proposals[p].approval # "SUBMITTED"
  BY <1>1 DEF AceitaRecebimento, Editaveis
<1>2. ASSUME NEW r \in Receipts, NEW p \in DOMAIN proposals, NEW u \in Users, NEW a \in Amounts,
             CreateReceipt(r, p, u, a)
      PROVE  /\ r \notin DOMAIN receipts
             /\ proposals' = proposals
             /\ proposals[p].approval # "SUBMITTED"
             /\ DOMAIN receipts' = DOMAIN receipts \union {r}
             /\ receipts'[r] = NovoRecebimento(p, u, a)
             /\ \A x \in DOMAIN receipts : receipts'[x] = receipts[x]
  BY <1>1, <1>2 DEF CreateReceipt, Inserted
<1>3. ASSUME NEW r \in DOMAIN receipts, RemoveReceipt(r)
      PROVE  /\ proposals' = proposals
             /\ proposals[receipts[r].proposal].approval # "SUBMITTED"
             /\ receipts[r].status = "SUBMITTED"
             /\ DOMAIN receipts' = DOMAIN receipts \ {r}
             /\ \A x \in DOMAIN receipts' : receipts'[x] = receipts[x]
  BY <1>1, <1>3 DEF RemoveReceipt, Deleted
<1> QED  BY <1>2, <1>3

\* A proposal is born in draft and worth nothing, alone or with a receipt.
LEMMA CreateEffects ==
    ASSUME TypeOK, NEW p \in Proposals, NEW c \in Commissions
    PROVE  /\ CreateProposal(p, c) =>
                  /\ p \notin DOMAIN proposals
                  /\ DOMAIN proposals' = DOMAIN proposals \union {p}
                  /\ \A x \in DOMAIN proposals : proposals'[x] = proposals[x]
                  /\ proposals'[p] = NovaProposta(c)
                  /\ receipts' = receipts
           /\ \A r \in Receipts, u \in Users, a \in Amounts :
                  CreateProposalWithReceipt(p, c, r, u, a) =>
                      /\ p \notin DOMAIN proposals
                      /\ DOMAIN proposals' = DOMAIN proposals \union {p}
                      /\ \A x \in DOMAIN proposals : proposals'[x] = proposals[x]
                      /\ proposals'[p] = NovaProposta(c)
                      /\ r \notin DOMAIN receipts
                      /\ DOMAIN receipts' = DOMAIN receipts \union {r}
                      /\ receipts'[r] = NovoRecebimento(p, u, a)
                      /\ \A x \in DOMAIN receipts : receipts'[x] = receipts[x]
BY DEF CreateProposal, CreateProposalWithReceipt, Inserted

-----------------------------------------------------------------------------
(***************************************************************************)
(* Segregation of duties and the analysis of a proposal.  DutiesInv is     *)
(* inductive on its own.  SubmittedHasReceipt needs it: by                 *)
(* CheckedOnlyWhenApproved no receipt of a proposal under analysis was     *)
(* decided apart.                                                          *)
(***************************************************************************)

DutiesInv ==
    /\ TypeOK
    /\ SegregationOfDuties
    /\ CheckedOnlyWhenApproved
    /\ ReversedWithinReceipt

AnalysisInv == DutiesInv /\ SubmittedHasReceipt

\* What every step of the handlers keeps.
AnalysisKept == DutiesInv' /\ (SubmittedHasReceipt => SubmittedHasReceipt')

LEMMA AnalysisInductive == DutiesInv /\ [Next]_vars => AnalysisKept
<1> SUFFICES ASSUME DutiesInv, [Next]_vars PROVE AnalysisKept
  OBVIOUS
<1> USE DEF DutiesInv, AnalysisKept
<1>0. TypeOK /\ TypeOK'
  BY TypeInductive
<1>1. ASSUME NEW p \in Proposals, NEW c \in Commissions, CreateProposal(p, c) PROVE AnalysisKept
  <2>1. /\ DOMAIN proposals' = DOMAIN proposals \union {p}
        /\ \A x \in DOMAIN proposals : proposals'[x] = proposals[x]
        /\ proposals'[p] = NovaProposta(c)
        /\ receipts' = receipts
    BY <1>0, <1>1, CreateEffects
  <2>2. proposals'[p].approval = "DRAFT"
    BY <2>1 DEF NovaProposta
  <2> QED
    BY <1>0, <2>1, <2>2 DEF SegregationOfDuties, CheckedOnlyWhenApproved, SubmittedHasReceipt,
                            ReversedWithinReceipt, Declarados, TypeOK
<1>2. ASSUME NEW r \in Receipts, NEW p \in Proposals, NEW u \in Users, NEW a \in Amounts,
             p \in DOMAIN proposals',
             /\ DOMAIN receipts' = DOMAIN receipts \union {r} /\ r \notin DOMAIN receipts
             /\ receipts'[r] = NovoRecebimento(p, u, a)
             /\ \A x \in DOMAIN receipts : receipts'[x] = receipts[x],
             \A x \in DOMAIN proposals : x \in DOMAIN proposals' /\ proposals'[x] = proposals[x],
             \A x \in DOMAIN proposals' \ DOMAIN proposals : proposals'[x].approval = "DRAFT"
      PROVE  AnalysisKept
  <2>1. /\ receipts'[r].status = "SUBMITTED" /\ receipts'[r].decidedBy = Nobody
        /\ receipts'[r].createdBy = u /\ receipts'[r].amount = a /\ receipts'[r].reversed = 0
        /\ a \in Nat \ {0} /\ u # Nobody
    BY <1>2, AmountsAssumption, NobodyAssumption DEF NovoRecebimento
  <2>2. SegregationOfDuties'
    BY <1>2, <2>1 DEF SegregationOfDuties
  <2>3. CheckedOnlyWhenApproved'
    BY <1>0, <1>2, <2>1 DEF CheckedOnlyWhenApproved, TypeOK
  <2>4. SubmittedHasReceipt => SubmittedHasReceipt'
    BY <1>2 DEF SubmittedHasReceipt, Declarados
  <2>5. ReversedWithinReceipt'
    BY <1>2, <2>1 DEF ReversedWithinReceipt
  <2> QED  BY <1>0, <2>2, <2>3, <2>4, <2>5
<1>3. ASSUME NEW p \in Proposals, NEW c \in Commissions, NEW r \in Receipts, NEW u \in Users,
             NEW a \in Amounts, CreateProposalWithReceipt(p, c, r, u, a)
      PROVE  AnalysisKept
  <2>1. /\ DOMAIN proposals' = DOMAIN proposals \union {p}
        /\ \A x \in DOMAIN proposals : proposals'[x] = proposals[x]
        /\ proposals'[p] = NovaProposta(c)
        /\ r \notin DOMAIN receipts
        /\ DOMAIN receipts' = DOMAIN receipts \union {r}
        /\ receipts'[r] = NovoRecebimento(p, u, a)
        /\ \A x \in DOMAIN receipts : receipts'[x] = receipts[x]
    BY <1>0, <1>3, CreateEffects
  <2>2. proposals'[p].approval = "DRAFT"
    BY <2>1 DEF NovaProposta
  <2> QED  BY <1>2, <2>1, <2>2
<1>4. ASSUME NEW p \in DOMAIN proposals, OnlyProposal(p), receipts' = receipts,
             /\ proposals[p].approval # "APPROVED" \/ proposals'[p].approval = "APPROVED"
             /\ SubmittedHasReceipt /\ proposals'[p].approval = "SUBMITTED" =>
                    Declarados(receipts, p) # {}
      PROVE  AnalysisKept
  <2>1. CheckedOnlyWhenApproved'
    BY <1>0, <1>4 DEF CheckedOnlyWhenApproved, OnlyProposal, TypeOK
  <2>2. SubmittedHasReceipt => SubmittedHasReceipt'
    BY <1>4 DEF SubmittedHasReceipt, OnlyProposal
  <2>3. SegregationOfDuties' /\ ReversedWithinReceipt'
    BY <1>4 DEF SegregationOfDuties, ReversedWithinReceipt
  <2> QED  BY <1>0, <2>1, <2>2, <2>3
<1>5. ASSUME NEW p \in DOMAIN proposals, NEW c \in Commissions, UpdateProposal(p, c)
      PROVE  AnalysisKept
  BY <1>4, <1>5, ProposalCommandEffects DEF SubmittedHasReceipt
<1>6. ASSUME NEW p \in DOMAIN proposals, SubmitProposal(p) PROVE AnalysisKept
  BY <1>4, <1>6, ProposalCommandEffects
<1>7. ASSUME NEW p \in DOMAIN proposals, RejectProposal(p) PROVE AnalysisKept
  BY <1>4, <1>7, ProposalCommandEffects
<1>8. ASSUME NEW p \in DOMAIN proposals, CancelProposal(p) PROVE AnalysisKept
  BY <1>4, <1>8, ProposalCommandEffects DEF SubmittedHasReceipt
<1>9. ASSUME NEW p \in DOMAIN proposals, NEW u \in Users, ApproveProposal(p, u)
      PROVE  AnalysisKept
  <2>1. /\ OnlyProposal(p) /\ proposals'[p].approval = "APPROVED"
        /\ DOMAIN receipts' = DOMAIN receipts
        /\ \A r \in DOMAIN receipts :
               IF receipts[r].proposal = p /\ receipts[r].status = "SUBMITTED"
               THEN /\ receipts[r].createdBy # u
                    /\ receipts'[r] = [receipts[r] EXCEPT !.status = "APPROVED", !.decidedBy = u]
               ELSE receipts'[r] = receipts[r]
    BY <1>9, ApproveEffects
  <2>2. \A r \in DOMAIN receipts :
            /\ receipts'[r].proposal = receipts[r].proposal
            /\ receipts'[r].createdBy = receipts[r].createdBy
            /\ receipts'[r].amount = receipts[r].amount
            /\ receipts'[r].reversed = receipts[r].reversed
            /\ \/ receipts'[r] = receipts[r]
               \/ /\ receipts[r].proposal = p /\ receipts[r].createdBy # u
                  /\ receipts'[r].status = "APPROVED" /\ receipts'[r].decidedBy = u
    BY <1>0, <2>1 DEF TypeOK, ReceiptRow
  <2>3. SegregationOfDuties'
    BY <2>1, <2>2 DEF SegregationOfDuties
  <2>4. CheckedOnlyWhenApproved'
    <3> SUFFICES ASSUME NEW x \in DOMAIN receipts, receipts'[x].status # "SUBMITTED"
                 PROVE  proposals'[receipts'[x].proposal].approval = "APPROVED"
      BY <2>1 DEF CheckedOnlyWhenApproved
    <3>1. receipts[x].proposal \in DOMAIN proposals /\ receipts'[x].proposal = receipts[x].proposal
      BY <1>0, <2>2 DEF TypeOK
    <3>2. CASE receipts[x].proposal = p
      BY <2>1, <3>1, <3>2
    <3>3. CASE receipts[x].proposal # p
      <4>1. receipts'[x] = receipts[x]
        BY <2>1, <3>3
      <4>2. proposals'[receipts[x].proposal] = proposals[receipts[x].proposal]
        BY <2>1, <3>1, <3>3 DEF OnlyProposal
      <4> QED  BY <3>1, <4>1, <4>2 DEF CheckedOnlyWhenApproved
    <3> QED  BY <3>2, <3>3
  <2>5. SubmittedHasReceipt => SubmittedHasReceipt'
    <3> SUFFICES ASSUME SubmittedHasReceipt, NEW x \in DOMAIN proposals,
                        proposals'[x].approval = "SUBMITTED"
                 PROVE  Declarados(receipts, x) \subseteq Declarados(receipts', x)
      BY <2>1 DEF SubmittedHasReceipt, OnlyProposal
    <3>1. x # p
      BY <2>1
    <3> QED  BY <2>1, <3>1 DEF Declarados
  <2>6. ReversedWithinReceipt'
    BY <2>1, <2>2 DEF ReversedWithinReceipt
  <2> QED  BY <1>0, <2>3, <2>4, <2>5, <2>6
<1>10. ASSUME NEW r \in Receipts, NEW p \in DOMAIN proposals, NEW u \in Users,
              NEW a \in Amounts, CreateReceipt(r, p, u, a)
       PROVE  AnalysisKept
  <2>1. p \in Proposals
    BY <1>0 DEF TypeOK
  <2>2. /\ r \notin DOMAIN receipts /\ proposals' = proposals
        /\ DOMAIN receipts' = DOMAIN receipts \union {r}
        /\ receipts'[r] = NovoRecebimento(p, u, a)
        /\ \A x \in DOMAIN receipts : receipts'[x] = receipts[x]
    BY <1>0, <1>10, DeclareEffects
  <2> QED  BY <1>2, <2>1, <2>2
<1>11. ASSUME NEW r \in DOMAIN receipts, NEW u \in Users, NEW approve \in BOOLEAN,
              DecideReceipt(r, u, approve)
       PROVE  AnalysisKept
  <2> DEFINE p == receipts[r].proposal
  <2>1. /\ p \in DOMAIN proposals /\ OnlyProposal(p)
        /\ proposals[p].approval = "APPROVED" /\ proposals'[p].approval = "APPROVED"
        /\ OnlyReceipt(r)
        /\ receipts[r].status = "SUBMITTED" /\ receipts[r].createdBy # u
        /\ receipts'[r].decidedBy = u /\ receipts'[r].createdBy = receipts[r].createdBy
        /\ receipts'[r].proposal = p
        /\ receipts'[r].amount = receipts[r].amount
        /\ receipts'[r].reversed = receipts[r].reversed
    BY <1>0, <1>11, DecideEffects, Recalculation
  <2>2. SegregationOfDuties'
    BY <2>1 DEF SegregationOfDuties, OnlyReceipt
  <2>3. CheckedOnlyWhenApproved'
    BY <1>0, <2>1 DEF CheckedOnlyWhenApproved, OnlyProposal, OnlyReceipt, TypeOK
  <2>4. SubmittedHasReceipt => SubmittedHasReceipt'
    BY <2>1 DEF SubmittedHasReceipt, OnlyProposal, OnlyReceipt, Declarados
  <2>5. ReversedWithinReceipt'
    BY <2>1 DEF ReversedWithinReceipt, OnlyReceipt
  <2> QED  BY <1>0, <2>2, <2>3, <2>4, <2>5
<1>12. ASSUME NEW r \in DOMAIN receipts, RemoveReceipt(r) PROVE AnalysisKept
  <2>1. /\ proposals' = proposals
        /\ proposals[receipts[r].proposal].approval # "SUBMITTED"
        /\ DOMAIN receipts' = DOMAIN receipts \ {r}
        /\ \A x \in DOMAIN receipts' : receipts'[x] = receipts[x]
    BY <1>0, <1>12, DeclareEffects
  <2>2. SegregationOfDuties' /\ CheckedOnlyWhenApproved' /\ ReversedWithinReceipt'
    BY <2>1 DEF SegregationOfDuties, CheckedOnlyWhenApproved, ReversedWithinReceipt
  <2>3. SubmittedHasReceipt => SubmittedHasReceipt'
    BY <2>1 DEF SubmittedHasReceipt, Declarados
  <2> QED  BY <1>0, <2>2, <2>3
<1>13. ASSUME NEW r \in DOMAIN receipts, NEW a \in 1..receipts[r].amount, ReverseReceipt(r, a)
       PROVE  AnalysisKept
  <2> DEFINE p == receipts[r].proposal
  <2>1. /\ p \in DOMAIN proposals /\ OnlyProposal(p)
        /\ proposals'[p].approval = proposals[p].approval
        /\ OnlyReceipt(r)
        /\ receipts[r].status = "APPROVED"
        /\ receipts[r].reversed + a <= receipts[r].amount
        /\ receipts'[r] = [receipts[r] EXCEPT !.reversed = receipts[r].reversed + a]
    BY <1>0, <1>13, ReverseEffects, Recalculation
  <2>2. /\ receipts'[r].decidedBy = receipts[r].decidedBy
        /\ receipts'[r].createdBy = receipts[r].createdBy
        /\ receipts'[r].proposal = p /\ receipts'[r].status = "APPROVED"
        /\ receipts'[r].amount = receipts[r].amount
        /\ receipts'[r].reversed = receipts[r].reversed + a
    BY <1>0, <2>1 DEF TypeOK, ReceiptRow
  <2>3. SegregationOfDuties'
    BY <2>1, <2>2 DEF SegregationOfDuties, OnlyReceipt
  <2>4. CheckedOnlyWhenApproved'
    <3> SUFFICES ASSUME NEW x \in DOMAIN receipts, receipts'[x].status # "SUBMITTED"
                 PROVE  proposals'[receipts'[x].proposal].approval = "APPROVED"
      BY <2>1 DEF CheckedOnlyWhenApproved, OnlyReceipt
    <3>1. /\ receipts'[x].proposal = receipts[x].proposal
          /\ receipts[x].proposal \in DOMAIN proposals
          /\ receipts[x].status # "SUBMITTED"
      BY <1>0, <2>1, <2>2 DEF OnlyReceipt, TypeOK
    <3> QED  BY <2>1, <3>1 DEF CheckedOnlyWhenApproved, OnlyProposal
  <2>5. SubmittedHasReceipt => SubmittedHasReceipt'
    BY <2>1, <2>2 DEF SubmittedHasReceipt, OnlyProposal, OnlyReceipt, Declarados
  <2>6. ReversedWithinReceipt'
    BY <2>1, <2>2 DEF ReversedWithinReceipt, OnlyReceipt
  <2> QED  BY <1>0, <2>3, <2>4, <2>5, <2>6
<1>14. CASE UNCHANGED vars
  BY <1>0, <1>14 DEF vars, SegregationOfDuties, CheckedOnlyWhenApproved, SubmittedHasReceipt,
                     ReversedWithinReceipt, Declarados
<1> QED
  BY <1>1, <1>3, <1>5, <1>6, <1>7, <1>8, <1>9, <1>10, <1>11, <1>12, <1>13, <1>14
     DEF Next, NextProposal, NextReceipt

LEMMA AnalysisInvariant == Spec => []AnalysisInv
<1>1. Init => AnalysisInv
  BY DEF Init, AnalysisInv, DutiesInv, TypeOK, EmptyTable, SegregationOfDuties,
         CheckedOnlyWhenApproved, SubmittedHasReceipt, ReversedWithinReceipt
<1>2. AnalysisInv /\ [Next]_vars => AnalysisInv'
  BY AnalysisInductive DEF AnalysisInv, AnalysisKept
<1> QED  BY <1>1, <1>2, PTL DEF Spec

\* Nobody ever checks a receipt he declared.
THEOREM DutiesSegregated == Spec => []SegregationOfDuties
<1>1. AnalysisInv => SegregationOfDuties
  BY DEF AnalysisInv, DutiesInv
<1> QED  BY <1>1, AnalysisInvariant, PTL

\* No receipt is decided before its proposal is approved.
THEOREM CheckedAfterApproval == Spec => []CheckedOnlyWhenApproved
<1>1. AnalysisInv => CheckedOnlyWhenApproved
  BY DEF AnalysisInv, DutiesInv
<1> QED  BY <1>1, AnalysisInvariant, PTL

\* A proposal under analysis never loses its last declared receipt.
THEOREM AnalysisNeverEmpty == Spec => []SubmittedHasReceipt
<1>1. AnalysisInv => SubmittedHasReceipt
  BY DEF AnalysisInv, DutiesInv
<1> QED  BY <1>1, AnalysisInvariant, PTL

\* Any number of partial reversals stays within the receipt.
THEOREM ReversalsBounded == Spec => []ReversedWithinReceipt
<1>1. AnalysisInv => ReversedWithinReceipt
  BY DEF AnalysisInv, DutiesInv
<1> QED  BY <1>1, AnalysisInvariant, PTL

-----------------------------------------------------------------------------
(***************************************************************************)
(* The cached total.  It is right because a step either recalculates it    *)
(* from the receipts it leaves, or leaves the recognised receipts of the   *)
(* proposal as they were.                                                  *)
(***************************************************************************)

\* The total only reads the recognised receipts and what is left of each.
LEMMA SameTotal ==
    ASSUME NEW recs, NEW recs2, NEW p,
           Reconhecidos(recs, p) = Reconhecidos(recs2, p),
           \A r \in Reconhecidos(recs, p) : recs[r] = recs2[r]
    PROVE  Total(recs, p) = Total(recs2, p)
<1>1. Liquidos(recs, p) = Liquidos(recs2, p)
  BY DEF Liquidos, Liquido
<1> QED  BY <1>1 DEF Total

\* Nothing recognised is a total of zero.
LEMMA EmptyTotal ==
    ASSUME NEW recs, NEW p, Reconhecidos(recs, p) = {}
    PROVE  Total(recs, p) = 0
<1> DEFINE f == Liquidos(recs, p)
           D == DOMAIN f
           step(g, s) == IF s = {} THEN 0
                         ELSE f[CHOOSE x \in s : TRUE] + g[s \ {CHOOSE x \in s : TRUE}]
           iter == CHOOSE g : g = [s \in SUBSET D |-> step(g, s)]
<1>1. D = {}
  BY DEF Liquidos
<1>2. Total(recs, p) = iter[D]
  BY DEF Total, Soma, FoldFunction, FoldFunctionOnSet, MapThenFoldSet
<1> HIDE DEF D
<1>3. \E g : g = [s \in SUBSET D |-> step(g, s)]
  <2>1. [s \in SUBSET D |-> 0] = [s \in SUBSET D |-> step([z \in SUBSET D |-> 0], s)]
    BY <1>1
  <2> QED  BY <2>1
<1>4. iter = [s \in SUBSET D |-> step(iter, s)]
  BY <1>3
<1>5. iter[D] = step(iter, D)
  BY <1>4
<1> QED  BY <1>1, <1>2, <1>5

\* A step that neither recognises nor touches a recognised receipt of the
\* proposal leaves its total alone.
LEMMA TotalKept ==
    ASSUME NEW p,
           \A r \in DOMAIN receipts :
               receipts[r].proposal = p /\ receipts[r].status = "APPROVED" =>
                   r \in DOMAIN receipts' /\ receipts'[r] = receipts[r],
           \A r \in DOMAIN receipts' :
               receipts'[r].proposal = p /\ receipts'[r].status = "APPROVED" =>
                   r \in DOMAIN receipts /\ receipts'[r] = receipts[r]
    PROVE  Total(receipts', p) = Total(receipts, p)
<1>1. Reconhecidos(receipts', p) = Reconhecidos(receipts, p)
  BY DEF Reconhecidos
<1>2. \A r \in Reconhecidos(receipts', p) : receipts'[r] = receipts[r]
  BY DEF Reconhecidos
<1> QED  BY <1>1, <1>2, SameTotal

MoneyInv == TypeOK /\ PaidCacheConsistent

LEMMA MoneyInductive == MoneyInv /\ [Next]_vars => MoneyInv'
<1> SUFFICES ASSUME MoneyInv, [Next]_vars PROVE PaidCacheConsistent'
  BY TypeInductive DEF MoneyInv
<1>0. TypeOK /\ PaidCacheConsistent
  BY DEF MoneyInv
<1>1. ASSUME NEW p \in Proposals, NEW c \in Commissions, CreateProposal(p, c)
      PROVE  PaidCacheConsistent'
  <2>1. /\ p \notin DOMAIN proposals /\ DOMAIN proposals' = DOMAIN proposals \union {p}
        /\ \A x \in DOMAIN proposals : proposals'[x] = proposals[x]
        /\ proposals'[p] = NovaProposta(c) /\ receipts' = receipts
    BY <1>0, <1>1, CreateEffects
  <2>2. proposals'[p].paid = 0
    BY <2>1 DEF NovaProposta
  <2>3. Reconhecidos(receipts', p) = {}
    BY <1>0, <2>1 DEF Reconhecidos, TypeOK
  <2>4. Total(receipts', p) = 0
    BY <2>3, EmptyTotal
  <2> QED  BY <1>0, <2>1, <2>2, <2>4 DEF PaidCacheConsistent
<1>2. ASSUME NEW r \in Receipts, NEW p, NEW u, NEW a, r \notin DOMAIN receipts,
             DOMAIN receipts' = DOMAIN receipts \union {r},
             receipts'[r] = NovoRecebimento(p, u, a),
             \A x \in DOMAIN receipts : receipts'[x] = receipts[x]
      PROVE  \A x : Total(receipts', x) = Total(receipts, x)
  <2>1. receipts'[r].status = "SUBMITTED"
    BY <1>2 DEF NovoRecebimento
  <2> QED  BY <1>2, <2>1, TotalKept
<1>3. ASSUME NEW p \in Proposals, NEW c \in Commissions, NEW r \in Receipts, NEW u \in Users,
             NEW a \in Amounts, CreateProposalWithReceipt(p, c, r, u, a)
      PROVE  PaidCacheConsistent'
  <2>1. /\ p \notin DOMAIN proposals /\ DOMAIN proposals' = DOMAIN proposals \union {p}
        /\ \A x \in DOMAIN proposals : proposals'[x] = proposals[x]
        /\ proposals'[p] = NovaProposta(c)
        /\ r \notin DOMAIN receipts /\ DOMAIN receipts' = DOMAIN receipts \union {r}
        /\ receipts'[r] = NovoRecebimento(p, u, a)
        /\ \A x \in DOMAIN receipts : receipts'[x] = receipts[x]
    BY <1>0, <1>3, CreateEffects
  <2>2. \A x : Total(receipts', x) = Total(receipts, x)
    BY <1>2, <2>1
  <2>3. proposals'[p].paid = 0
    BY <2>1 DEF NovaProposta
  <2>4. Reconhecidos(receipts, p) = {}
    BY <1>0, <2>1 DEF Reconhecidos, TypeOK
  <2>5. Total(receipts, p) = 0
    BY <2>4, EmptyTotal
  <2> QED  BY <1>0, <2>1, <2>2, <2>3, <2>5 DEF PaidCacheConsistent
<1>4. ASSUME NEW p \in DOMAIN proposals, OnlyProposal(p), receipts' = receipts,
             proposals'[p].paid = proposals[p].paid
      PROVE  PaidCacheConsistent'
  BY <1>0, <1>4 DEF PaidCacheConsistent, OnlyProposal
<1>5. ASSUME NEW p \in DOMAIN proposals, NEW c \in Commissions, UpdateProposal(p, c)
      PROVE  PaidCacheConsistent'
  BY <1>0, <1>4, <1>5, ProposalCommandEffects
<1>6. ASSUME NEW p \in DOMAIN proposals, SubmitProposal(p) PROVE PaidCacheConsistent'
  BY <1>0, <1>4, <1>6, ProposalCommandEffects
<1>7. ASSUME NEW p \in DOMAIN proposals, RejectProposal(p) PROVE PaidCacheConsistent'
  BY <1>0, <1>4, <1>7, ProposalCommandEffects
<1>8. ASSUME NEW p \in DOMAIN proposals, CancelProposal(p) PROVE PaidCacheConsistent'
  BY <1>0, <1>4, <1>8, ProposalCommandEffects
<1>9. ASSUME NEW p \in DOMAIN proposals, NEW u \in Users, ApproveProposal(p, u)
      PROVE  PaidCacheConsistent'
  <2>1. /\ OnlyProposal(p) /\ proposals'[p].paid = Total(receipts', p)
        /\ DOMAIN receipts' = DOMAIN receipts
        /\ \A r \in DOMAIN receipts :
               IF receipts[r].proposal = p /\ receipts[r].status = "SUBMITTED"
               THEN /\ receipts[r].createdBy # u
                    /\ receipts'[r] = [receipts[r] EXCEPT !.status = "APPROVED", !.decidedBy = u]
               ELSE receipts'[r] = receipts[r]
    BY <1>0, <1>9, ApproveEffects
  <2>2. \A r \in DOMAIN receipts :
            receipts[r].proposal # p =>
                receipts'[r] = receipts[r]
    BY <2>1
  <2>3. \A r \in DOMAIN receipts : receipts'[r].proposal = receipts[r].proposal
    BY <1>0, <2>1 DEF TypeOK, ReceiptRow
  <2>4. ASSUME NEW x, x # p PROVE Total(receipts', x) = Total(receipts, x)
    <3>1. DOMAIN receipts' = DOMAIN receipts
      BY <2>1
    <3>2. \A r \in DOMAIN receipts : receipts[r].proposal = x => receipts'[r] = receipts[r]
      BY <2>2, <2>4
    <3>3. \A r \in DOMAIN receipts' : receipts'[r].proposal = x => receipts'[r] = receipts[r]
      BY <2>3, <3>1, <3>2
    <3> QED  BY <3>1, <3>2, <3>3, TotalKept
  <2> QED  BY <1>0, <2>1, <2>4 DEF PaidCacheConsistent, OnlyProposal
<1>10. ASSUME NEW r \in Receipts, NEW p \in DOMAIN proposals, NEW u \in Users,
              NEW a \in Amounts, CreateReceipt(r, p, u, a)
       PROVE  PaidCacheConsistent'
  <2>1. /\ proposals' = proposals
        /\ r \notin DOMAIN receipts /\ DOMAIN receipts' = DOMAIN receipts \union {r}
        /\ receipts'[r] = NovoRecebimento(p, u, a)
        /\ \A x \in DOMAIN receipts : receipts'[x] = receipts[x]
    BY <1>0, <1>10, DeclareEffects
  <2>2. \A x : Total(receipts', x) = Total(receipts, x)
    BY <1>2, <2>1
  <2> QED  BY <1>0, <2>1, <2>2 DEF PaidCacheConsistent
<1>11. ASSUME NEW r \in DOMAIN receipts, OnlyReceipt(r),
              receipts'[r].proposal = receipts[r].proposal,
              proposals' = [proposals EXCEPT ![receipts[r].proposal] =
                               Recalculada(@, receipts', receipts[r].proposal)]
       PROVE  PaidCacheConsistent'
  <2> DEFINE p == receipts[r].proposal
  <2>1. p \in DOMAIN proposals /\ OnlyProposal(p) /\ proposals'[p].paid = Total(receipts', p)
    BY <1>0, <1>11, Recalculation
  <2>2. \A x : x # p => Total(receipts', x) = Total(receipts, x)
    BY <1>11, TotalKept DEF OnlyReceipt
  <2> QED  BY <1>0, <2>1, <2>2 DEF PaidCacheConsistent, OnlyProposal
<1>12. ASSUME NEW r \in DOMAIN receipts, NEW u \in Users, NEW approve \in BOOLEAN,
              DecideReceipt(r, u, approve)
       PROVE  PaidCacheConsistent'
  BY <1>0, <1>11, <1>12, DecideEffects
<1>13. ASSUME NEW r \in DOMAIN receipts, RemoveReceipt(r) PROVE PaidCacheConsistent'
  <2>1. /\ proposals' = proposals
        /\ receipts[r].status = "SUBMITTED"
        /\ DOMAIN receipts' = DOMAIN receipts \ {r}
        /\ \A x \in DOMAIN receipts' : receipts'[x] = receipts[x]
    BY <1>0, <1>13, DeclareEffects
  <2>2. \A x : Total(receipts', x) = Total(receipts, x)
    BY <2>1, TotalKept
  <2> QED  BY <1>0, <2>1, <2>2 DEF PaidCacheConsistent
<1>14. ASSUME NEW r \in DOMAIN receipts, NEW a \in 1..receipts[r].amount, ReverseReceipt(r, a)
       PROVE  PaidCacheConsistent'
  <2>1. /\ OnlyReceipt(r)
        /\ receipts'[r] = [receipts[r] EXCEPT !.reversed = receipts[r].reversed + a]
        /\ proposals' = [proposals EXCEPT ![receipts[r].proposal] =
                            Recalculada(@, receipts', receipts[r].proposal)]
    BY <1>0, <1>14, ReverseEffects
  <2>2. receipts'[r].proposal = receipts[r].proposal
    BY <1>0, <2>1 DEF TypeOK, ReceiptRow
  <2> QED  BY <1>11, <2>1, <2>2
<1>15. CASE UNCHANGED vars
  BY <1>0, <1>15 DEF vars, PaidCacheConsistent
<1> QED
  BY <1>1, <1>3, <1>5, <1>6, <1>7, <1>8, <1>9, <1>10, <1>12, <1>13, <1>14, <1>15
     DEF Next, NextProposal, NextReceipt

LEMMA MoneyInvariant == Spec => []MoneyInv
<1>1. Init => MoneyInv
  BY DEF Init, MoneyInv, TypeOK, EmptyTable, PaidCacheConsistent
<1>2. MoneyInv /\ [Next]_vars => MoneyInv'
  BY MoneyInductive
<1> QED  BY <1>1, <1>2, PTL DEF Spec

\* The cached total of every proposal is the sum of its recognised receipts.
THEOREM PaidCacheRight == Spec => []PaidCacheConsistent
<1>1. MoneyInv => PaidCacheConsistent
  BY DEF MoneyInv
<1> QED  BY <1>1, MoneyInvariant, PTL

-----------------------------------------------------------------------------
(***************************************************************************)
(* The cash status, row by row.                                            *)
(***************************************************************************)

StatusOfRow(row) ==
    IF row.status = "CANCELLED"
    THEN row.paid = 0
    ELSE \/ row.status = StatusPara(row.commission, row.paid)
         \/ row.status = "OPEN" /\ row.paid = 0

StatusInv ==
    /\ TypeOK
    /\ PaidCacheConsistent
    /\ \A p \in DOMAIN proposals : StatusOfRow(proposals[p])

LEMMA StatusParaActive == \A e, x : StatusPara(e, x) # "CANCELLED"
BY DEF StatusPara, Classificar

LEMMA StatusInductive == StatusInv /\ [Next]_vars => StatusInv'
<1> SUFFICES ASSUME StatusInv, [Next]_vars
             PROVE  \A p \in DOMAIN proposals' : StatusOfRow(proposals'[p])
  BY TypeInductive, MoneyInductive DEF StatusInv, MoneyInv
<1>0. TypeOK /\ \A p \in DOMAIN proposals : StatusOfRow(proposals[p])
  BY DEF StatusInv
<1>1. ASSUME NEW p, DOMAIN proposals' = DOMAIN proposals \union {p},
             \A x \in DOMAIN proposals : x # p => proposals'[x] = proposals[x],
             StatusOfRow(proposals'[p])
      PROVE  \A x \in DOMAIN proposals' : StatusOfRow(proposals'[x])
  BY <1>0, <1>1
<1>2. \A c \in Commissions : StatusOfRow(NovaProposta(c))
  BY DEF StatusOfRow, NovaProposta
<1>3. ASSUME NEW p \in Proposals, NEW c \in Commissions, CreateProposal(p, c)
      PROVE  \A x \in DOMAIN proposals' : StatusOfRow(proposals'[x])
  <2>1. /\ DOMAIN proposals' = DOMAIN proposals \union {p}
        /\ \A x \in DOMAIN proposals : proposals'[x] = proposals[x]
        /\ proposals'[p] = NovaProposta(c)
    BY <1>0, <1>3, CreateEffects
  <2> QED  BY <1>1, <1>2, <2>1
<1>4. ASSUME NEW p \in Proposals, NEW c \in Commissions, NEW r \in Receipts, NEW u \in Users,
             NEW a \in Amounts, CreateProposalWithReceipt(p, c, r, u, a)
      PROVE  \A x \in DOMAIN proposals' : StatusOfRow(proposals'[x])
  <2>1. /\ DOMAIN proposals' = DOMAIN proposals \union {p}
        /\ \A x \in DOMAIN proposals : proposals'[x] = proposals[x]
        /\ proposals'[p] = NovaProposta(c)
    BY <1>0, <1>4, CreateEffects
  <2> QED  BY <1>1, <1>2, <2>1
<1>5. ASSUME NEW p \in DOMAIN proposals, OnlyProposal(p), StatusOfRow(proposals'[p])
      PROVE  \A x \in DOMAIN proposals' : StatusOfRow(proposals'[x])
  BY <1>1, <1>5 DEF OnlyProposal
<1>6. ASSUME NEW p \in DOMAIN proposals, NEW c \in Commissions, UpdateProposal(p, c)
      PROVE  \A x \in DOMAIN proposals' : StatusOfRow(proposals'[x])
  <2>1. /\ OnlyProposal(p) /\ proposals'[p].commission = c
        /\ proposals'[p].paid = proposals[p].paid
        /\ proposals'[p].status = StatusPara(c, proposals[p].paid)
    BY <1>0, <1>6, ProposalCommandEffects
  <2>2. StatusOfRow(proposals'[p])
    BY <2>1, StatusParaActive DEF StatusOfRow
  <2> QED  BY <1>5, <2>1, <2>2
<1>7. ASSUME NEW p \in DOMAIN proposals, OnlyProposal(p),
             proposals'[p].commission = proposals[p].commission,
             proposals'[p].paid = proposals[p].paid,
             proposals'[p].status = proposals[p].status
      PROVE  \A x \in DOMAIN proposals' : StatusOfRow(proposals'[x])
  <2>1. StatusOfRow(proposals'[p])
    BY <1>0, <1>7 DEF StatusOfRow
  <2> QED  BY <1>5, <1>7, <2>1
<1>8. ASSUME NEW p \in DOMAIN proposals, SubmitProposal(p)
      PROVE  \A x \in DOMAIN proposals' : StatusOfRow(proposals'[x])
  BY <1>0, <1>7, <1>8, ProposalCommandEffects
<1>9. ASSUME NEW p \in DOMAIN proposals, RejectProposal(p)
      PROVE  \A x \in DOMAIN proposals' : StatusOfRow(proposals'[x])
  BY <1>0, <1>7, <1>9, ProposalCommandEffects
<1>10. ASSUME NEW p \in DOMAIN proposals, CancelProposal(p)
       PROVE  \A x \in DOMAIN proposals' : StatusOfRow(proposals'[x])
  <2>1. /\ OnlyProposal(p) /\ proposals'[p].status = "CANCELLED" /\ proposals'[p].paid = 0
    BY <1>0, <1>10, ProposalCommandEffects
  <2>2. StatusOfRow(proposals'[p])
    BY <2>1 DEF StatusOfRow
  <2> QED  BY <1>5, <2>1, <2>2
<1>11. ASSUME NEW p \in DOMAIN proposals, NEW t, OnlyProposal(p),
              proposals'[p].commission = proposals[p].commission,
              proposals'[p].paid = t,
              proposals'[p].status = StatusPara(proposals[p].commission, t)
       PROVE  \A x \in DOMAIN proposals' : StatusOfRow(proposals'[x])
  <2>1. StatusOfRow(proposals'[p])
    BY <1>11, StatusParaActive DEF StatusOfRow
  <2> QED  BY <1>5, <1>11, <2>1
<1>12. ASSUME NEW p \in DOMAIN proposals, NEW u \in Users, ApproveProposal(p, u)
       PROVE  \A x \in DOMAIN proposals' : StatusOfRow(proposals'[x])
  BY <1>0, <1>11, <1>12, ApproveEffects
<1>13. ASSUME NEW r \in DOMAIN receipts,
              proposals' = [proposals EXCEPT ![receipts[r].proposal] =
                               Recalculada(@, receipts', receipts[r].proposal)]
       PROVE  \A x \in DOMAIN proposals' : StatusOfRow(proposals'[x])
  BY <1>0, <1>11, <1>13, Recalculation
<1>14. ASSUME NEW r \in DOMAIN receipts, NEW u \in Users, NEW approve \in BOOLEAN,
              DecideReceipt(r, u, approve)
       PROVE  \A x \in DOMAIN proposals' : StatusOfRow(proposals'[x])
  BY <1>0, <1>13, <1>14, DecideEffects
<1>15. ASSUME NEW r \in DOMAIN receipts, NEW a \in 1..receipts[r].amount, ReverseReceipt(r, a)
       PROVE  \A x \in DOMAIN proposals' : StatusOfRow(proposals'[x])
  BY <1>0, <1>13, <1>15, ReverseEffects
<1>16. ASSUME proposals' = proposals
       PROVE  \A x \in DOMAIN proposals' : StatusOfRow(proposals'[x])
  BY <1>0, <1>16
<1>17. ASSUME NEW r \in Receipts, NEW p \in DOMAIN proposals, NEW u \in Users,
              NEW a \in Amounts, CreateReceipt(r, p, u, a)
       PROVE  \A x \in DOMAIN proposals' : StatusOfRow(proposals'[x])
  BY <1>16, <1>17 DEF CreateReceipt
<1>18. ASSUME NEW r \in DOMAIN receipts, RemoveReceipt(r)
       PROVE  \A x \in DOMAIN proposals' : StatusOfRow(proposals'[x])
  BY <1>16, <1>18 DEF RemoveReceipt
<1>19. CASE UNCHANGED vars
  BY <1>16, <1>19 DEF vars
<1> QED
  BY <1>3, <1>4, <1>6, <1>8, <1>9, <1>10, <1>12, <1>14, <1>15, <1>17, <1>18, <1>19
     DEF Next, NextProposal, NextReceipt

LEMMA StatusInvariant == Spec => []StatusInv
<1>1. Init => StatusInv
  BY DEF Init, StatusInv, TypeOK, EmptyTable, PaidCacheConsistent
<1>2. StatusInv /\ [Next]_vars => StatusInv'
  BY StatusInductive
<1> QED  BY <1>1, <1>2, PTL DEF Spec

\* The cash status always follows the commission and the total.
THEOREM StatusRight == Spec => []StatusFollowsMoney
<1>1. StatusInv => StatusFollowsMoney
  BY DEF StatusInv, StatusOfRow, StatusFollowsMoney, Ativa
<1> QED  BY <1>1, StatusInvariant, PTL

\* Cancelling never strands money, before or after.
THEOREM CancelledIsEmpty == Spec => []CancelledHoldsNoMoney
<1>1. StatusInv => CancelledHoldsNoMoney
  BY DEF StatusInv, StatusOfRow, PaidCacheConsistent, CancelledHoldsNoMoney
<1> QED  BY <1>1, StatusInvariant, PTL

-----------------------------------------------------------------------------
(***************************************************************************)
(* Action properties.                                                      *)
(***************************************************************************)

\* The two facts about one step, without the box.
FrozenStep ==
    \A p \in DOMAIN proposals :
        proposals[p].approval = "SUBMITTED" =>
            IF proposals'[p].approval = "APPROVED"
            THEN Reconhecidos(receipts', p) =
                     Reconhecidos(receipts, p) \union Declarados(receipts, p)
            ELSE Declarados(receipts', p) = Declarados(receipts, p)

PermanentStep ==
    /\ \A r \in DOMAIN receipts :
           receipts[r].status = "APPROVED" =>
               /\ r \in DOMAIN receipts'
               /\ receipts'[r].reversed >= receipts[r].reversed
               /\ receipts'[r] = [receipts[r] EXCEPT !.reversed = receipts'[r].reversed]
    /\ \A p \in DOMAIN proposals :
           proposals[p].approval = "APPROVED" => proposals'[p].approval = "APPROVED"

LEMMA PermanentInductive == TypeOK /\ [Next]_vars => PermanentStep
<1> SUFFICES ASSUME TypeOK, [Next]_vars PROVE PermanentStep
  OBVIOUS
<1>1. \A r \in DOMAIN receipts :
          /\ receipts[r].reversed >= receipts[r].reversed
          /\ receipts[r] = [receipts[r] EXCEPT !.reversed = receipts[r].reversed]
  BY DEF TypeOK, ReceiptRow
<1>2. ASSUME \A r \in DOMAIN receipts :
                 receipts[r].status = "APPROVED" =>
                     r \in DOMAIN receipts' /\ receipts'[r] = receipts[r],
             \A p \in DOMAIN proposals :
                 proposals[p].approval = "APPROVED" => proposals'[p].approval = "APPROVED"
      PROVE  PermanentStep
  BY <1>1, <1>2 DEF PermanentStep
<1>3. ASSUME NEW p \in Proposals, NEW c \in Commissions, CreateProposal(p, c)
      PROVE  PermanentStep
  BY <1>2, <1>3, CreateEffects
<1>4. ASSUME NEW p \in Proposals, NEW c \in Commissions, NEW r \in Receipts, NEW u \in Users,
             NEW a \in Amounts, CreateProposalWithReceipt(p, c, r, u, a)
      PROVE  PermanentStep
  <2>1. /\ \A x \in DOMAIN proposals : proposals'[x] = proposals[x]
        /\ DOMAIN receipts' = DOMAIN receipts \union {r}
        /\ \A x \in DOMAIN receipts : receipts'[x] = receipts[x]
    BY <1>4, CreateEffects
  <2> QED  BY <1>2, <2>1
<1>5. ASSUME NEW p \in DOMAIN proposals, OnlyProposal(p), receipts' = receipts,
             proposals[p].approval = "APPROVED" => proposals'[p].approval = "APPROVED"
      PROVE  PermanentStep
  BY <1>2, <1>5 DEF OnlyProposal
<1>6. ASSUME NEW p \in DOMAIN proposals, NEW c \in Commissions, UpdateProposal(p, c)
      PROVE  PermanentStep
  BY <1>5, <1>6, ProposalCommandEffects
<1>7. ASSUME NEW p \in DOMAIN proposals, SubmitProposal(p) PROVE PermanentStep
  BY <1>5, <1>7, ProposalCommandEffects
<1>8. ASSUME NEW p \in DOMAIN proposals, RejectProposal(p) PROVE PermanentStep
  BY <1>5, <1>8, ProposalCommandEffects
<1>9. ASSUME NEW p \in DOMAIN proposals, CancelProposal(p) PROVE PermanentStep
  BY <1>5, <1>9, ProposalCommandEffects
<1>10. ASSUME NEW p \in DOMAIN proposals, NEW u \in Users, ApproveProposal(p, u)
       PROVE  PermanentStep
  <2>1. /\ OnlyProposal(p) /\ proposals'[p].approval = "APPROVED"
        /\ DOMAIN receipts' = DOMAIN receipts
        /\ \A r \in DOMAIN receipts :
               receipts[r].status = "APPROVED" => receipts'[r] = receipts[r]
    BY <1>10, ApproveEffects
  <2> QED  BY <1>2, <2>1 DEF OnlyProposal
<1>11. ASSUME NEW r \in Receipts, NEW p \in DOMAIN proposals, NEW u \in Users,
              NEW a \in Amounts, CreateReceipt(r, p, u, a)
       PROVE  PermanentStep
  <2>1. /\ proposals' = proposals
        /\ DOMAIN receipts' = DOMAIN receipts \union {r}
        /\ \A x \in DOMAIN receipts : receipts'[x] = receipts[x]
    BY <1>11, DeclareEffects
  <2> QED  BY <1>2, <2>1
<1>12. ASSUME NEW r \in DOMAIN receipts, NEW u \in Users, NEW approve \in BOOLEAN,
              DecideReceipt(r, u, approve)
       PROVE  PermanentStep
  <2>1. /\ OnlyReceipt(r) /\ receipts[r].status = "SUBMITTED"
        /\ OnlyProposal(receipts[r].proposal)
        /\ proposals'[receipts[r].proposal].approval = proposals[receipts[r].proposal].approval
    BY <1>12, DecideEffects, Recalculation
  <2> QED  BY <1>2, <2>1 DEF OnlyReceipt, OnlyProposal
<1>13. ASSUME NEW r \in DOMAIN receipts, RemoveReceipt(r) PROVE PermanentStep
  <2>1. /\ proposals' = proposals /\ receipts[r].status = "SUBMITTED"
        /\ DOMAIN receipts' = DOMAIN receipts \ {r}
        /\ \A x \in DOMAIN receipts' : receipts'[x] = receipts[x]
    BY <1>13, DeclareEffects
  <2> QED  BY <1>2, <2>1
<1>14. ASSUME NEW r \in DOMAIN receipts, NEW a \in 1..receipts[r].amount, ReverseReceipt(r, a)
       PROVE  PermanentStep
  <2>1. /\ OnlyReceipt(r) /\ a \in Nat
        /\ receipts'[r] = [receipts[r] EXCEPT !.reversed = receipts[r].reversed + a]
        /\ OnlyProposal(receipts[r].proposal)
        /\ proposals'[receipts[r].proposal].approval = proposals[receipts[r].proposal].approval
    BY <1>14, ReverseEffects, Recalculation
  <2>2. receipts[r] \in ReceiptRow
    BY DEF TypeOK
  <2>3. /\ receipts'[r].reversed = receipts[r].reversed + a
        /\ receipts'[r].reversed >= receipts[r].reversed
    BY <2>1, <2>2 DEF ReceiptRow
  <2>4. receipts'[r] = [receipts[r] EXCEPT !.reversed = receipts'[r].reversed]
    BY <2>1, <2>3
  <2> QED  BY <1>1, <2>1, <2>3, <2>4 DEF OnlyReceipt, OnlyProposal, PermanentStep
<1>15. CASE UNCHANGED vars
  BY <1>2, <1>15 DEF vars
<1> QED
  BY <1>3, <1>4, <1>6, <1>7, <1>8, <1>9, <1>10, <1>11, <1>12, <1>13, <1>14, <1>15
     DEF Next, NextProposal, NextReceipt

\* Recognised money and given approvals are permanent.
THEOREM RecognitionPermanent == Spec => RecognisedIsPermanent
<1>1. TypeOK /\ [Next]_vars => [PermanentStep]_vars
  BY PermanentInductive
<1> QED  BY <1>1, TypeCorrect, PTL DEF Spec, RecognisedIsPermanent, PermanentStep

LEMMA FrozenInductive == TypeOK /\ [Next]_vars => FrozenStep
<1> SUFFICES ASSUME TypeOK, [Next]_vars PROVE FrozenStep
  OBVIOUS
<1>1. ASSUME NEW x \in DOMAIN proposals, proposals'[x] = proposals[x],
             proposals[x].approval = "SUBMITTED" =>
                 Declarados(receipts', x) = Declarados(receipts, x)
      PROVE  proposals[x].approval = "SUBMITTED" =>
                 IF proposals'[x].approval = "APPROVED"
                 THEN Reconhecidos(receipts', x) =
                          Reconhecidos(receipts, x) \union Declarados(receipts, x)
                 ELSE Declarados(receipts', x) = Declarados(receipts, x)
  BY <1>1
<1>2. ASSUME NEW p \in Proposals, NEW c \in Commissions, CreateProposal(p, c) PROVE FrozenStep
  BY <1>1, <1>2, CreateEffects DEF FrozenStep
<1>3. ASSUME NEW p \in Proposals, NEW c \in Commissions, NEW r \in Receipts, NEW u \in Users,
             NEW a \in Amounts, CreateProposalWithReceipt(p, c, r, u, a)
      PROVE  FrozenStep
  <2>1. /\ p \notin DOMAIN proposals
        /\ \A x \in DOMAIN proposals : proposals'[x] = proposals[x]
        /\ r \notin DOMAIN receipts /\ DOMAIN receipts' = DOMAIN receipts \union {r}
        /\ receipts'[r] = NovoRecebimento(p, u, a)
        /\ \A x \in DOMAIN receipts : receipts'[x] = receipts[x]
    BY <1>3, CreateEffects
  <2>2. receipts'[r].proposal = p
    BY <2>1 DEF NovoRecebimento
  <2>3. \A x \in DOMAIN proposals : Declarados(receipts', x) = Declarados(receipts, x)
    BY <2>1, <2>2 DEF Declarados
  <2> QED  BY <1>1, <2>1, <2>3 DEF FrozenStep
<1>4. ASSUME NEW p \in DOMAIN proposals, OnlyProposal(p), receipts' = receipts,
             proposals[p].approval = "SUBMITTED" => proposals'[p].approval # "APPROVED"
      PROVE  FrozenStep
  BY <1>4 DEF OnlyProposal, FrozenStep
<1>5. ASSUME NEW p \in DOMAIN proposals, NEW c \in Commissions, UpdateProposal(p, c)
      PROVE  FrozenStep
  BY <1>4, <1>5, ProposalCommandEffects
<1>6. ASSUME NEW p \in DOMAIN proposals, SubmitProposal(p) PROVE FrozenStep
  BY <1>4, <1>6, ProposalCommandEffects
<1>7. ASSUME NEW p \in DOMAIN proposals, RejectProposal(p) PROVE FrozenStep
  BY <1>4, <1>7, ProposalCommandEffects
<1>8. ASSUME NEW p \in DOMAIN proposals, CancelProposal(p) PROVE FrozenStep
  BY <1>4, <1>8, ProposalCommandEffects
<1>9. ASSUME NEW p \in DOMAIN proposals, NEW u \in Users, ApproveProposal(p, u)
      PROVE  FrozenStep
  <2>1. /\ OnlyProposal(p) /\ proposals'[p].approval = "APPROVED"
        /\ DOMAIN receipts' = DOMAIN receipts
        /\ \A r \in DOMAIN receipts :
               IF receipts[r].proposal = p /\ receipts[r].status = "SUBMITTED"
               THEN /\ receipts[r].createdBy # u
                    /\ receipts'[r] = [receipts[r] EXCEPT !.status = "APPROVED", !.decidedBy = u]
               ELSE receipts'[r] = receipts[r]
    BY <1>9, ApproveEffects
  <2>2. \A r \in DOMAIN receipts :
            /\ receipts'[r].proposal = receipts[r].proposal
            /\ receipts'[r].status =
                   IF receipts[r].proposal = p /\ receipts[r].status = "SUBMITTED"
                   THEN "APPROVED" ELSE receipts[r].status
    BY <2>1 DEF TypeOK, ReceiptRow
  <2>3. Reconhecidos(receipts', p) = Reconhecidos(receipts, p) \union Declarados(receipts, p)
    BY <2>1, <2>2 DEF Reconhecidos, Declarados
  <2>4. \A x : x # p => Declarados(receipts', x) = Declarados(receipts, x)
    BY <2>1, <2>2 DEF Declarados
  <2> QED  BY <1>1, <2>1, <2>3, <2>4 DEF OnlyProposal, FrozenStep
<1>10. ASSUME NEW r \in Receipts, NEW p \in DOMAIN proposals, NEW u \in Users,
              NEW a \in Amounts, CreateReceipt(r, p, u, a)
       PROVE  FrozenStep
  <2>1. /\ proposals' = proposals /\ proposals[p].approval # "SUBMITTED"
        /\ r \notin DOMAIN receipts /\ DOMAIN receipts' = DOMAIN receipts \union {r}
        /\ receipts'[r] = NovoRecebimento(p, u, a)
        /\ \A x \in DOMAIN receipts : receipts'[x] = receipts[x]
    BY <1>10, DeclareEffects
  <2>2. receipts'[r].proposal = p
    BY <2>1 DEF NovoRecebimento
  <2>3. \A x \in DOMAIN proposals :
            x # p => Declarados(receipts', x) = Declarados(receipts, x)
    BY <2>1, <2>2 DEF Declarados
  <2> QED  BY <1>1, <2>1, <2>3 DEF FrozenStep
<1>11. ASSUME NEW r \in DOMAIN receipts, OnlyReceipt(r),
              OnlyProposal(receipts[r].proposal),
              receipts'[r].proposal = receipts[r].proposal,
              receipts'[r].status = "SUBMITTED" <=> receipts[r].status = "SUBMITTED"
       PROVE  \A x : Declarados(receipts', x) = Declarados(receipts, x)
  BY <1>11 DEF OnlyReceipt, Declarados
<1>12. ASSUME NEW r \in DOMAIN receipts, NEW u \in Users, NEW approve \in BOOLEAN,
              DecideReceipt(r, u, approve)
       PROVE  FrozenStep
  <2> DEFINE p == receipts[r].proposal
  <2>1. /\ OnlyReceipt(r) /\ OnlyProposal(p) /\ proposals[p].approval = "APPROVED"
        /\ receipts'[r].proposal = p
    BY <1>12, DecideEffects, Recalculation
  <2>2. \A x : x # p => Declarados(receipts', x) = Declarados(receipts, x)
    BY <2>1 DEF OnlyReceipt, Declarados
  <2> QED  BY <1>1, <2>1, <2>2 DEF OnlyProposal, FrozenStep
<1>13. ASSUME NEW r \in DOMAIN receipts, RemoveReceipt(r) PROVE FrozenStep
  <2>1. /\ proposals' = proposals
        /\ proposals[receipts[r].proposal].approval # "SUBMITTED"
        /\ DOMAIN receipts' = DOMAIN receipts \ {r}
        /\ \A x \in DOMAIN receipts' : receipts'[x] = receipts[x]
    BY <1>13, DeclareEffects
  <2>2. \A x : x # receipts[r].proposal => Declarados(receipts', x) = Declarados(receipts, x)
    BY <2>1 DEF Declarados
  <2> QED  BY <1>1, <2>1, <2>2 DEF FrozenStep
<1>14. ASSUME NEW r \in DOMAIN receipts, NEW a \in 1..receipts[r].amount, ReverseReceipt(r, a)
       PROVE  FrozenStep
  <2> DEFINE p == receipts[r].proposal
  <2>1. /\ OnlyReceipt(r) /\ OnlyProposal(p)
        /\ proposals'[p].approval = proposals[p].approval
        /\ receipts[r].status = "APPROVED"
        /\ receipts'[r] = [receipts[r] EXCEPT !.reversed = receipts[r].reversed + a]
    BY <1>14, ReverseEffects, Recalculation
  <2>2. receipts'[r].proposal = p /\ receipts'[r].status = "APPROVED"
    BY <2>1 DEF TypeOK, ReceiptRow
  <2>3. \A x : Declarados(receipts', x) = Declarados(receipts, x)
    BY <1>11, <2>1, <2>2
  <2> QED  BY <2>1, <2>3 DEF OnlyProposal, FrozenStep
<1>15. CASE UNCHANGED vars
  BY <1>15 DEF vars, FrozenStep
<1> QED
  BY <1>2, <1>3, <1>5, <1>6, <1>7, <1>8, <1>9, <1>10, <1>12, <1>13, <1>14, <1>15
     DEF Next, NextProposal, NextReceipt

\* What the Financeiro analyses does not move until it decides, and approval
\* recognises exactly that.
THEOREM AnalysisFrozen == Spec => AnalysisSetFrozen
<1>1. TypeOK /\ [Next]_vars => [FrozenStep]_vars
  BY FrozenInductive
<1> QED  BY <1>1, TypeCorrect, PTL DEF Spec, AnalysisSetFrozen, FrozenStep
=============================================================================
