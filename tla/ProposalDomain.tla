--------------------------- MODULE ProposalDomain ---------------------------
(***************************************************************************)
(* The Proposal aggregate (commercial/domain): the two state dimensions of *)
(* a proposal, their transition tables, the settlement tolerance policy    *)
(* and the methods of the entity as pure operators.  A method that may     *)
(* raise is a guard (what must hold for it not to raise) and an effect     *)
(* (the new row).                                                          *)
(*                                                                         *)
(* A proposal row is abstracted to what the rules read: the commission of  *)
(* the company (operation * TPS / 100, already rounded), the money         *)
(* recognised so far, the cash status and the approval status.             *)
(***************************************************************************)
EXTENDS Integers

CONSTANTS
    FaltaTolerada,      \* how much may be missing and still settle
    ExcedenteTolerado   \* how much may exceed without being an overpayment

ASSUME ToleranciaAssumption == FaltaTolerada \in Nat /\ ExcedenteTolerado \in Nat

StatusDaProposta == {"OPEN", "PARTIALLY_PAID", "PAID", "CANCELLED"}

SituacaoDeAprovacao == {"DRAFT", "SUBMITTED", "APPROVED", "REJECTED"}

Editaveis == {"DRAFT", "REJECTED"}

\* StatusDaProposta.permite: staying is always allowed, CANCELLED is terminal.
Permite(origem, destino) == destino = origem \/ origem # "CANCELLED"

\* The table of approval transitions, as the set of its pairs.
TransicoesDeAprovacao ==
    { <<"DRAFT", "SUBMITTED">>, <<"SUBMITTED", "APPROVED">>,
      <<"SUBMITTED", "REJECTED">>, <<"REJECTED", "SUBMITTED">> }

AprovacaoPermite(origem, destino) == <<origem, destino>> \in TransicoesDeAprovacao

-----------------------------------------------------------------------------
\* Tolerance: short by more than FaltaTolerada is open, over by more than
\* ExcedenteTolerado is an overpayment, anything between is settled.

Classificar(esperado, recebido) ==
    IF recebido - esperado < -FaltaTolerada THEN "EM_ABERTO"
    ELSE IF recebido - esperado > ExcedenteTolerado THEN "SOBREPAGAMENTO"
    ELSE "QUITADA"

\* The status a proposal gets for what it expects and what it received.
StatusPara(esperado, recebido) ==
    IF Classificar(esperado, recebido) # "EM_ABERTO" THEN "PAID"
    ELSE IF recebido = 0 THEN "OPEN" ELSE "PARTIALLY_PAID"

-----------------------------------------------------------------------------
\* Methods of the entity.

NovaProposta(comissao) ==
    [commission |-> comissao, paid |-> 0, status |-> "OPEN", approval |-> "DRAFT"]

Ativa(row) == row.status # "CANCELLED"

ReavaliarStatus(row) == [row EXCEPT !.status = StatusPara(row.commission, row.paid)]

PodeRegistrarTotal(row) == Ativa(row)

\* registrar_total_recebido takes the whole total, never an increment.
RegistrarTotalRecebido(row, total) == ReavaliarStatus([row EXCEPT !.paid = total])

PodeAlterarOperacao(row) == Ativa(row) /\ row.approval # "SUBMITTED"

\* Mutant: the status keeps the value it had for the former commission.
AlterarOperacaoSemReavaliar(row, comissao) == [row EXCEPT !.commission = comissao]

AlterarOperacao(row, comissao) == ReavaliarStatus([row EXCEPT !.commission = comissao])

PodeEnviar(row, quantidade) ==
    /\ Ativa(row)
    /\ AprovacaoPermite(row.approval, "SUBMITTED")
    /\ quantidade >= 1

PodeDecidir(row, destino) == Ativa(row) /\ AprovacaoPermite(row.approval, destino)

ComAprovacao(row, situacao) == [row EXCEPT !.approval = situacao]

\* Mutant: money already recognised does not stop the cancellation.
PodeCancelarComSaldo(row) == Permite(row.status, "CANCELLED")

PodeCancelar(row) == row.paid = 0 /\ Permite(row.status, "CANCELLED")

\* Mutant: cancelling as one more value of the approval.
CanceladaNaAprovacao(row) == [row EXCEPT !.status = "CANCELLED", !.approval = "CANCELLED"]

Cancelada(row) == [row EXCEPT !.status = "CANCELLED"]

\* Mutant: the window under analysis is open too.
AceitaRecebimentoEmAnalise(row) ==
    Ativa(row) /\ (row.approval = "APPROVED" => row.status # "PAID")

\* aceita_recebimento: before submission, or after approval while not settled.
AceitaRecebimento(row) ==
    /\ Ativa(row)
    /\ \/ row.approval \in Editaveis
       \/ row.approval = "APPROVED" /\ row.status # "PAID"
=============================================================================
