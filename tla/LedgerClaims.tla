---------------------------- MODULE LedgerClaims ----------------------------
(***************************************************************************)
(* What the documents of the repository say of the ledger and              *)
(* CommissionLedger, as the code, does not keep; with an instance in which *)
(* a consultant changes his leader from the first to the second day and a  *)
(* finalizer reaches her target with both days together.                   *)
(***************************************************************************)
EXTENDS CommissionLedger, TLC

CONSTANTS p1, c1, f1, l1, l2, none

\* One leader for a proposal, fixed by its first payment ("o primeiro pagamento
\* fixa o líder comercial histórico usado para todas as parcelas da proposta",
\* 09-REGRAS, section 13.1).  The first payment is looked up again at each
\* recognition: one that is recognised late with an earlier date takes its
\* place, and what is credited already is credited to another leader too.
OneCommercialLeader ==
    \A e, f \in entries :
        /\ e.strategy = "COMMERCIAL_LEADER" /\ f.strategy = "COMMERCIAL_LEADER"
        /\ receipts[e.receipt].proposal = receipts[f.receipt].proposal
        => e.beneficiary = f.beneficiary

\* A finalizer earns by the sum of what was received in the week: a fixed
\* amount from the target on and a share of the excess ("se base_finalizacao >=
\* R$ 70.000,00", 09-REGRAS, section 10).  Each receipt is credited the
\* difference it makes to the earlier ones of its week, once: of two that are
\* recognised in the other order, none is credited what they make together.
FinalizerWeekFollowsFormula ==
    \A b \in People, d \in CalendarDays :
        Net(entries, "FINALIZER", b, {r \in Receipts : Week(receipts[r].date) = Week(d)})
            = Right("FINALIZER", Config[d], b,
                    Base(receipts, "FINALIZER", Semana(receipts, "FINALIZER", b, Week(d))))

-----------------------------------------------------------------------------
MCPeople == {c1, f1, l1, l2}

MCDays == 1..2

MCCommission == p1 :> 200

MCOperation == p1 :> 500

MCConsultant == p1 :> c1

MCFinalizer == p1 :> f1

MCRegime == [x \in MCPeople |-> "MEI"]

MCRole == [x \in MCPeople |-> [d \in MCDays |-> Standard]]

MCLeader ==
    [t \in {"COMERCIAL", "MEI_GERAL", "FINALIZACAO"} |->
        [x \in MCPeople |->
            [d \in MCDays |-> IF t # "COMERCIAL" \/ x # c1 THEN none
                              ELSE IF d = 1 THEN l1 ELSE l2]]]

MCPolicy ==
    [x \in MCPeople |-> [d \in MCDays |-> [excluded |-> FALSE, override |-> NoOverride]]]

MCConfig ==
    [d \in MCDays |->
        [standard |-> <<[min |-> 0, max |-> NoLimit, percentage |-> 25]>>,
         scaled |->
            [tps |-> <<[min |-> 0, max |-> NoLimit]>>,
             production |-> <<[min |-> 0, max |-> NoLimit, percentages |-> <<20>>]>>],
         commercial |-> [minTps |-> 25, mei |-> 3, clt |-> 0],
         general |-> [base |-> 50, tiers |-> <<[min |-> 0, max |-> 1000, percentage |-> 30]>>],
         finalizer |-> [threshold |-> 120, fixed |-> 30, excess |-> 10],
         finalization |-> [mei |-> 5, clt |-> 10]]]

\* Half of the commission on each day.
MCDeclarations ==
    {[r \in 1..2 |-> [proposal |-> p1, amount |-> 100, date |-> r, status |-> "SUBMITTED"]]}

MCLevels == [r \in 1..2 |-> {}]
=============================================================================
