-------------------------- MODULE SettlementClaims --------------------------
(***************************************************************************)
(* What the documents of the repository say of settlements and periods and *)
(* CommissionSettlements, as the code, does not keep.                      *)
(***************************************************************************)
EXTENDS CommissionSettlements

HasPayment(w) == \E b \in Beneficiaries : settlements[b][w].paid > 0

\* A period with a settlement that received money does not reopen ("Período com
\* fechamento pago não reabre", ADR 0016, item 1).  The code looks when the
\* reopening is asked for, not when it is approved.
PaidPeriodStaysFrozen ==
    [][\A w \in Windows : Frozen(w) /\ HasPayment(w) => Frozen(w)']_vars

\* The reversals of a window that its settlement, paid by now, did not absorb
\* are carried into the next settlement of the beneficiary ("é carregada até
\* ser absorvida", ADR 0016, item 2).  A reversal dated in a window whose
\* settlement is already PAID reaches no settlement at all.
LateReversalCarried ==
    [][\A b \in Beneficiaries, w \in Windows :
        ~Exists(settlements[b][w]) /\ Exists(settlements'[b][w]) =>
            \A v \in LatestBefore(b, w) :
                settlements[b][v].status = "PAID" =>
                    Debt(settlements'[b][w]) >=
                        ledger[b][w].reversal
                            + (ledger[b][v].reversal - settlements[b][v].reversalDiscount)]_vars

\* A credit is counted by one settlement ("um item não pertence a dois
\* settlements ativos", phase F5 of the plan).  Windows that overlap count it
\* twice.
CreditCountedOnce ==
    \A b \in Beneficiaries, v, w \in Windows, d \in Days :
        /\ Covers(v, d) /\ Covers(w, d)
        /\ ledger[b][<<d, d>>].gross > 0
        /\ \A u \in {v, w} : settlements[b][u].gross = ledger[b][u].gross
        => v = w
=============================================================================
