------------------------- MODULE MCCommissionLedger -------------------------
(***************************************************************************)
(* The ledger next to the settlements of two weeks, the import from the    *)
(* former system and the catalogue of accounts, for TLC.  The four share   *)
(* no variable (the entries the ledger has are its own), so that each is   *)
(* explored with the others at rest.                                       *)
(*                                                                         *)
(* The ledger has a standard consultant (c1), a scaled one with two        *)
(* proposals (c2) and one who changes from the first to the second role on *)
(* day 2 (c3), with one finalizer and, but for c1 on day 1, one leader.    *)
(***************************************************************************)
EXTENDS CommissionLedger, CommissionSettlements, MCLegacyImport,
    ReceivingCatalog, TLC

CONSTANTS p1, p2, p3, p4, c1, c2, c3, fin, lead, none

MCProposals == {p1, p2, p3, p4}

MCPeople == {c1, c2, c3, fin, lead}

MCCommission == [p \in MCProposals |-> 200]

MCOperation == p1 :> 500 @@ p2 :> 400 @@ p3 :> 400 @@ p4 :> 500

MCConsultant == p1 :> c1 @@ p2 :> c2 @@ p3 :> c2 @@ p4 :> c3

MCFinalizer == [p \in MCProposals |-> IF p = p4 THEN none ELSE fin]

MCRegime == [x \in MCPeople |-> IF x = c1 THEN "CLT" ELSE "MEI"]

MCRole ==
    [x \in MCPeople |->
        [d \in 1..2 |-> IF x = c2 \/ (x = c3 /\ d = 2) THEN Scaled ELSE Standard]]

\* c1 changes his commercial leader on day 2.
MCLeader ==
    [t \in {"COMERCIAL", "MEI_GERAL", "FINALIZACAO"} |->
        [x \in MCPeople |->
            [d \in 1..2 |-> IF x = lead THEN none
                            ELSE IF t = "COMERCIAL" /\ x = c1 /\ d = 1 THEN fin ELSE lead]]]

\* c1 has an agreement of his own, for less from day 2 on.
MCPolicy ==
    [x \in MCPeople |->
        [d \in 1..2 |-> [excluded |-> FALSE,
            override |-> IF x # c1 THEN NoOverride ELSE IF d = 1 THEN 40 ELSE 20]]]

MCConfig ==
    [d \in 1..2 |->
        [standard |-> <<[min |-> 0, max |-> 40, percentage |-> 25],
                        [min |-> 40, max |-> NoLimit, percentage |-> 50]>>,
         scaled |->
            [tps |-> <<[min |-> 0, max |-> 45], [min |-> 45, max |-> NoLimit]>>,
             production |-> <<[min |-> 0, max |-> 250, percentages |-> <<10, 20>>],
                              [min |-> 250, max |-> NoLimit, percentages |-> <<20, 40>>]>>],
         commercial |-> [minTps |-> 25, mei |-> 10, clt |-> 0],
         general |-> [base |-> 50, tiers |-> <<[min |-> 0, max |-> 250, percentage |-> 10],
                                               [min |-> 250, max |-> 1000, percentage |-> 30]>>],
         finalizer |-> [threshold |-> 120, fixed |-> 30, excess |-> 10],
         finalization |-> [mei |-> 5, clt |-> 10]]]

Declared(p, amount, date) ==
    [proposal |-> p, amount |-> amount, date |-> date, status |-> "SUBMITTED"]

Refused == [proposal |-> p1, amount |-> 1, date |-> 1, status |-> "REJECTED"]

\* One proposal paid twice over; two of one month, the first of them overpaid;
\* three people in one week; a change of role between two receipts.
MCDeclarations ==
    {<<Declared(p1, 95, 1), Declared(p1, 150, 1), Declared(p1, 105, 2), Refused>>,
     <<Declared(p2, 200, 1), Declared(p2, 150, 1), Declared(p3, 200, 2), Declared(p2, 50, 2)>>,
     <<Declared(p1, 200, 1), Declared(p2, 150, 1), Declared(p3, 100, 2), Refused>>,
     <<Declared(p4, 95, 1), Declared(p4, 60, 2), Declared(p2, 200, 1), Refused>>}

MCLevels == [r \in 1..4 |-> IF r = 1 THEN {45} ELSE {}]

MCInit == LedgerInit /\ Init /\ ImportInit /\ CatalogInit

\* The others are explored once, not once for each set of declarations.
LedgerAtRest ==
    /\ \E r \in Receipts : receipts[r].date = 2 /\ receipts[r].proposal = p4
    /\ LedgerInit

MCNext ==
    \/ /\ Init /\ ImportInit /\ CatalogInit /\ LedgerNext
       /\ UNCHANGED <<vars, importVars, catalogVars>>
    \/ /\ LedgerAtRest /\ ImportInit /\ CatalogInit /\ Next
       /\ UNCHANGED <<ledgerVars, importVars, catalogVars>>
    \/ /\ LedgerAtRest /\ Init /\ CatalogInit /\ ImportNext
       /\ UNCHANGED <<ledgerVars, vars, catalogVars>>
    \/ /\ LedgerAtRest /\ Init /\ ImportInit /\ CatalogNext
       /\ UNCHANGED <<ledgerVars, vars, importVars>>

MCSpec == MCInit /\ [][MCNext]_<<ledgerVars, vars, importVars, catalogVars>>
=============================================================================
