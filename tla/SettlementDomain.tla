-------------------------- MODULE SettlementDomain --------------------------
(***************************************************************************)
(* The arithmetic of one row of commission_settlements, translated from    *)
(* manage_settlements.py.  Amounts are in centavos, so the quantizations   *)
(* of the code change nothing and the numbers are integers.                *)
(***************************************************************************)
EXTENDS Integers

SettlementStatus == {"PENDING", "DEFERRED", "PAID"}

SettlementRow ==
    [gross : Nat, carryover : Nat, bonus : Nat,
     manualDiscount : Nat, reversalDiscount : Nat, reversalCarryover : Nat,
     discount : Nat, deferred : Nat, paid : Nat, payable : Nat,
     status : SettlementStatus \union {"NONE"}]

\* There is no row yet.  A row is born with the same zeros.
NoSettlement ==
    [gross |-> 0, carryover |-> 0, bonus |-> 0,
     manualDiscount |-> 0, reversalDiscount |-> 0, reversalCarryover |-> 0,
     discount |-> 0, deferred |-> 0, paid |-> 0, payable |-> 0,
     status |-> "NONE"]

Exists(row) == row.status # "NONE"

\* Mutant: nothing is cut at zero.
Unbounded(x) == x

NonNegative(x) == IF x < 0 THEN 0 ELSE x

Lesser(x, y) == IF x < y THEN x ELSE y

Earned(row) == row.gross + row.carryover + row.bonus

\* The reversals charged to the row: already discounted or still owed.
Debt(row) == row.reversalDiscount + row.reversalCarryover

-----------------------------------------------------------------------------
\* What is left for reversals to take.
Available(row) ==
    NonNegative(Earned(row) - row.manualDiscount - row.deferred - row.paid)

ApplyReversalDiscount(row) ==
    LET absorbed == Lesser(Debt(row), Available(row))
    IN   [row EXCEPT !.reversalDiscount = absorbed,
                    !.reversalCarryover = NonNegative(Debt(row) - absorbed),
                    !.discount = row.manualDiscount + absorbed]

Balance(row) == Earned(row) - row.discount - row.deferred - row.paid

StatusFor(deferred, payable, paid) ==
    IF deferred > 0 THEN "DEFERRED"
    ELSE IF payable = 0 /\ paid > 0 THEN "PAID"
    ELSE "PENDING"

Recalculate(row) ==
    LET payable == NonNegative(Balance(row))
    IN  [row EXCEPT !.payable = payable,
                    !.status = StatusFor(row.deferred, payable, row.paid)]

-----------------------------------------------------------------------------
\* Mutant: the reset of the discount already taken is missing.
GeneratedOver(row, sums, carryover, debt) ==
    Recalculate(ApplyReversalDiscount(
        [row EXCEPT !.gross = sums.gross,
                    !.carryover = carryover,
                    !.bonus = IF sums.bonus > 0 THEN sums.bonus ELSE @,
                    !.reversalCarryover = debt]))

\* What generate writes for one beneficiary: sums is the total of the ledger
\* in the window, debt also counts what the previous row could not absorb.
Generated(row, sums, carryover, debt) ==
    Recalculate(ApplyReversalDiscount(
        [row EXCEPT !.gross = sums.gross,
                    !.carryover = carryover,
                    !.bonus = IF sums.bonus > 0 THEN sums.bonus ELSE @,
                    !.reversalDiscount = 0,
                    !.reversalCarryover = debt]))

CanAdjust(row, bonus, discount, deferred) ==
    /\ Exists(row)
    /\ row.status # "PAID"
    /\ discount + deferred <= row.gross + row.carryover + bonus - row.paid

\* Mutant: the debt is not offered what the adjustment makes available.
AdjustedAlone(row, bonus, discount, deferred) ==
    Recalculate([row EXCEPT !.bonus = bonus, !.manualDiscount = discount,
                            !.discount = discount + row.reversalDiscount,
                            !.deferred = deferred])

Adjusted(row, bonus, discount, deferred) ==
    Recalculate(ApplyReversalDiscount(
        [row EXCEPT !.bonus = bonus, !.manualDiscount = discount, !.deferred = deferred]))

CanPay(row, amount) ==
    /\ Exists(row)
    /\ row.status # "PAID"
    /\ 0 < amount
    /\ amount <= row.payable

\* Mutant: the status is left for the next calculation.
PaidOnly(row, amount) == [row EXCEPT !.paid = @ + amount, !.payable = @ - amount]

PaidWith(row, amount) == Recalculate([row EXCEPT !.paid = @ + amount])
=============================================================================
