----------------------- MODULE CommissionSettlements -----------------------
(***************************************************************************)
(* The weekly settlement of commissions: the ledger entries, automatic and *)
(* manual, the settlement of each beneficiary in each window of days, its  *)
(* adjustments and payments, and the periods that freeze the calculation.  *)
(* A step is a whole request, up to its single commit.                     *)
(*                                                                         *)
(* Any window of at most MaxSpan days may be generated, whether or not a   *)
(* period was created for it, and windows may overlap.                     *)
(***************************************************************************)
EXTENDS SettlementDomain

CONSTANTS
    Beneficiaries,  \* collaborators
    Users,          \* accounts holding the permissions on periods
    Keys,           \* idempotency keys of manual entries
    Amounts,        \* what a ledger entry may be worth
    Adjustments,    \* what adjust may set bonus, discount and deferral to
    LastDay,        \* the calendar is 1..LastDay
    Cutoffs,        \* days whose end may be the cutoff of a period
    MaxSpan,        \* longest window, in days (93 in the code)
    MaxTotal        \* bound on what the ledger adds up to in a window

ASSUME AmountsAssumption == Amounts \subseteq Nat

ASSUME AdjustmentsAssumption == Adjustments \subseteq Nat

ASSUME CalendarAssumption == LastDay \in Nat \ {0} /\ MaxSpan \in Nat \ {0}

ASSUME CutoffsAssumption == Cutoffs \subseteq 1..LastDay

ASSUME MaxTotalAssumption == MaxTotal \in Nat

VARIABLES
    today,          \* Clock.business_date
    ledger,         \* what commission_entries and commission_manual_entries
                    \* sum up to, by beneficiary and window
    manualKeys,     \* (created_by, idempotency_key) of the manual entries
    settlements,    \* table commission_settlements, by beneficiary and window
    periods         \* table commission_periods, by window

vars == <<today, ledger, manualKeys, settlements, periods>>

Nobody == "nobody"

ASSUME NobodyAssumption == Nobody \notin Users

Days == 1..LastDay

Windows == {w \in Days \X Days : w[1] <= w[2] /\ w[2] - w[1] < MaxSpan}

Covers(w, d) == w[1] <= d /\ d <= w[2]

Overlap(v, w) == v[1] <= w[2] /\ w[1] <= v[2]

\* present: some entry exists, be it of 0.00.
Sums == [present : BOOLEAN, gross : Nat, reversal : Nat, bonus : Nat]

NoSums == [present |-> FALSE, gross |-> 0, reversal |-> 0, bonus |-> 0]

PeriodStatus == {"OPEN", "CLOSED", "REOPENING_PENDING"}

PeriodRow ==
    [status : PeriodStatus \union {"NONE"}, cutoff : Days \union {0},
     requestedBy : Users \union {Nobody}, reopenedBy : Users \union {Nobody}]

NoPeriod == [status |-> "NONE", cutoff |-> 0, requestedBy |-> Nobody, reopenedBy |-> Nobody]

Frozen(w) == periods[w].status \in {"CLOSED", "REOPENING_PENDING"}

-----------------------------------------------------------------------------
\* The ledger.

\* One entry, as it counts in the sums.
Credit(amount) == [present |-> TRUE, gross |-> amount, reversal |-> 0, bonus |-> 0]

Debit(amount) == [present |-> TRUE, gross |-> 0, reversal |-> amount, bonus |-> 0]

Bonus(amount) == [present |-> TRUE, gross |-> 0, reversal |-> 0, bonus |-> amount]

Plus(sums, entry) ==
    [present |-> TRUE, gross |-> sums.gross + entry.gross,
     reversal |-> sums.reversal + entry.reversal, bonus |-> sums.bonus + entry.bonus]

\* An entry dated d counts in every window that covers d.
Entered(b, d, entry) ==
    [ledger EXCEPT ![b] =
        [w \in Windows |-> IF Covers(w, d) THEN Plus(ledger[b][w], entry) ELSE ledger[b][w]]]

\* Bound of the model.
Fits(b, d, entry) ==
    \A w \in Windows : Covers(w, d) =>
        LET sums == Plus(ledger[b][w], entry)
        IN  sums.gross <= MaxTotal /\ sums.reversal <= MaxTotal /\ sums.bonus <= MaxTotal

\* A receipt dated d is approved and credits a commission.  The engine refuses
\* while a frozen period covers that date.
CreditCommission(b, d, amount) ==
    /\ d <= today
    /\ \A w \in Windows : Covers(w, d) => ~Frozen(w)
    /\ Fits(b, d, Credit(amount))
    /\ ledger' = Entered(b, d, Credit(amount))
    /\ UNCHANGED <<today, manualKeys, settlements, periods>>

\* A reversal dated d debits commissions.  Nothing looks at the periods.
DebitCommission(b, d, amount) ==
    /\ d <= today
    /\ Fits(b, d, Debit(amount))
    /\ ledger' = Entered(b, d, Debit(amount))
    /\ UNCHANGED <<today, manualKeys, settlements, periods>>

\* A repeated key returns the entry it made the first time.
AddManualEntry(b, d, entry, key) ==
    /\ entry.gross + entry.bonus > 0
    /\ d <= today
    /\ key \notin manualKeys
    /\ Fits(b, d, entry)
    /\ manualKeys' = manualKeys \union {key}
    /\ ledger' = Entered(b, d, entry)
    /\ UNCHANGED <<today, settlements, periods>>

AddBkoEntry(b, d, amount, key) == AddManualEntry(b, d, Credit(amount), key)

AddFinalizationEntry(b, d, amount, key) == AddManualEntry(b, d, Bonus(amount), key)

-----------------------------------------------------------------------------
\* Settlements.

\* Mutant: a period that waits for its second approval counts as open.
EnsureNotClosed(w) == periods[w].status # "CLOSED"

\* Only the period with exactly these dates is looked at.
EnsureOpen(w) == ~Frozen(w)

Before(b, w) == {v \in Windows : v[2] < w[1] /\ Exists(settlements[b][v])}

\* The rows ORDER BY period_end DESC may put first: windows that end on the
\* same day are in no order.
LatestBefore(b, w) ==
    {v \in Before(b, w) : \A u \in Before(b, w) : u[2] <= v[2]}

PreviousRows(b, w) ==
    IF LatestBefore(b, w) = {} THEN {NoSettlement}
    ELSE {settlements[b][v] : v \in LatestBefore(b, w)}

Carryover(previous) == IF previous.status = "DEFERRED" THEN previous.deferred ELSE 0

\* The beneficiary takes part in the generation.
Concerned(b, w, previous) ==
    \/ ledger[b][w].present
    \/ previous.status = "DEFERRED" /\ previous.deferred > 0
    \/ previous.reversalCarryover > 0

\* Mutant: a row already paid is generated again.
GeneratedRowsOverPaid(row, b, w) ==
    {IF Concerned(b, w, previous)
     THEN Generated(row, ledger[b][w], Carryover(deferring),
                    ledger[b][w].reversal + previous.reversalCarryover)
     ELSE row :
        previous \in PreviousRows(b, w), deferring \in PreviousRows(b, w)}

\* What generate may write for one beneficiary whose row is the given one.  The
\* debt and the deferral come from two queries, which may break a tie of dates
\* differently.
GeneratedRows(row, b, w) ==
    {IF Concerned(b, w, previous) /\ row.status # "PAID"
     THEN Generated(row, ledger[b][w], Carryover(deferring),
                    ledger[b][w].reversal + previous.reversalCarryover)
     ELSE row :
        previous \in PreviousRows(b, w), deferring \in PreviousRows(b, w)}

Generate(w) ==
    /\ EnsureOpen(w)
    /\ \E new \in [Beneficiaries ->
                     UNION {GeneratedRows(settlements[b][w], b, w) : b \in Beneficiaries}] :
        /\ \A b \in Beneficiaries : new[b] \in GeneratedRows(settlements[b][w], b, w)
        /\ settlements' = [b \in Beneficiaries |-> [settlements[b] EXCEPT ![w] = new[b]]]
    /\ UNCHANGED <<today, ledger, manualKeys, periods>>

Adjust(b, w, bonus, discount, deferred) ==
    /\ EnsureOpen(w)
    /\ CanAdjust(settlements[b][w], bonus, discount, deferred)
    /\ settlements' =
        [settlements EXCEPT ![b][w] = Adjusted(settlements[b][w], bonus, discount, deferred)]
    /\ UNCHANGED <<today, ledger, manualKeys, periods>>

\* A frozen period does not stop the payment of what it froze.
Pay(b, w, amount) ==
    /\ CanPay(settlements[b][w], amount)
    /\ settlements' = [settlements EXCEPT ![b][w] = PaidWith(settlements[b][w], amount)]
    /\ UNCHANGED <<today, ledger, manualKeys, periods>>

-----------------------------------------------------------------------------
\* Periods.

CreatePeriod(w, cutoff) ==
    /\ \A v \in Windows : periods[v].status # "NONE" => ~Overlap(v, w)
    /\ periods' = [periods EXCEPT ![w] = [NoPeriod EXCEPT !.status = "OPEN", !.cutoff = cutoff]]
    /\ UNCHANGED <<today, ledger, manualKeys, settlements>>

ClosePeriod(w) ==
    /\ periods[w].status = "OPEN"
    /\ periods[w].cutoff <= today
    /\ periods' = [periods EXCEPT ![w].status = "CLOSED"]
    /\ UNCHANGED <<today, ledger, manualKeys, settlements>>

RequestReopen(w, user) ==
    /\ periods[w].status = "CLOSED"
    /\ \A b \in Beneficiaries : settlements[b][w].paid = 0
    /\ periods' = [periods EXCEPT ![w].status = "REOPENING_PENDING", ![w].requestedBy = user]
    /\ UNCHANGED <<today, ledger, manualKeys, settlements>>

\* Mutant: who asked may approve.
ApproveReopenAlone(w, user) ==
    /\ periods[w].status = "REOPENING_PENDING"
    /\ periods' = [periods EXCEPT ![w].status = "OPEN", ![w].reopenedBy = user]
    /\ UNCHANGED <<today, ledger, manualKeys, settlements>>

ApproveReopen(w, user) ==
    /\ periods[w].status = "REOPENING_PENDING"
    /\ periods[w].requestedBy # user
    /\ periods' = [periods EXCEPT ![w].status = "OPEN", ![w].reopenedBy = user]
    /\ UNCHANGED <<today, ledger, manualKeys, settlements>>

NextDay ==
    /\ today < LastDay
    /\ today' = today + 1
    /\ UNCHANGED <<ledger, manualKeys, settlements, periods>>

-----------------------------------------------------------------------------
Init ==
    /\ today = 1
    /\ ledger = [b \in Beneficiaries |-> [w \in Windows |-> NoSums]]
    /\ manualKeys = {}
    /\ settlements = [b \in Beneficiaries |-> [w \in Windows |-> NoSettlement]]
    /\ periods = [w \in Windows |-> NoPeriod]

Enter(b, d) ==
    \E amount \in Amounts :
        \/ CreditCommission(b, d, amount)
        \/ DebitCommission(b, d, amount)
        \/ \E key \in Users \X Keys :
            \/ AddBkoEntry(b, d, amount, key)
            \/ AddFinalizationEntry(b, d, amount, key)

Settle(b, w) ==
    \/ \E bonus, discount, deferred \in Adjustments : Adjust(b, w, bonus, discount, deferred)
    \/ \E amount \in 1..settlements[b][w].payable : Pay(b, w, amount)

ChangePeriod(w) ==
    \/ \E cutoff \in Cutoffs : CreatePeriod(w, cutoff)
    \/ ClosePeriod(w)
    \/ \E user \in Users : RequestReopen(w, user) \/ ApproveReopen(w, user)

Next ==
    \/ \E b \in Beneficiaries, d \in Days : Enter(b, d)
    \/ \E w \in Windows : Generate(w)
    \/ \E b \in Beneficiaries, w \in Windows : Settle(b, w)
    \/ \E w \in Windows : ChangePeriod(w)
    \/ NextDay

Spec == Init /\ [][Next]_vars

-----------------------------------------------------------------------------
(***************************************************************************)
(* Properties.                                                             *)
(***************************************************************************)

\* Every table row has the shape of its model (commission_models.py) and no
\* amount of a settlement ever becomes negative.
TypeOK ==
    /\ today \in Days
    /\ ledger \in [Beneficiaries -> [Windows -> Sums]]
    /\ manualKeys \subseteq Users \X Keys
    /\ settlements \in [Beneficiaries -> [Windows -> SettlementRow]]
    /\ periods \in [Windows -> PeriodRow]

\* The stored balance and status of a settlement are those of its other
\* columns, through generations, adjustments and partial payments in any
\* order (manage_settlements.py:553-569).
BalanceConsistent ==
    \A b \in Beneficiaries, w \in Windows :
        LET row == settlements[b][w]
        IN  Exists(row) =>
                /\ row.discount = row.manualDiscount + row.reversalDiscount
                /\ row.payable = NonNegative(Balance(row))
                /\ row.status = StatusFor(row.deferred, row.payable, row.paid)

\* Nobody is offered money while reversals charged to the same settlement are
\* still owed: what is payable is what is left after the whole debt.
NothingPayableOverDebt ==
    \A b \in Beneficiaries, w \in Windows :
        settlements[b][w].payable > 0 => settlements[b][w].reversalCarryover = 0

\* Two periods never share a day.
PeriodsDisjoint ==
    \A v, w \in Windows :
        periods[v].status # "NONE" /\ periods[w].status # "NONE" /\ Overlap(v, w) => v = w

\* Whoever reopened a period is not who asked for it, until somebody asks for
\* another reopening (ADR 0016, item 1).
ReopenedByTwo ==
    \A w \in Windows :
        periods[w].status # "REOPENING_PENDING" /\ periods[w].reopenedBy # Nobody =>
            periods[w].reopenedBy # periods[w].requestedBy

\* A settlement that was fully paid is never touched again, by a generation, an
\* adjustment or a payment (manage_settlements.py:268-269, 360-361, 400).
PaidIsFinal ==
    [][\A b \in Beneficiaries, w \in Windows :
        settlements[b][w].status = "PAID" => settlements'[b][w] = settlements[b][w]]_vars

\* While the period with its dates is frozen, a settlement only changes by
\* payments, and every payment lowers the balance by what it pays: the
\* calculation and the adjustments stay.
FrozenOnlyPaid ==
    [][\A b \in Beneficiaries, w \in Windows :
        Frozen(w) =>
            LET old == settlements[b][w]
                new == settlements'[b][w]
            IN  /\ new = [old EXCEPT !.paid = new.paid, !.payable = new.payable,
                                     !.status = new.status]
                /\ old.paid <= new.paid
                /\ new.paid + new.payable = old.paid + old.payable]_vars

\* The debt of a settlement, absorbed or not, is never rewritten by adjustments
\* or payments: when it changes, it becomes the reversals of the window and
\* what the latest previous settlement still owes.
DebtComesFromReversals ==
    [][\A b \in Beneficiaries, w \in Windows :
        Debt(settlements'[b][w]) # Debt(settlements[b][w]) =>
            \E previous \in PreviousRows(b, w) :
                Debt(settlements'[b][w]) =
                    ledger[b][w].reversal + previous.reversalCarryover]_vars

\* Generating a window again, with nothing changed in between, changes nothing:
\* the rows a generation may write are rows it may leave as they are
\* (fechamento-f4-f6.md:33-34, "idempotente por período").
GenerationIdempotent ==
    \A b \in Beneficiaries, w \in Windows :
        \A new \in GeneratedRows(settlements[b][w], b, w) : new \in GeneratedRows(new, b, w)

-----------------------------------------------------------------------------
(***************************************************************************)
(* The contract the payments rely on.                                      *)
(***************************************************************************)

Phase(row) ==
    CASE row.status = "NONE" -> "none"
      [] row.status = "PAID" -> "settled"
      [] OTHER -> "open"

phaseOf == [b \in Beneficiaries |-> [w \in Windows |-> Phase(settlements[b][w])]]

paidOf == [b \in Beneficiaries |-> [w \in Windows |-> settlements[b][w].paid]]

frozenOf == [w \in Windows |-> Frozen(w)]

Contract == INSTANCE PayoutContract WITH phase <- phaseOf, paid <- paidOf, frozen <- frozenOf

\* The settlements behave as the accounts of PayoutContract: opened and settled
\* by calculations only while their period is not frozen, paid at any time, and
\* closed for good once settled.
KeepsContract == Contract!Spec

=============================================================================
