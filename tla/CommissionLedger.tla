-------------------------- MODULE CommissionLedger --------------------------
(***************************************************************************)
(* The immutable ledger of commissions: what the standard, the scaled and  *)
(* the group engines credit when receipts are recognised, and what they    *)
(* take back when receipts are reversed, by requests that run at the same  *)
(* time.                                                                   *)
(*                                                                         *)
(* A request is two steps.  Begin takes its locks, reads the committed     *)
(* tables and its own change and computes its entries; Commit makes them   *)
(* visible.  A request the code refuses changes nothing and is no step.    *)
(* A snapshot is written together with its credit and is not kept apart.   *)
(***************************************************************************)
EXTENDS CommissionRules

CONSTANTS
    Proposals,
    Receipts,       \* ids; they stand for the order within a day too
    People,         \* collaborators
    NoOne,          \* no finalizer, no leader
    Commission,     \* commission of the company, per proposal
    Operation,      \* amount of the operation, per proposal
    Consultant,     \* per proposal
    Finalizer,      \* per proposal, or NoOne
    Regime,         \* "MEI" or "CLT", per person
    Role,           \* role of consultant, per person and day
    Leader,         \* who leads, per type of link, person and day
    Policy,         \* individual exception, per person and day
    Config,         \* parameters of the strategies, per day
    Declarations,   \* the receipts declared, one function per scenario
    Levels,         \* bound: totals a reversal may reach, besides all of a receipt
    LastDate,       \* the calendar is 1..LastDate
    WeekLength,     \* 7 in the code, the week starts on Friday
    MonthLength

ASSUME ReceiptsAssumption == Receipts \subseteq Nat /\ IsFiniteSet(Receipts)

ASSUME LedgerCalendarAssumption ==
    LastDate \in Nat \ {0} /\ WeekLength \in Nat \ {0} /\ MonthLength \in Nat \ {0}

CalendarDays == 1..LastDate

ASSUME NoOneAssumption == NoOne \notin People

ASSUME ProposalsAssumption ==
    /\ Commission \in [Proposals -> Nat \ {0}]
    /\ Operation \in [Proposals -> Nat \ {0}]
    /\ Consultant \in [Proposals -> People]
    /\ Finalizer \in [Proposals -> People \union {NoOne}]

ASSUME DeclarationsAssumption ==
    /\ \A f \in Declarations :
        /\ f \in [Receipts -> [proposal : Proposals, amount : Nat, date : CalendarDays,
                               status : {"SUBMITTED", "REJECTED"}]]
        /\ \A r \in Receipts : f[r].amount > 0
    /\ Levels \in [Receipts -> SUBSET Nat]

Standard == "CONSULTOR"

Scaled == "CONSULTOR_MEI_ESCALONADO"

NoOverride == -1

ASSUME PeopleAssumption ==
    /\ Regime \in [People -> {"MEI", "CLT"}]
    /\ Role \in [People -> [CalendarDays -> {Standard, Scaled}]]
    /\ Leader \in [{"COMERCIAL", "MEI_GERAL", "FINALIZACAO"} ->
                      [People -> [CalendarDays -> People \union {NoOne}]]]
    /\ Policy \in [People -> [CalendarDays -> [excluded : BOOLEAN, override : 0..100 \union {NoOverride}]]]

ASSUME ConfigAssumption == \A d \in CalendarDays : ValidConfig(Config[d])

VARIABLES
    receipts,       \* table receipts, with the reversed totals
    entries,        \* table commission_entries
    closed,         \* days covered by a period that is not open
    tx              \* the request that holds the lock of each proposal

ledgerVars == <<receipts, entries, closed, tx>>

Groups == {"COMMERCIAL_LEADER", "GENERAL_MEI_LEADER", "FINALIZER", "FINALIZATION_LEADER"}

Strategies == {"STANDARD_CONSULTANT", "SCALED_CONSULTANT"} \union Groups

ReceiptRow ==
    [proposal : Proposals, amount : Nat, date : CalendarDays,
     status : {"SUBMITTED", "APPROVED", "REJECTED"}, reversed : Nat]

\* eligible is the input kept in the snapshot.  reversal is 0 in a credit; in a
\* debit it names the reversal of the receipt by the total it reached.
Entry ==
    [receipt : Receipts, beneficiary : People, strategy : Strategies,
     eligible : Nat, amount : Int, reversal : Nat]

Idle == [kind |-> "idle", row |-> <<>>]

Request(kind, holds, row, adds) ==
    [kind |-> kind, holds |-> holds, row |-> row, adds |-> adds]

Week(d) == (d - 1) \div WeekLength

Month(d) == (d - 1) \div MonthLength

Tps(p) == Quantize(100 * Commission[p], Operation[p])

-----------------------------------------------------------------------------
\* The money behind the commissions, as the rows recs show it.

ConsultantOf(recs, r) == Consultant[recs[r].proposal]

RoleOf(recs, r) == Role[ConsultantOf(recs, r)][recs[r].date]

ConfigOf(recs, r) == Config[recs[r].date]

Approved(recs) == {r \in Receipts : recs[r].status = "APPROVED"}

Of(recs, p) == {r \in Approved(recs) : recs[r].proposal = p}

\* The deterministic order of the engines.
Earlier(recs, r, s) ==
    \/ recs[r].date < recs[s].date
    \/ recs[r].date = recs[s].date /\ r < s

\* Mutant: the original amount is used, reversals are not looked at.
Bruto(row) == row.amount

Liquido(row) == Larger(row.amount - row.reversed, 0)

Total(recs, S) == SumFunction([r \in S |-> Liquido(recs[r])])

\* The share of a receipt that still fits below the commission of the company,
\* after the receipts before it.
Elegivel(recs, r) ==
    LET p == recs[r].proposal
        before == Total(recs, {s \in Of(recs, p) : Earlier(recs, s, r)})
    IN  Smaller(before + Liquido(recs[r]), Commission[p]) - Smaller(before, Commission[p])

Producao(recs, r) ==
    LET p == recs[r].proposal
    IN  Quantize(Operation[p] * Elegivel(recs, r), Commission[p])

\* _recebimentos_liquidos.
Liquidos(recs) == {r \in Approved(recs) : Elegivel(recs, r) > 0}

-----------------------------------------------------------------------------
\* Standard consultant: a percentage of the eligible share.

PolicyOf(recs, r) == Policy[ConsultantOf(recs, r)][recs[r].date]

PercentualDe(recs, r) ==
    LET tps == Tps(recs[r].proposal)
        policy == PolicyOf(recs, r)
    IN  IF policy.excluded THEN 0
        ELSE IF tps >= 35 /\ policy.override # NoOverride THEN policy.override
        ELSE PercentualPadrao(ConfigOf(recs, r).standard, tps)

StandardShare(recs, r) == Percent(Elegivel(recs, r), PercentualDe(recs, r))

\* Scaled consultant: marginal over the production of the month, all proposals
\* together, however long ago the rest of a proposal was paid.

Mes(recs, c, month) ==
    {r \in Liquidos(recs) :
        ConsultantOf(recs, r) = c /\ RoleOf(recs, r) = Scaled /\ Month(recs[r].date) = month}

ScaledShare(recs, r) ==
    LET c == ConsultantOf(recs, r)
        earlier == {s \in Mes(recs, c, Month(recs[r].date)) : Earlier(recs, s, r)}
        before == SumFunction([s \in earlier |-> Producao(recs, s)])
    IN  IF PolicyOf(recs, r).excluded THEN 0
        ELSE ConsultorEscalonado(ConfigOf(recs, r).scaled, Tps(recs[r].proposal), before,
                                 Producao(recs, r))

ScaledRight(recs, c, month) ==
    SumFunction([r \in Mes(recs, c, month) |-> ScaledShare(recs, r)])

-----------------------------------------------------------------------------
\* Leaders and finalizers.

\* The first receipt decides who leads a proposal, be it reversed or not.
First(recs, p) ==
    CHOOSE r \in Of(recs, p) : \A s \in Of(recs, p) \ {r} : Earlier(recs, r, s)

Beneficiary(recs, strategy, r) ==
    LET p == recs[r].proposal
        c == Consultant[p]
        d == recs[r].date
    IN  CASE strategy = "COMMERCIAL_LEADER" -> Leader["COMERCIAL"][c][recs[First(recs, p)].date]
          [] strategy = "GENERAL_MEI_LEADER" ->
                IF Regime[c] = "MEI" THEN Leader["MEI_GERAL"][c][d] ELSE NoOne
          [] strategy = "FINALIZER" -> Finalizer[p]
          [] strategy = "FINALIZATION_LEADER" ->
                IF Finalizer[p] = NoOne THEN NoOne ELSE Leader["FINALIZACAO"][Finalizer[p]][d]

CommercialShare(recs, r, leader) ==
    ComissaoLiderComercial(ConfigOf(recs, r).commercial, Regime[leader],
                           Tps(recs[r].proposal), Elegivel(recs, r))

\* What counts in the week of a beneficiary: production for the general leader,
\* the eligible share for the others.
Base(recs, strategy, S) ==
    SumFunction([r \in S |-> IF strategy = "GENERAL_MEI_LEADER" THEN Producao(recs, r)
                             ELSE Elegivel(recs, r)])

Semana(recs, strategy, b, week) ==
    {r \in Liquidos(recs) : Week(recs[r].date) = week /\ Beneficiary(recs, strategy, r) = b}

Right(strategy, config, b, base) ==
    CASE strategy = "GENERAL_MEI_LEADER" -> ComissaoProgressiva(config.general, base)
      [] strategy = "FINALIZER" -> ComissaoFinalizador(config.finalizer, base)
      [] strategy = "FINALIZATION_LEADER" ->
            ComissaoLiderFinalizacao(config.finalization, Regime[b], base)

\* The difference a receipt makes to what the week earned before it.
GroupShare(recs, strategy, r, b) ==
    LET before == Base(recs, strategy, {s \in Semana(recs, strategy, b, Week(recs[r].date)) :
                                           Earlier(recs, s, r)})
        Earned(base) == Right(strategy, ConfigOf(recs, r), b, base)
    IN  IF strategy = "COMMERCIAL_LEADER" THEN CommercialShare(recs, r, b)
        ELSE Earned(before + Base(recs, strategy, {r})) - Earned(before)

-----------------------------------------------------------------------------
\* Entries.

NewCredit(recs, r, strategy, b, amount) ==
    [receipt |-> r, beneficiary |-> b, strategy |-> strategy,
     eligible |-> Elegivel(recs, r), amount |-> amount, reversal |-> 0]

IsCredit(e) == e.reversal = 0

NewDebit(credit, reversal, amount) == [credit EXCEPT !.reversal = reversal, !.amount = amount]

\* uq_commission_snapshot_origin.
SameOrigin(e, f) ==
    e.receipt = f.receipt /\ e.beneficiary = f.beneficiary /\ e.strategy = f.strategy

CreditsOf(book, r, strategies) ==
    {e \in book : IsCredit(e) /\ e.receipt = r /\ e.strategy \in strategies}

NetOf(book) == SumFunction([e \in book |-> e.amount])

Net(book, strategy, b, S) ==
    NetOf({e \in book : e.strategy = strategy /\ e.beneficiary = b /\ e.receipt \in S})

ScaledCredits(recs, p) ==
    LET c == Consultant[p]
        months == {Month(recs[r].date) : r \in Of(recs, p)}
    IN  {NewCredit(recs, r, "SCALED_CONSULTANT", c, ScaledShare(recs, r)) :
            r \in UNION {Mes(recs, c, month) : month \in months}}

\* Mutant: a proposal without a finalizer is not told apart.
EarnsAlwaysFinalizer(recs, strategy, r) ==
    strategy = "FINALIZER" \/ Beneficiary(recs, strategy, r) # NoOne

Earns(recs, strategy, r) == Beneficiary(recs, strategy, r) # NoOne

GroupCredits(recs, p) ==
    {NewCredit(recs, pair[1], pair[2], Beneficiary(recs, pair[2], pair[1]),
            GroupShare(recs, pair[2], pair[1], Beneficiary(recs, pair[2], pair[1]))) :
        pair \in {q \in (Of(recs, p) \intersect Liquidos(recs)) \X Groups :
                     Earns(recs, q[2], q[1])}}

StandardCredits(recs, p) ==
    {NewCredit(recs, r, "STANDARD_CONSULTANT", Consultant[p], StandardShare(recs, r)) :
        r \in {s \in Of(recs, p) \intersect Liquidos(recs) : RoleOf(recs, s) # Scaled}}

\* gerar_para_proposta: what is not in the book yet.
NewCredits(recs, book, p) ==
    {e \in ScaledCredits(recs, p) \union GroupCredits(recs, p) \union StandardCredits(recs, p) :
        \A f \in book : ~SameOrigin(e, f)}

\* No receipt without a commission of the consultant lies in a closed period.
PeriodsAllow(recs, book, p) ==
    \A r \in Of(recs, p) :
        \/ recs[r].date \notin closed
        \/ CreditsOf(book, r, {"STANDARD_CONSULTANT", "SCALED_CONSULTANT"}) # {}

-----------------------------------------------------------------------------
\* What a reversal of r takes back.

\* _diferenca_do_periodo and _diferenca_lider_comercial.
GroupDifference(recs, book, credit) ==
    LET r == credit.receipt
        b == credit.beneficiary
        s == credit.strategy
        paid == {e.receipt : e \in {f \in book : IsCredit(f) /\ f.strategy = s /\ f.beneficiary = b
                                        /\ recs[f.receipt].proposal = recs[r].proposal}}
        right == [q \in paid \intersect Liquidos(recs) |-> CommercialShare(recs, q, b)]
        week == Week(recs[r].date)
    IN  IF s = "COMMERCIAL_LEADER"
        THEN SumFunction(right) - Net(book, s, b, paid)
        ELSE Right(s, ConfigOf(recs, r), b, Base(recs, s, Semana(recs, s, b, week)))
                - Net(book, s, b, {q \in Receipts : Week(recs[q].date) = week})

\* Mutant: the whole credit is taken back, whatever part is reversed.
GroupDebitsInFull(recs, book, r, reversal) ==
    {NewDebit(e, reversal, -e.amount) : e \in CreditsOf(book, r, Groups)}

GroupDebits(recs, book, r, reversal) ==
    {NewDebit(e, reversal, GroupDifference(recs, book, e)) :
        e \in {f \in CreditsOf(book, r, Groups) : GroupDifference(recs, book, f) < 0}}

ScaledDifference(recs, book, r) ==
    LET c == ConsultantOf(recs, r)
        month == Month(recs[r].date)
    IN  ScaledRight(recs, c, month)
            - Net(book, "SCALED_CONSULTANT", c, {q \in Receipts : Month(recs[q].date) = month})

\* Mutant: the whole reversal is taken back, also what another receipt covers.
ReductionWhole(recs, p, amount) == amount

\* The part of the reversed amount that nothing else keeps below the ceiling.
Reduction(recs, p, amount) ==
    LET after == Total(recs, Of(recs, p))
    IN  Smaller(after + amount, Commission[p]) - Smaller(after, Commission[p])

StandardDebits(recs, book, r, reversal, amount) ==
    {NewDebit(e, reversal,
           -Percent(Reduction(recs, recs[r].proposal, amount), PercentualDe(recs, r))) :
        e \in CreditsOf(book, r, {"STANDARD_CONSULTANT"})}

ScaledDebits(recs, book, r, reversal) ==
    {NewDebit(e, reversal, ScaledDifference(recs, book, r)) :
        e \in CreditsOf(book, r, {"SCALED_CONSULTANT"})}

IsScaled(book, r) == CreditsOf(book, r, {"SCALED_CONSULTANT"}) # {}

\* estornar; the engine of the credit decides who takes it back.
NewDebits(recs, book, r, reversal, amount) ==
    GroupDebits(recs, book, r, reversal)
        \union IF IsScaled(book, r) THEN ScaledDebits(recs, book, r, reversal)
               ELSE StandardDebits(recs, book, r, reversal, amount)

-----------------------------------------------------------------------------
\* Requests.

\* Mutant: the engine does not lock the consultant.
ConsultantIsFreeAlways(c) == TRUE

ConsultantIsFree(c) == \A p \in Proposals : tx[p] # Idle => tx[p].holds # c

\* The Financeiro recognises receipts of p: one, or all that were declared when
\* the proposal is approved.
BeginRecognise(p, S) ==
    LET recs == [r \in Receipts |->
                    IF r \in S THEN [receipts[r] EXCEPT !.status = "APPROVED"] ELSE receipts[r]]
    IN  /\ tx[p] = Idle
        /\ S # {}
        /\ \A r \in S : receipts[r].proposal = p /\ receipts[r].status = "SUBMITTED"
        /\ PeriodsAllow(recs, entries, p)
        /\ ConsultantIsFree(Consultant[p])
        /\ tx' = [tx EXCEPT ![p] =
               Request("recognise", Consultant[p], [r \in S |-> recs[r]],
                       NewCredits(recs, entries, p))]
        /\ UNCHANGED <<receipts, entries, closed>>

\* The scaled engine raises when the month would be worth more than it is.
ReversalRaises(recs, book, r) == IsScaled(book, r) /\ ScaledDifference(recs, book, r) > 0

Reversed(r, amount) == [receipts EXCEPT ![r].reversed = @ + amount]

BeginReverse(r, amount) ==
    LET p == receipts[r].proposal
        recs == Reversed(r, amount)
    IN  /\ tx[p] = Idle
        /\ receipts[r].status = "APPROVED"
        /\ 0 < amount /\ amount <= Liquido(receipts[r])
        /\ ~ReversalRaises(recs, entries, r)
        /\ IsScaled(entries, r) => ConsultantIsFree(Consultant[p])
        /\ tx' = [tx EXCEPT ![p] =
               Request("reverse", IF IsScaled(entries, r) THEN Consultant[p] ELSE NoOne,
                       [q \in {r} |-> recs[q]],
                       NewDebits(recs, entries, r, recs[r].reversed, amount))]
        /\ UNCHANGED <<receipts, entries, closed>>

Commit(p) ==
    /\ tx[p] # Idle
    /\ receipts' = [r \in Receipts |->
           IF r \in DOMAIN tx[p].row THEN tx[p].row[r] ELSE receipts[r]]
    /\ entries' = entries \union tx[p].adds
    /\ tx' = [tx EXCEPT ![p] = Idle]
    /\ UNCHANGED closed

WeekOfDays(week) == {d \in CalendarDays : Week(d) = week}

\* Periods of other lengths exist, those of the weekly calendar are enough.
CloseLedgerPeriod(week) ==
    /\ closed' = closed \union WeekOfDays(week)
    /\ UNCHANGED <<receipts, entries, tx>>

ReopenPeriod(week) ==
    /\ closed' = closed \ WeekOfDays(week)
    /\ UNCHANGED <<receipts, entries, tx>>

-----------------------------------------------------------------------------
\* Receipts are declared before anything is recognised here; when they are
\* declared changes nothing for the engines.
LedgerInit ==
    /\ \E f \in Declarations :
           receipts = [r \in Receipts |->
               [proposal |-> f[r].proposal, amount |-> f[r].amount, date |-> f[r].date,
                status |-> f[r].status, reversed |-> 0]]
    /\ entries = {}
    /\ closed = {}
    /\ tx = [p \in Proposals |-> Idle]

LedgerNext ==
    \/ \E p \in Proposals, S \in SUBSET Receipts : BeginRecognise(p, S)
    \/ \E r \in Receipts : \E total \in Levels[r] \union {receipts[r].amount} :
           BeginReverse(r, total - receipts[r].reversed)
    \/ \E p \in Proposals : Commit(p)
    \/ \E week \in {Week(d) : d \in CalendarDays} : CloseLedgerPeriod(week) \/ ReopenPeriod(week)

LedgerSpec == LedgerInit /\ [][LedgerNext]_ledgerVars

-----------------------------------------------------------------------------
\* What is shown: the preview of a proposal and the detail of the report.

\* Mutant: the preview starts from the first range.
PreviaFromZero(recs, p, d) ==
    ConsultorEscalonado(Config[d].scaled, Tps(p), 0, Operation[p])

\* The production of the month already recognised, whatever the day.
ProducaoAcumulada(recs, c, d) ==
    SumFunction([r \in Mes(recs, c, Month(d)) |-> Producao(recs, r)])

PreviaEscalonada(recs, p, d) ==
    ConsultorEscalonado(Config[d].scaled, Tps(p), ProducaoAcumulada(recs, Consultant[p], d),
                        Operation[p])

\* The commission of a proposal whose whole commission would be received on d.
Previa(recs, p, d) ==
    LET policy == Policy[Consultant[p]][d]
        percentage == IF Tps(p) >= 35 /\ policy.override # NoOverride THEN policy.override
                      ELSE PercentualPadrao(Config[d].standard, Tps(p))
    IN  IF policy.excluded THEN 0
        ELSE IF Role[Consultant[p]][d] = Scaled THEN PreviaEscalonada(recs, p, d)
        ELSE Percent(Commission[p], percentage)

\* net_amount of a calculation in the explanation of a receipt or a proposal.
NetAmount(book, e) == NetOf({f \in book : SameOrigin(e, f)})

CreditOf(book, e) == NetOf({f \in book : SameOrigin(e, f) /\ IsCredit(f)})

\* Mutant of Received: a debit stands for all that the snapshot received.
ReceivedWhole(book, e) == IF IsCredit(e) THEN e.eligible ELSE -e.eligible

\* received_amount of a line of the report: a debit stands for its share of
\* what the snapshot received.
Received(book, e) ==
    IF IsCredit(e) THEN e.eligible
    ELSE IF CreditOf(book, e) = 0 THEN 0
    ELSE -Quantize(e.eligible * (-e.amount), CreditOf(book, e))

-----------------------------------------------------------------------------
(***************************************************************************)
(* Properties.                                                             *)
(***************************************************************************)

\* Nothing is reversed beyond its receipt, whatever requests overlap.
LedgerTypeOK ==
    /\ receipts \in [Receipts -> ReceiptRow]
    /\ \A r \in Receipts : receipts[r].reversed <= receipts[r].amount
    /\ entries \subseteq Entry
    /\ closed \subseteq CalendarDays
    /\ DOMAIN tx = Proposals

\* A receipt is credited once per beneficiary and strategy: the lock on the
\* consultant keeps two requests from crediting one month at the same time.
OneCredit ==
    \A e, f \in entries : IsCredit(e) /\ IsCredit(f) /\ SameOrigin(e, f) => e = f

StandardBook(p) ==
    {e \in entries : e.strategy = "STANDARD_CONSULTANT" /\ receipts[e.receipt].proposal = p}

StandardOnly(p) == \A r \in Of(receipts, p) : RoleOf(receipts, r) = Standard

Gross(p) == SumFunction([r \in Of(receipts, p) |-> receipts[r].amount])

StandardNet(p) ==
    SumFunction([e \in {f \in StandardBook(p) : IsCredit(f)} |-> NetAmount(entries, e)])

\* In hundredths of a centavo: what the money of the proposal is worth.
Worth(p) ==
    SumFunction([r \in Of(receipts, p) |-> Elegivel(receipts, r) * PercentualDe(receipts, r)])

Tolerance(p) == 50 * Cardinality(StandardBook(p))

\* The receipts of p all earn one percentage, whatever their days.
OneRate(p) ==
    \A r, s \in Of(receipts, p) : PercentualDe(receipts, r) = PercentualDe(receipts, s)

Overpaid(p) == Gross(p) > Commission[p]

\* The commission of a standard consultant follows the money of the proposal
\* through recognitions and reversals in any order: never less than its share,
\* and no more unless the proposal is overpaid.  (In an overpaid proposal a
\* receipt may stand in for one that is reversed; what was credited for the
\* first stays, at the percentage of its own day.)
NetFollowsMoney ==
    \A p \in Proposals : StandardOnly(p) =>
        /\ OneRate(p) \/ ~Overpaid(p) => Worth(p) <= 100 * StandardNet(p) + Tolerance(p)
        /\ ~Overpaid(p) => 100 * StandardNet(p) <= Worth(p) + Tolerance(p)

LeaderLines(r, b) ==
    {e \in entries : e.strategy = "COMMERCIAL_LEADER" /\ e.receipt = r /\ e.beneficiary = b}

\* Whoever leads a proposal at its first payment has a line for each receipt of
\* it, and whoever has lines for a receipt keeps his share of what is left of
\* it, to the centavo, after partial reversals of it and of the others in any
\* order; overpaid proposals apart.  (A reversal compares the sums of the whole
\* proposal and charges the difference to one receipt.)
LeaderFollowsMoney ==
    \A r \in Approved(receipts), b \in People :
        \/ Overpaid(receipts[r].proposal)
        \/ IF LeaderLines(r, b) = {}
           THEN r \notin Liquidos(receipts) \/ b # Beneficiary(receipts, "COMMERCIAL_LEADER", r)
           ELSE NetOf(LeaderLines(r, b)) = CommercialShare(receipts, r, b)

\* f4-motor-comissao.md: an overpayment never releases more than the commission
\* of the whole proposal.
Ceiling ==
    \A p \in Proposals : StandardOnly(p) /\ Of(receipts, p) # {} =>
        \E r \in Of(receipts, p) :
            100 * StandardNet(p) <= Commission[p] * PercentualDe(receipts, r) + Tolerance(p)

NotOverpaid(c) == \A p \in Proposals : Consultant[p] = c => Gross(p) <= Commission[p]

Ends(p, kind) == tx[p].kind = kind /\ tx'[p] = Idle

\* After the reversal of a receipt of a scaled consultant his month is worth
\* what its receipts are worth, although the requests of his other proposals
\* run at the same time.  (A receipt above the ceiling has no credit: it is
\* reversed without the lock, and a recalculation that runs misses it.)
ReversalSettlesMonth ==
    [][\A p \in Proposals : \A r \in DOMAIN tx[p].row :
          LET c == Consultant[p]
              month == Month(receipts[r].date)
          IN  Ends(p, "reverse") /\ tx[p].holds = c /\ NotOverpaid(c)
                  => ScaledRight(receipts', c, month)
                        = Net(entries', "SCALED_CONSULTANT", c,
                              {q \in Receipts : Month(receipts[q].date) = month})]_ledgerVars

\* What the form announced is what a full receipt credits: at the percentage of
\* the day, or as the last receipt of the month.
PreviewIsPaid ==
    [][\A p \in Proposals, r \in Receipts :
          LET c == Consultant[p]
              d == receipts[r].date
          IN  /\ tx[p] = Idle /\ tx'[p].kind = "recognise" /\ DOMAIN tx'[p].row = {r}
              /\ receipts[r].amount = Commission[p] /\ Total(receipts, Of(receipts, p)) = 0
              /\ \A s \in Mes(receipts, c, Month(d)) : Earlier(receipts, s, r)
              => \E e \in tx'[p].adds :
                    /\ e.receipt = r /\ e.beneficiary = c
                    /\ e.amount = Previa(receipts, p, d)]_ledgerVars

Debits(p) == {e \in StandardBook(p) : ~IsCredit(e)}

\* The money one centavo of the commission behind a debit stands for, and one.
Centavo(e) == e.eligible \div CreditOf(entries, e) + 1

\* The lines of the report add up to the money that was kept, within one
\* centavo of commission for each debit, unless the proposal is overpaid or a
\* receipt earned nothing (its reversal then has no line).
ReportFollowsMoney ==
    \A p \in Proposals :
        /\ StandardOnly(p) /\ ~Overpaid(p)
        /\ \A e \in StandardBook(p) : IsCredit(e) => e.amount > 0
        => LET shown == SumFunction([e \in StandardBook(p) |-> Received(entries, e)])
               kept == Total(receipts, Of(receipts, p))
               off == SumFunction([e \in Debits(p) |-> Centavo(e)])
           IN  -off <= shown - kept /\ shown - kept <= off
=============================================================================
