--------------------------- MODULE LedgerProofs ---------------------------
(***************************************************************************)
(* Proofs about CommissionLedger, for any number of proposals, receipts    *)
(* and people and any valid parameters of the strategies.                  *)
(*                                                                         *)
(* LInv: no receipt is credited twice, whatever requests overlap.          *)
(*                                                                         *)
(* Sums: facts about SumFunction over finite sets, which the rest needs.   *)
(*                                                                         *)
(* MInv: the lines of a standard consultant follow the money of their      *)
(* receipts.  It says so of each receipt, to half a centavo per line, and  *)
(* of what the ceiling of a proposal releases; and it says it of the       *)
(* tables as each transaction that runs will leave them.                   *)
(*                                                                         *)
(* GInv: only recognised receipts have entries, so that a receipt that is  *)
(* recognised is credited.                                                 *)
(*                                                                         *)
(* SInv: the lines of a scaled consultant are his, one credit for each     *)
(* receipt of a proposal that is not overpaid, and a reversal that runs    *)
(* leaves his month worth what its receipts are.                           *)
(*                                                                         *)
(* CInv: a commercial leader has a line for each receipt of a proposal     *)
(* that is not overpaid and keeps his share of what is left of it, in the  *)
(* tables and as each transaction that runs will leave them.               *)
(***************************************************************************)
EXTENDS CommissionLedger, FiniteSetTheorems, WellFoundedInduction, TLAPS

-----------------------------------------------------------------------------
\* A credit in the making belongs to the proposal of the request or, in the
\* month of a scaled consultant, to another proposal of the same consultant.
CreditOK(p, e) ==
    /\ e.receipt \in Receipts
    /\ Consultant[receipts[e.receipt].proposal] = Consultant[p]
    /\ e.strategy = "SCALED_CONSULTANT" \/ receipts[e.receipt].proposal = p

Credits(S) == {e \in S : IsCredit(e)}

OnePerOrigin(S) == \A e, f \in Credits(S) : SameOrigin(e, f) => e = f

\* An entry tells a debit from a credit.
Shaped(S) == \A e \in S : "reversal" \in DOMAIN e

VersionOK(row) ==
    /\ row \in ReceiptRow
    /\ row.reversed <= row.amount

\* What the transaction of p has computed stays good until it commits.
TransactionOK(p) ==
    /\ \A r \in DOMAIN tx[p].row :
        /\ VersionOK(tx[p].row[r])
        /\ r \in Receipts => tx[p].row[r].proposal = receipts[r].proposal
    /\ Shaped(tx[p].adds)
    /\ OnePerOrigin(tx[p].adds)
    /\ \A e \in Credits(tx[p].adds) :
        /\ CreditOK(p, e)
        /\ tx[p].holds = Consultant[p]
        /\ \A f \in Credits(entries) : ~SameOrigin(e, f)

\* Two transactions do not hold one consultant.
LocksHeld ==
    \A p, q \in Proposals :
        p # q /\ tx[p] # Idle /\ tx[q] # Idle /\ tx[p].holds \in People
            => tx[p].holds # tx[q].holds

ReceiptsOK ==
    /\ receipts \in [Receipts -> ReceiptRow]
    /\ \A r \in Receipts : receipts[r].reversed <= receipts[r].amount

LInv ==
    /\ ReceiptsOK
    /\ tx = [p \in Proposals |-> tx[p]]
    /\ \A p \in Proposals : tx[p] # Idle => TransactionOK(p)
    /\ LocksHeld
    /\ Shaped(entries)
    /\ OneCredit

-----------------------------------------------------------------------------
\* What the engines compute.

LEMMA NewCreditsAreNew ==
    ASSUME NEW recs, NEW book, NEW p, NEW e \in NewCredits(recs, book, p)
    PROVE  /\ IsCredit(e) /\ "reversal" \in DOMAIN e
           /\ \A f \in book : ~SameOrigin(e, f)
           /\ e.receipt \in Receipts
           /\ Consultant[recs[e.receipt].proposal] = Consultant[p]
           /\ e.strategy = "SCALED_CONSULTANT" \/ recs[e.receipt].proposal = p
<1>1. \A f \in book : ~SameOrigin(e, f)
  BY DEF NewCredits
<1>2. CASE e \in ScaledCredits(recs, p)
  BY <1>1, <1>2 DEF ScaledCredits, NewCredit, IsCredit, Mes, Liquidos, Approved, ConsultantOf
<1>3. CASE e \in GroupCredits(recs, p)
  <2>1. PICK q \in (Of(recs, p) \intersect Liquidos(recs)) \X Groups :
          e = NewCredit(recs, q[1], q[2], Beneficiary(recs, q[2], q[1]),
                     GroupShare(recs, q[2], q[1], Beneficiary(recs, q[2], q[1])))
    BY <1>3 DEF GroupCredits
  <2> QED BY <1>1, <2>1 DEF NewCredit, IsCredit, Of, Approved
<1>4. CASE e \in StandardCredits(recs, p)
  BY <1>1, <1>4 DEF StandardCredits, NewCredit, IsCredit, Of, Approved
<1> QED BY <1>2, <1>3, <1>4 DEF NewCredits

LEMMA NewCreditsOnce ==
    ASSUME NEW recs, NEW book, NEW p, NEW e \in NewCredits(recs, book, p),
           NEW f \in NewCredits(recs, book, p), SameOrigin(e, f)
    PROVE  e = f
<1>1. ASSUME NEW g \in NewCredits(recs, book, p)
      PROVE  \/ g \in ScaledCredits(recs, p) /\ g.strategy = "SCALED_CONSULTANT"
             \/ g \in GroupCredits(recs, p) /\ g.strategy \in Groups
             \/ g \in StandardCredits(recs, p) /\ g.strategy = "STANDARD_CONSULTANT"
  <2>1. g \in ScaledCredits(recs, p) => g.strategy = "SCALED_CONSULTANT"
    BY DEF ScaledCredits, NewCredit
  <2>2. ASSUME g \in GroupCredits(recs, p) PROVE g.strategy \in Groups
    <3>1. PICK q \in (Of(recs, p) \intersect Liquidos(recs)) \X Groups :
            g = NewCredit(recs, q[1], q[2], Beneficiary(recs, q[2], q[1]),
                       GroupShare(recs, q[2], q[1], Beneficiary(recs, q[2], q[1])))
      BY <2>2 DEF GroupCredits
    <3> QED BY <3>1 DEF NewCredit
  <2>3. g \in StandardCredits(recs, p) => g.strategy = "STANDARD_CONSULTANT"
    BY DEF StandardCredits, NewCredit
  <2> QED BY <2>1, <2>2, <2>3 DEF NewCredits
<1>2. /\ "SCALED_CONSULTANT" \notin Groups
      /\ "STANDARD_CONSULTANT" \notin Groups
      /\ "SCALED_CONSULTANT" # "STANDARD_CONSULTANT"
  BY DEF Groups
<1>3. e.strategy = f.strategy /\ e.receipt = f.receipt
  BY DEF SameOrigin
<1>4. CASE e \in ScaledCredits(recs, p) /\ f \in ScaledCredits(recs, p)
  BY <1>3, <1>4 DEF ScaledCredits, NewCredit
<1>5. CASE e \in GroupCredits(recs, p) /\ f \in GroupCredits(recs, p)
  <2> DEFINE Made(r, s) == NewCredit(recs, r, s, Beneficiary(recs, s, r),
                                  GroupShare(recs, s, r, Beneficiary(recs, s, r)))
  <2>1. PICK q \in (Of(recs, p) \intersect Liquidos(recs)) \X Groups : e = Made(q[1], q[2])
    BY <1>5 DEF GroupCredits
  <2>2. PICK s \in (Of(recs, p) \intersect Liquidos(recs)) \X Groups : f = Made(s[1], s[2])
    BY <1>5 DEF GroupCredits
  <2>3. q[1] = s[1] /\ q[2] = s[2]
    BY <1>3, <2>1, <2>2 DEF NewCredit
  <2> QED BY <2>1, <2>2, <2>3
<1>6. CASE e \in StandardCredits(recs, p) /\ f \in StandardCredits(recs, p)
  BY <1>3, <1>6 DEF StandardCredits, NewCredit
<1> QED BY <1>1, <1>2, <1>3, <1>4, <1>5, <1>6

\* A debit is no credit once its reversal has an amount.
LEMMA DebitsAreDebits ==
    ASSUME NEW recs, NEW book, NEW r, NEW reversal \in Nat \ {0}, NEW amount,
           NEW e \in NewDebits(recs, book, r, reversal, amount), Shaped(book)
    PROVE  "reversal" \in DOMAIN e /\ ~IsCredit(e)
<1>1. PICK f \in book : \E value : e = NewDebit(f, reversal, value)
  BY DEF NewDebits, GroupDebits, ScaledDebits, StandardDebits, CreditsOf
<1>2. PICK value : e = [f EXCEPT !.reversal = reversal, !.amount = value]
  BY <1>1 DEF NewDebit
<1>3. "reversal" \in DOMAIN f
  BY DEF Shaped
<1> QED BY <1>2, <1>3 DEF IsCredit

-----------------------------------------------------------------------------
\* The steps.

LEMMA InitInv == LedgerInit => LInv
<1> SUFFICES ASSUME LedgerInit PROVE LInv
  OBVIOUS
<1>1. ReceiptsOK
  <2>1. PICK f \in Declarations :
          receipts = [r \in Receipts |->
              [proposal |-> f[r].proposal, amount |-> f[r].amount, date |-> f[r].date,
               status |-> f[r].status, reversed |-> 0]]
    BY DEF LedgerInit
  <2>2. /\ f \in [Receipts -> [proposal : Proposals, amount : Nat, date : CalendarDays,
                               status : {"SUBMITTED", "REJECTED"}]]
        /\ \A r \in Receipts : f[r].amount > 0
    BY DeclarationsAssumption
  <2> QED BY <2>1, <2>2 DEF ReceiptsOK, ReceiptRow
<1> QED BY <1>1 DEF LedgerInit, LInv, Idle, TransactionOK, LocksHeld, Shaped, OneCredit

\* A request that begins takes its lock and leaves the tables alone.
LEMMA BeginInv ==
    ASSUME LInv, NEW p \in Proposals, NEW request,
           tx[p] = Idle, tx' = [tx EXCEPT ![p] = request],
           UNCHANGED <<receipts, entries>>,
           TransactionOK(p)',
           request.holds \in People => ConsultantIsFree(request.holds)
    PROVE  LInv'
<1>1. \A q \in Proposals : tx'[q] = IF q = p THEN request ELSE tx[q]
  BY DEF LInv
<1>2. ReceiptsOK' /\ Shaped(entries)' /\ OneCredit'
  BY DEF LInv, ReceiptsOK, Shaped, OneCredit
<1>3. tx' = [q \in Proposals |-> tx'[q]]
  BY DEF LInv
<1>4. ASSUME NEW q \in Proposals, tx'[q] # Idle PROVE TransactionOK(q)'
  <2>1. CASE q = p
    BY <2>1
  <2>2. CASE q # p
    <3>1. TransactionOK(q) /\ tx'[q] = tx[q]
      BY <1>1, <1>4, <2>2 DEF LInv
    <3> QED BY <3>1 DEF TransactionOK, CreditOK, Credits
  <2> QED BY <2>1, <2>2
<1>5. LocksHeld'
  <2> SUFFICES ASSUME NEW q \in Proposals, NEW s \in Proposals, q # s,
                      tx'[q] # Idle, tx'[s] # Idle, tx'[q].holds \in People
               PROVE  tx'[q].holds # tx'[s].holds
    BY DEF LocksHeld
  <2>1. CASE q = p
    BY <1>1, <2>1 DEF ConsultantIsFree
  <2>2. CASE s = p
    BY <1>1, <2>2 DEF ConsultantIsFree
  <2>3. CASE q # p /\ s # p
    BY <1>1, <2>3 DEF LInv, LocksHeld
  <2> QED BY <2>1, <2>2, <2>3
<1> QED BY <1>2, <1>3, <1>4, <1>5 DEF LInv

LEMMA RecogniseInv ==
    ASSUME LInv, NEW p \in Proposals, NEW S \in SUBSET Receipts, BeginRecognise(p, S)
    PROVE  LInv'
<1> DEFINE recs == [r \in Receipts |->
                      IF r \in S THEN [receipts[r] EXCEPT !.status = "APPROVED"]
                      ELSE receipts[r]]
           adds == NewCredits(recs, entries, p)
           request == Request("recognise", Consultant[p], [r \in S |-> recs[r]], adds)
<1>1. /\ tx[p] = Idle /\ tx' = [tx EXCEPT ![p] = request]
      /\ UNCHANGED <<receipts, entries>> /\ ConsultantIsFree(Consultant[p])
  BY DEF BeginRecognise
<1>2. tx'[p] = request
  BY <1>1 DEF LInv
<1>3. /\ request.row = [r \in S |-> recs[r]] /\ request.adds = adds
      /\ request.holds = Consultant[p]
  BY DEF Request
<1>4. \A r \in Receipts : recs[r] \in ReceiptRow /\ recs[r].reversed = receipts[r].reversed
                          /\ recs[r].amount = receipts[r].amount
                          /\ recs[r].proposal = receipts[r].proposal
  BY DEF LInv, ReceiptsOK, ReceiptRow
<1>5. TransactionOK(p)'
  <2>1. \A r \in S : VersionOK(recs[r]) /\ recs[r].proposal = receipts'[r].proposal
    BY <1>1, <1>4 DEF LInv, ReceiptsOK, VersionOK
  <2>2. Shaped(adds) /\ OnePerOrigin(adds)
    BY NewCreditsAreNew, NewCreditsOnce DEF Shaped, OnePerOrigin, Credits
  <2>3. ASSUME NEW e \in Credits(adds)
        PROVE  CreditOK(p, e)' /\ \A f \in Credits(entries') : ~SameOrigin(e, f)
    <3>1. e \in NewCredits(recs, entries, p)
      BY DEF Credits
    <3> HIDE DEF recs, adds, request
    <3> QED BY <1>1, <1>4, <3>1, NewCreditsAreNew DEF CreditOK, Credits
  <2>a. \A r \in DOMAIN tx'[p].row : r \in S /\ tx'[p].row[r] = recs[r]
    BY <1>2, <1>3
  <2> HIDE DEF recs, adds, request
  <2> QED BY <1>2, <1>3, <2>1, <2>2, <2>3, <2>a DEF TransactionOK
<1> HIDE DEF request
<1> QED BY <1>1, <1>3, <1>5, BeginInv

LEMMA ReverseInv ==
    ASSUME LInv, NEW r \in Receipts, NEW amount \in Int, BeginReverse(r, amount),
           NEW p \in Proposals, p = receipts[r].proposal
    PROVE  LInv'
<1> DEFINE recs == Reversed(r, amount)
           adds == NewDebits(recs, entries, r, recs[r].reversed, amount)
           holder == IF IsScaled(entries, r) THEN Consultant[p] ELSE NoOne
           request == Request("reverse", holder, [q \in {r} |-> recs[q]], adds)
<1>1. /\ tx[p] = Idle /\ tx' = [tx EXCEPT ![p] = request]
      /\ UNCHANGED <<receipts, entries>>
      /\ 0 < amount /\ amount <= Liquido(receipts[r])
      /\ IsScaled(entries, r) => ConsultantIsFree(Consultant[p])
  BY DEF BeginReverse
<1>2. receipts[r] \in ReceiptRow
  BY DEF LInv, ReceiptsOK, ReceiptRow
<1>3. /\ request.row = [q \in {r} |-> recs[q]] /\ request.adds = adds
      /\ request.holds = holder
  BY DEF Request
<1>4. tx'[p] = request
  BY <1>1, <1>2 DEF LInv
<1>5. /\ recs[r] \in ReceiptRow /\ recs[r].proposal = p
      /\ recs[r].reversed = receipts[r].reversed + amount
      /\ recs[r].amount = receipts[r].amount
  BY <1>1, <1>2 DEF Reversed, ReceiptRow, LInv, ReceiptsOK
<1>6. recs[r].reversed \in Nat \ {0} /\ recs[r].reversed <= recs[r].amount
  BY <1>1, <1>2, <1>5 DEF ReceiptRow, Liquido, Larger
<1>7. TransactionOK(p)'
  <2>1. Shaped(adds) /\ Credits(adds) = {}
    BY <1>6, DebitsAreDebits DEF Shaped, Credits, LInv
  <2>2. VersionOK(recs[r])
    BY <1>5, <1>6 DEF VersionOK
  <2>a. \A q \in DOMAIN tx'[p].row : q = r /\ tx'[p].row[q] = recs[r]
    BY <1>3, <1>4
  <2>b. recs[r].proposal = receipts'[r].proposal
    BY <1>1, <1>5
  <2> HIDE DEF recs, adds, holder, request
  <2> QED BY <1>3, <1>4, <2>1, <2>2, <2>a, <2>b DEF TransactionOK, OnePerOrigin
<1>8. holder \in People => ConsultantIsFree(holder)
  BY <1>1, NoOneAssumption
<1> HIDE DEF recs, adds, holder, request
<1> QED BY <1>1, <1>2, <1>3, <1>7, <1>8, BeginInv

LEMMA CommitInv ==
    ASSUME LInv, NEW p \in Proposals, Commit(p)
    PROVE  LInv'
<1>1. /\ tx[p] # Idle /\ entries' = entries \union tx[p].adds
      /\ tx' = [tx EXCEPT ![p] = Idle]
      /\ receipts' = [r \in Receipts |->
             IF r \in DOMAIN tx[p].row THEN tx[p].row[r] ELSE receipts[r]]
  BY DEF Commit
<1>2. TransactionOK(p)
  BY <1>1 DEF LInv
<1>3. ReceiptsOK' /\ \A r \in Receipts : receipts'[r].proposal = receipts[r].proposal
  BY <1>1, <1>2 DEF TransactionOK, VersionOK, LInv, ReceiptsOK
<1>4. \A q \in Proposals : tx'[q] = IF q = p THEN Idle ELSE tx[q]
  BY <1>1 DEF LInv
<1>5. tx' = [q \in Proposals |-> tx'[q]]
  BY <1>1 DEF LInv
<1>6. LocksHeld'
  BY <1>4 DEF LInv, LocksHeld
<1>7. Shaped(entries)'
  BY <1>1, <1>2 DEF LInv, Shaped, TransactionOK
<1>8. OneCredit'
  BY <1>1, <1>2 DEF LInv, OneCredit, TransactionOK, OnePerOrigin, Credits, SameOrigin
<1>9. ASSUME NEW q \in Proposals, tx'[q] # Idle PROVE TransactionOK(q)'
  <2>1. q # p /\ tx'[q] = tx[q] /\ tx[q] # Idle /\ TransactionOK(q)
    BY <1>4, <1>9 DEF LInv
  <2>2. ASSUME NEW e \in Credits(tx[q].adds), NEW f \in Credits(tx[p].adds), SameOrigin(e, f)
        PROVE  FALSE
    <3>1. CreditOK(q, e) /\ tx[q].holds = Consultant[q]
      BY <2>1 DEF TransactionOK
    <3>2. CreditOK(p, f) /\ tx[p].holds = Consultant[p]
      BY <1>2 DEF TransactionOK
    <3>3. Consultant[p] = Consultant[q]
      BY <2>2, <3>1, <3>2 DEF CreditOK, SameOrigin
    <3>4. Consultant[p] \in People
      BY ProposalsAssumption
    <3> QED BY <1>1, <2>1, <3>1, <3>2, <3>3, <3>4 DEF LInv, LocksHeld
  <2>3. \A e \in Credits(tx[q].adds) : \A f \in Credits(entries') : ~SameOrigin(e, f)
    BY <1>1, <2>1, <2>2 DEF TransactionOK, Credits
  <2>4. \A e \in Credits(tx[q].adds) : CreditOK(q, e)'
    BY <1>3, <2>1 DEF TransactionOK, CreditOK
  <2>5. \A r \in DOMAIN tx[q].row :
          VersionOK(tx[q].row[r]) /\ (r \in Receipts => tx[q].row[r].proposal = receipts'[r].proposal)
    BY <1>3, <2>1 DEF TransactionOK
  <2> QED BY <2>1, <2>3, <2>4, <2>5 DEF TransactionOK
<1> QED BY <1>3, <1>5, <1>6, <1>7, <1>8, <1>9 DEF LInv

LEMMA NextInv == LInv /\ [LedgerNext]_ledgerVars => LInv'
<1> SUFFICES ASSUME LInv, [LedgerNext]_ledgerVars PROVE LInv'
  OBVIOUS
<1>1. CASE UNCHANGED <<receipts, entries, tx>>
  BY <1>1 DEF LInv, ReceiptsOK, TransactionOK, CreditOK, LocksHeld, OneCredit
<1>2. ASSUME NEW p \in Proposals, NEW S \in SUBSET Receipts, BeginRecognise(p, S) PROVE LInv'
  BY <1>2, RecogniseInv
<1>3. ASSUME NEW r \in Receipts, NEW total \in Levels[r] \union {receipts[r].amount},
             BeginReverse(r, total - receipts[r].reversed)
      PROVE  LInv'
  <2>1. receipts[r].reversed \in Nat /\ total \in Nat /\ receipts[r].proposal \in Proposals
    BY DeclarationsAssumption DEF LInv, ReceiptsOK, ReceiptRow
  <2> QED BY <1>3, <2>1, ReverseInv
<1>4. ASSUME NEW p \in Proposals, Commit(p) PROVE LInv'
  BY <1>4, CommitInv
<1>5. CASE UNCHANGED ledgerVars
  BY <1>1, <1>5 DEF ledgerVars
<1> QED BY <1>1, <1>2, <1>3, <1>4, <1>5 DEF LedgerNext, CloseLedgerPeriod, ReopenPeriod

-----------------------------------------------------------------------------
\* No receipt is credited twice to one beneficiary under one strategy: the
\* engines look for what is in the book, and the locks of the proposal and of
\* the consultant keep anybody else from adding it meanwhile.
THEOREM CreditedOnce == LedgerSpec => []OneCredit
<1>1. LInv => OneCredit
  BY DEF LInv
<1> QED BY <1>1, InitInv, NextInv, PTL DEF LedgerSpec

\* A receipt is never reversed beyond its amount: the row a transaction writes
\* back is the one it read under the lock of the proposal.
THEOREM ReversedWithinReceipt ==
    LedgerSpec => [](\A r \in Receipts : receipts[r].reversed <= receipts[r].amount)
<1>1. LInv => \A r \in Receipts : receipts[r].reversed <= receipts[r].amount
  BY DEF LInv, ReceiptsOK
<1> QED BY <1>1, InitInv, NextInv, PTL DEF LedgerSpec

-----------------------------------------------------------------------------
(***************************************************************************)
(* SumTable.  SumFunction is a recursion over sets.  That it has a value, and  *)
(* the same one in any order, is shown by a smallest counterexample, as    *)
(* are the facts about sums that the money of the ledger needs.            *)
(***************************************************************************)

LEMMA SmallestSet ==
    ASSUME NEW D, IsFiniteSet(D), NEW Bad \in SUBSET SUBSET D, Bad # {}
    PROVE  \E A \in Bad : \A B \in Bad : B \subseteq A => B = A
<1> DEFINE T == {n \in Nat : \E A \in Bad : Cardinality(A) = n}
<1>1. \A A \in Bad : IsFiniteSet(A) /\ Cardinality(A) \in Nat
  BY FS_Subset, FS_CardinalityType
<1>2. T # {}
  BY <1>1
<1>3. PICK n \in T : \A k \in T : ~(<<k, n>> \in OpToRel(<, Nat))
  <2>1. T \subseteq Nat
    OBVIOUS
  <2> HIDE DEF T
  <2> QED  BY <1>2, <2>1, NatLessThanWellFounded, WFMin
<1>4. \A k \in T : ~(k < n)
  BY <1>3 DEF OpToRel
<1>5. PICK A \in Bad : Cardinality(A) = n
  BY <1>3
<1>6. ASSUME NEW B \in Bad, B \subseteq A, B # A PROVE FALSE
  <2>1. Cardinality(B) <= Cardinality(A) /\ Cardinality(B) # Cardinality(A)
    BY <1>1, <1>6, FS_Subset
  <2>2. Cardinality(B) \in T /\ Cardinality(B) \in Nat /\ n \in Nat
    BY <1>1, <1>6
  <2> QED  BY <1>4, <1>5, <2>1, <2>2
<1> QED  BY <1>5, <1>6

\* What holds of the empty set and of a set with one element more.
LEMMA SetInduction ==
    ASSUME NEW D, IsFiniteSet(D), NEW P \in SUBSET SUBSET D, {} \in P,
           \A A \in P : \A x \in D \ A : A \union {x} \in P
    PROVE  D \in P
<1> SUFFICES ASSUME D \notin P PROVE FALSE
  OBVIOUS
<1> DEFINE Bad == (SUBSET D) \ P
<1>1. Bad \in SUBSET SUBSET D /\ D \in Bad
  OBVIOUS
<1>2. PICK A \in Bad : \A B \in Bad : B \subseteq A => B = A
  <2> HIDE DEF Bad
  <2> QED  BY <1>1, SmallestSet
<1>3. PICK x \in A : TRUE
  BY <1>2
<1>4. A \ {x} \in P
  BY <1>2, <1>3
<1>5. (A \ {x}) \union {x} = A /\ x \in D \ (A \ {x})
  BY <1>2, <1>3
<1> QED  BY <1>2, <1>4, <1>5

Any(s) == CHOOSE x \in s : TRUE

SumStep(f, g, s) == IF s = {} THEN 0 ELSE f[Any(s)] + g[s \ {Any(s)}]

SumsOf(f, g, D) == g = [s \in SUBSET D |-> SumStep(f, g, s)]

SumTable(f, D) == CHOOSE g : SumsOf(f, g, D)

SumIn(f, S) == SumTable(f, S)[S]

LEMMA SumsAgree ==
    ASSUME NEW f, NEW C, NEW D, NEW g, NEW h, SumsOf(f, g, C), SumsOf(f, h, D),
           IsFiniteSet(C), NEW s \in SUBSET C, s \in SUBSET D
    PROVE  g[s] = h[s]
<1> SUFFICES ASSUME g[s] # h[s] PROVE FALSE
  OBVIOUS
<1> DEFINE Bad == {t \in SUBSET C : t \in SUBSET D /\ g[t] # h[t]}
<1>1. Bad \in SUBSET SUBSET C /\ Bad # {}
  OBVIOUS
<1>2. PICK t \in Bad : \A u \in Bad : u \subseteq t => u = t
  <2> HIDE DEF Bad
  <2> QED  BY <1>1, SmallestSet
<1>3. g[t] = SumStep(f, g, t) /\ h[t] = SumStep(f, h, t)
  BY <1>2 DEF SumsOf
<1>4. t # {}
  BY <1>2, <1>3 DEF SumStep
<1>5. Any(t) \in t
  BY <1>4 DEF Any
<1>6. t \ {Any(t)} \notin Bad
  BY <1>2, <1>5
<1>7. g[t \ {Any(t)}] = h[t \ {Any(t)}]
  BY <1>2, <1>6
<1> QED  BY <1>2, <1>3, <1>7 DEF SumStep

LEMMA SumsExist ==
    ASSUME NEW f, NEW D, IsFiniteSet(D)
    PROVE  SumsOf(f, SumTable(f, D), D)
<1> SUFFICES \E g : SumsOf(f, g, D)
  BY DEF SumTable
<1> SUFFICES ASSUME ~\E g : SumsOf(f, g, D) PROVE FALSE
  OBVIOUS
<1> DEFINE Bad == {A \in SUBSET D : ~\E g : SumsOf(f, g, A)}
<1>1. Bad \in SUBSET SUBSET D /\ Bad # {}
  OBVIOUS
<1>2. PICK A \in Bad : \A B \in Bad : B \subseteq A => B = A
  <2> HIDE DEF Bad
  <2> QED  BY <1>1, SmallestSet
<1>3. \A s \in SUBSET D : IsFiniteSet(s)
  BY FS_Subset
<1>4. \A s \in SUBSET A : s # A => SumsOf(f, SumTable(f, s), s)
  BY <1>2 DEF SumTable
<1> DEFINE v(s) == SumTable(f, s)[s]
           h == [s \in SUBSET A |-> IF s = A THEN SumStep(f, [t \in SUBSET A |-> v(t)], A) ELSE v(s)]
<1>5. ASSUME NEW s \in SUBSET A PROVE h[s] = SumStep(f, h, s)
  <2>1. CASE s = {}
    <3>1. SumStep(f, h, s) = 0 /\ \A g : SumStep(f, g, s) = 0
      BY <2>1 DEF SumStep
    <3>2. s # A => v(s) = SumStep(f, SumTable(f, s), s)
      BY <1>4 DEF SumsOf
    <3> QED  BY <2>1, <3>1, <3>2
  <2>2. CASE s # {}
    <3> DEFINE t == s \ {Any(s)}
    <3>1. Any(s) \in s
      BY <2>2 DEF Any
    <3>2. t \in SUBSET A /\ t # A /\ t \in SUBSET s /\ t # s
      BY <3>1
    <3> HIDE DEF t
    <3>3. h[t] = v(t)
      BY <3>2
    <3> HIDE DEF h
    <3>4. SumStep(f, h, s) = f[Any(s)] + v(t)
      BY <2>2, <3>3 DEF SumStep, t
    <3>5. CASE s = A
      <4>1. h[s] = SumStep(f, [u \in SUBSET A |-> v(u)], A)
        BY <3>5 DEF h
      <4>2. SumStep(f, [u \in SUBSET A |-> v(u)], A) = f[Any(s)] + v(t)
        BY <2>2, <3>2, <3>5 DEF SumStep, t
      <4> QED  BY <3>4, <4>1, <4>2
    <3>6. CASE s # A
      <4>1. h[s] = v(s)
        BY <3>6 DEF h
      <4>2. SumsOf(f, SumTable(f, s), s)
        BY <1>4, <3>6
      <4>3. v(s) = f[Any(s)] + SumTable(f, s)[t]
        BY <2>2, <4>2 DEF SumsOf, SumStep, t
      <4>4. SumsOf(f, SumTable(f, t), t)
        BY <1>4, <3>2
      <4>5. SumTable(f, s)[t] = SumTable(f, t)[t]
        BY <1>3, <3>2, <4>2, <4>4, SumsAgree
      <4> QED  BY <3>4, <4>1, <4>3, <4>5
    <3> QED  BY <3>5, <3>6
  <2> QED  BY <2>1, <2>2
<1>6. SumsOf(f, h, A)
  <2>1. h = [s \in SUBSET A |-> h[s]]
    OBVIOUS
  <2> HIDE DEF h
  <2> QED  BY <1>5, <2>1 DEF SumsOf
<1> QED  BY <1>2, <1>6

LEMMA SumFunctionIn ==
    ASSUME NEW f
    PROVE  SumFunction(f) = SumIn(f, DOMAIN f)
BY DEF SumFunction, SumFunctionOnSet, FoldFunctionOnSet, MapThenFoldSet, SumIn, SumTable, SumsOf, SumStep, Any

LEMMA SumOne ==
    ASSUME NEW f, NEW S, IsFiniteSet(S)
    PROVE  /\ SumIn(f, {}) = 0
           /\ S # {} => Any(S) \in S /\ SumIn(f, S) = f[Any(S)] + SumIn(f, S \ {Any(S)})
<1>1. \A s \in SUBSET S : IsFiniteSet(s) /\ SumsOf(f, SumTable(f, s), s)
  BY FS_Subset, SumsExist
<1>2. SumIn(f, {}) = 0
  BY <1>1 DEF SumsOf, SumStep, SumIn
<1>3. ASSUME S # {} PROVE Any(S) \in S /\ SumIn(f, S) = f[Any(S)] + SumIn(f, S \ {Any(S)})
  <2> DEFINE t == S \ {Any(S)}
  <2>1. Any(S) \in S
    BY <1>3 DEF Any
  <2>2. SumIn(f, S) = f[Any(S)] + SumTable(f, S)[t]
    BY <1>1, <1>3 DEF SumsOf, SumStep, SumIn
  <2>3. SumTable(f, S)[t] = SumTable(f, t)[t]
    BY <1>1, SumsAgree
  <2>4. SumIn(f, S) = f[Any(S)] + SumIn(f, S \ {Any(S)})
    BY <2>2, <2>3 DEF SumIn
  <2> QED  BY <2>1, <2>4
<1> QED  BY <1>2, <1>3

Numbers(f, S) == \A x \in S : f[x] \in Int

\* The order does not matter.
LEMMA SumAny ==
    ASSUME NEW f, NEW D, IsFiniteSet(D), Numbers(f, D)
    PROVE  /\ SumIn(f, D) \in Int
           /\ \A x \in D : SumIn(f, D) = f[x] + SumIn(f, D \ {x})
<1> DEFINE Good(S) == /\ SumIn(f, S) \in Int
                      /\ \A x \in S : SumIn(f, S) = f[x] + SumIn(f, S \ {x})
           Bad == {S \in SUBSET D : ~Good(S)}
<1> SUFFICES ASSUME D \in Bad PROVE FALSE
  OBVIOUS
<1>1. Bad \in SUBSET SUBSET D /\ Bad # {}
  OBVIOUS
<1>2. PICK S \in Bad : \A B \in Bad : B \subseteq S => B = S
  <2> HIDE DEF Bad
  <2> QED  BY <1>1, SmallestSet
<1>3. S \in SUBSET D /\ ~Good(S) /\ \A B \in SUBSET S : B # S => Good(B)
  BY <1>2
<1> HIDE DEF Bad
<1>4. IsFiniteSet(S)
  BY <1>3, FS_Subset
<1>5. S # {}
  <2>1. SumIn(f, {}) = 0
    BY <1>4, SumOne
  <2>2. Good({})
    BY <2>1
  <2> QED  BY <1>3, <2>2
<1> DEFINE y == Any(S)
<1>6. y \in S /\ SumIn(f, S) = f[y] + SumIn(f, S \ {y})
  BY <1>4, <1>5, SumOne
<1>7. Good(S \ {y}) /\ f[y] \in Int
  BY <1>3, <1>6 DEF Numbers
<1>8. SumIn(f, S) \in Int
  BY <1>6, <1>7
<1> HIDE DEF y
<1>9. ASSUME NEW x \in S PROVE SumIn(f, S) = f[x] + SumIn(f, S \ {x})
  <2>1. CASE x = y
    BY <1>6, <2>1
  <2>2. CASE x # y
    <3>1. SumIn(f, S \ {y}) = f[x] + SumIn(f, (S \ {y}) \ {x})
      BY <1>7, <2>2
    <3>2. Good(S \ {x}) /\ y \in S \ {x}
      BY <1>3, <1>6, <2>2
    <3>3. SumIn(f, S \ {x}) = f[y] + SumIn(f, (S \ {x}) \ {y})
      BY <3>2
    <3>4. (S \ {x}) \ {y} = (S \ {y}) \ {x}
      OBVIOUS
    <3>5. Good((S \ {y}) \ {x})
      BY <1>3, <1>6
    <3>6. f[x] \in Int /\ f[y] \in Int /\ SumIn(f, (S \ {y}) \ {x}) \in Int
      BY <1>3, <1>7, <3>5 DEF Numbers
    <3> DEFINE rest == SumIn(f, (S \ {y}) \ {x})
    <3>7. SumIn(f, S) = f[y] + (f[x] + rest) /\ SumIn(f, S \ {x}) = f[y] + rest /\ rest \in Int
      BY <1>6, <3>1, <3>3, <3>4, <3>6
    <3> HIDE DEF rest
    <3> QED  BY <3>6, <3>7
  <2> QED  BY <2>1, <2>2
<1> QED  BY <1>3, <1>8, <1>9

LEMMA SumInt ==
    ASSUME NEW f, NEW S, IsFiniteSet(S), Numbers(f, S)
    PROVE  SumIn(f, S) \in Int
BY SumAny

LEMMA SumEmpty == \A f : SumIn(f, {}) = 0
BY SumOne, FS_EmptySet

LEMMA SumMore ==
    ASSUME NEW f, NEW S, IsFiniteSet(S), Numbers(f, S), NEW x, x \notin S, f[x] \in Int
    PROVE  SumIn(f, S \union {x}) = SumIn(f, S) + f[x] /\ SumIn(f, S \union {x}) \in Int
<1>1. IsFiniteSet(S \union {x}) /\ Numbers(f, S \union {x})
  BY FS_AddElement DEF Numbers
<1>2. (S \union {x}) \ {x} = S
  OBVIOUS
<1>3. SumIn(f, S \union {x}) = f[x] + SumIn(f, S)
  BY <1>1, <1>2, SumAny
<1> QED  BY <1>3, SumInt

\* SumTable of the same numbers.
LEMMA SumSame ==
    ASSUME NEW f, NEW g, NEW D, IsFiniteSet(D), \A x \in D : f[x] = g[x]
    PROVE  SumIn(f, D) = SumIn(g, D)
<1> DEFINE Bad == {S \in SUBSET D : SumIn(f, S) # SumIn(g, S)}
<1> SUFFICES ASSUME D \in Bad PROVE FALSE
  OBVIOUS
<1>2. PICK S \in Bad : \A B \in Bad : B \subseteq S => B = S
  <2>1. Bad \in SUBSET SUBSET D /\ Bad # {}
    OBVIOUS
  <2> HIDE DEF Bad
  <2> QED  BY <2>1, SmallestSet
<1>3. S \in SUBSET D /\ SumIn(f, S) # SumIn(g, S) /\ IsFiniteSet(S)
  BY <1>2, FS_Subset
<1>4. S # {}
  BY <1>3, SumEmpty
<1>5. /\ Any(S) \in S /\ SumIn(f, S) = f[Any(S)] + SumIn(f, S \ {Any(S)})
      /\ SumIn(g, S) = g[Any(S)] + SumIn(g, S \ {Any(S)})
  BY <1>3, <1>4, SumOne
<1>6. S \ {Any(S)} \notin Bad
  BY <1>2, <1>5
<1> QED  BY <1>3, <1>5, <1>6

\* A sum written as that of a function over one set is that of any other
\* function with its values.
LEMMA SumOver ==
    ASSUME NEW f, NEW g, IsFiniteSet(DOMAIN f), \A x \in DOMAIN f : f[x] = g[x]
    PROVE  SumFunction(f) = SumIn(g, DOMAIN f)
BY SumFunctionIn, SumSame

LEMMA SumUnion ==
    ASSUME NEW f, NEW A, NEW D, IsFiniteSet(A), IsFiniteSet(D), Numbers(f, A), Numbers(f, D),
           A \intersect D = {}
    PROVE  SumIn(f, A \union D) = SumIn(f, A) + SumIn(f, D)
<1> DEFINE P == {B \in SUBSET D : SumIn(f, A \union B) = SumIn(f, A) + SumIn(f, B)}
<1>1. P \in SUBSET SUBSET D
  OBVIOUS
<1>2. {} \in P
  BY SumInt, SumEmpty
<1>3. ASSUME NEW B \in P, NEW x \in D \ B PROVE B \union {x} \in P
  <2>1. IsFiniteSet(B) /\ IsFiniteSet(A \union B) /\ Numbers(f, B) /\ Numbers(f, A \union B)
    BY FS_Subset, FS_Union DEF Numbers
  <2>2. x \notin B /\ x \notin A \union B /\ f[x] \in Int
    BY DEF Numbers
  <2>3. SumIn(f, (A \union B) \union {x}) = SumIn(f, A \union B) + f[x]
    BY <2>1, <2>2, SumMore
  <2>4. SumIn(f, B \union {x}) = SumIn(f, B) + f[x]
    BY <2>1, <2>2, SumMore
  <2>5. SumIn(f, A) \in Int /\ SumIn(f, B) \in Int
    BY <2>1, SumInt
  <2>6. (A \union B) \union {x} = A \union (B \union {x})
    OBVIOUS
  <2>7. SumIn(f, A \union B) = SumIn(f, A) + SumIn(f, B)
    OBVIOUS
  <2> DEFINE a == SumIn(f, A)
             b == SumIn(f, B)
  <2>8. /\ SumIn(f, A \union (B \union {x})) = (a + b) + f[x]
        /\ SumIn(f, B \union {x}) = b + f[x]
    BY <2>3, <2>4, <2>6, <2>7
  <2>9. a \in Int /\ b \in Int /\ a = SumIn(f, A)
    BY <2>5
  <2> HIDE DEF a, b
  <2>10. SumIn(f, A \union (B \union {x})) = a + SumIn(f, B \union {x})
    BY <2>2, <2>8, <2>9
  <2> QED  BY <2>9, <2>10
<1>4. D \in P
  <2> HIDE DEF P
  <2> QED  BY <1>1, <1>2, <1>3, SetInduction
<1> QED  BY <1>4

LEMMA SumAtMost ==
    ASSUME NEW f, NEW g, NEW h, NEW D, IsFiniteSet(D), Numbers(f, D), Numbers(g, D), Numbers(h, D),
           \A x \in D : f[x] <= g[x] + h[x]
    PROVE  SumIn(f, D) <= SumIn(g, D) + SumIn(h, D)
<1> DEFINE P == {B \in SUBSET D : SumIn(f, B) <= SumIn(g, B) + SumIn(h, B)}
<1>1. P \in SUBSET SUBSET D
  OBVIOUS
<1>2. {} \in P
  BY SumEmpty
<1>3. ASSUME NEW B \in P, NEW x \in D \ B PROVE B \union {x} \in P
  <2>1. IsFiniteSet(B) /\ Numbers(f, B) /\ Numbers(g, B) /\ Numbers(h, B)
    BY FS_Subset DEF Numbers
  <2>2. x \notin B /\ f[x] \in Int /\ g[x] \in Int /\ h[x] \in Int
    BY DEF Numbers
  <2>3. /\ SumIn(f, B \union {x}) = SumIn(f, B) + f[x]
        /\ SumIn(g, B \union {x}) = SumIn(g, B) + g[x]
        /\ SumIn(h, B \union {x}) = SumIn(h, B) + h[x]
    BY <2>1, <2>2, SumMore
  <2>4. SumIn(f, B) \in Int /\ SumIn(g, B) \in Int /\ SumIn(h, B) \in Int
    BY <2>1, SumInt
  <2> QED  BY <2>2, <2>3, <2>4
<1>4. D \in P
  <2> HIDE DEF P
  <2> QED  BY <1>1, <1>2, <1>3, SetInduction
<1> QED  BY <1>4

LEMMA SumPlus ==
    ASSUME NEW f, NEW g, NEW h, NEW D, IsFiniteSet(D), Numbers(f, D), Numbers(g, D), Numbers(h, D),
           \A x \in D : f[x] = g[x] + h[x]
    PROVE  SumIn(f, D) = SumIn(g, D) + SumIn(h, D)
<1> DEFINE P == {B \in SUBSET D : SumIn(f, B) = SumIn(g, B) + SumIn(h, B)}
<1>1. P \in SUBSET SUBSET D
  OBVIOUS
<1>2. {} \in P
  BY SumEmpty
<1>3. ASSUME NEW B \in P, NEW x \in D \ B PROVE B \union {x} \in P
  <2>1. IsFiniteSet(B) /\ Numbers(f, B) /\ Numbers(g, B) /\ Numbers(h, B)
    BY FS_Subset DEF Numbers
  <2>2. x \notin B /\ f[x] \in Int /\ g[x] \in Int /\ h[x] \in Int
    BY DEF Numbers
  <2>3. /\ SumIn(f, B \union {x}) = SumIn(f, B) + f[x]
        /\ SumIn(g, B \union {x}) = SumIn(g, B) + g[x]
        /\ SumIn(h, B \union {x}) = SumIn(h, B) + h[x]
    BY <2>1, <2>2, SumMore
  <2>4. SumIn(f, B) \in Int /\ SumIn(g, B) \in Int /\ SumIn(h, B) \in Int
    BY <2>1, SumInt
  <2>5. f[x] = g[x] + h[x] /\ SumIn(f, B) = SumIn(g, B) + SumIn(h, B)
    OBVIOUS
  <2>6. SumIn(f, B \union {x}) = SumIn(g, B \union {x}) + SumIn(h, B \union {x})
    BY <2>2, <2>3, <2>4, <2>5
  <2> QED  BY <2>6
<1>4. D \in P
  <2> HIDE DEF P
  <2> QED  BY <1>1, <1>2, <1>3, SetInduction
<1> QED  BY <1>4

LEMMA SumTimes ==
    ASSUME NEW f, NEW g, NEW k \in Int, NEW D, IsFiniteSet(D), Numbers(f, D),
           \A x \in D : g[x] = k * f[x]
    PROVE  SumIn(g, D) = k * SumIn(f, D)
<1> DEFINE P == {B \in SUBSET D : SumIn(g, B) = k * SumIn(f, B)}
<1>1. P \in SUBSET SUBSET D
  OBVIOUS
<1>2. {} \in P
  BY SumEmpty
<1>3. ASSUME NEW B \in P, NEW x \in D \ B PROVE B \union {x} \in P
  <2>1. IsFiniteSet(B) /\ Numbers(f, B) /\ Numbers(g, B)
    BY FS_Subset DEF Numbers
  <2>2. x \notin B /\ f[x] \in Int /\ g[x] \in Int /\ g[x] = k * f[x]
    BY DEF Numbers
  <2>3. SumIn(f, B \union {x}) = SumIn(f, B) + f[x] /\ SumIn(g, B \union {x}) = SumIn(g, B) + g[x]
    BY <2>1, <2>2, SumMore
  <2>4. SumIn(f, B) \in Int
    BY <2>1, SumInt
  <2>5. \A a, b \in Int : k * (a + b) = k * a + k * b
    OBVIOUS
  <2> QED  BY <2>2, <2>3, <2>4, <2>5
<1>4. D \in P
  <2> HIDE DEF P
  <2> QED  BY <1>1, <1>2, <1>3, SetInduction
<1> QED  BY <1>4

LEMMA SumConstant ==
    ASSUME NEW f, NEW k \in Int, NEW D, IsFiniteSet(D), \A x \in D : f[x] = k
    PROVE  SumIn(f, D) = k * Cardinality(D)
<1> DEFINE P == {B \in SUBSET D : SumIn(f, B) = k * Cardinality(B)}
<1>1. P \in SUBSET SUBSET D
  OBVIOUS
<1>2. {} \in P
  BY SumEmpty, FS_EmptySet
<1>3. ASSUME NEW B \in P, NEW x \in D \ B PROVE B \union {x} \in P
  <2>1. IsFiniteSet(B) /\ Numbers(f, B) /\ Cardinality(B) \in Nat
    BY FS_Subset, FS_CardinalityType DEF Numbers
  <2>2. SumIn(f, B \union {x}) = SumIn(f, B) + k
    BY <2>1, SumMore
  <2>3. Cardinality(B \union {x}) = Cardinality(B) + 1
    BY <2>1, FS_AddElement
  <2>4. k * (Cardinality(B) + 1) = k * Cardinality(B) + k
    BY <2>1
  <2> QED  BY <2>2, <2>3, <2>4
<1>4. D \in P
  <2> HIDE DEF P
  <2> QED  BY <1>1, <1>2, <1>3, SetInduction
<1> QED  BY <1>4

PartAt(E, m, c) == {e \in E : m[e] = c}

\* The sum of the sums of the parts.
LEMMA SumOfParts ==
    ASSUME NEW f, NEW E, IsFiniteSet(E), Numbers(f, E), NEW m, NEW K, IsFiniteSet(K),
           \A e \in E : m[e] \in K,
           NEW n, \A c \in K : n[c] = SumIn(f, PartAt(E, m, c))
    PROVE  SumIn(n, K) = SumIn(f, E)
<1> DEFINE Part(B) == {e \in E : m[e] \in B}
           P == {B \in SUBSET K : SumIn(n, B) = SumIn(f, Part(B))}
<1>1. P \in SUBSET SUBSET K
  OBVIOUS
<1>2. {} \in P
  <2>1. Part({}) = {}
    OBVIOUS
  <2> QED  BY <2>1, SumEmpty
<1>3. \A S \in SUBSET E : IsFiniteSet(S) /\ Numbers(f, S) /\ SumIn(f, S) \in Int
  BY FS_Subset, SumInt DEF Numbers
<1>4. ASSUME NEW B \in P, NEW c \in K \ B PROVE B \union {c} \in P
  <2>1. IsFiniteSet(B) /\ Numbers(n, B) /\ n[c] \in Int
    <3>1. \A k \in K : PartAt(E, m, k) \in SUBSET E /\ n[k] = SumIn(f, PartAt(E, m, k))
      BY DEF PartAt
    <3>2. \A k \in K : n[k] \in Int
      BY <1>3, <3>1
    <3> QED  BY <3>2, FS_Subset DEF Numbers
  <2>2. SumIn(n, B \union {c}) = SumIn(n, B) + n[c]
    BY <2>1, SumMore
  <2> DEFINE Of1 == PartAt(E, m, c)
  <2>3. Part(B \union {c}) = Part(B) \union Of1 /\ Part(B) \intersect Of1 = {}
    BY DEF PartAt
  <2>4. Part(B) \in SUBSET E /\ Of1 \in SUBSET E /\ n[c] = SumIn(f, Of1)
    BY DEF PartAt
  <2>5. SumIn(n, B) = SumIn(f, Part(B))
    OBVIOUS
  <2> HIDE DEF Part, Of1
  <2>6. SumIn(f, Part(B) \union Of1) = SumIn(f, Part(B)) + SumIn(f, Of1)
    BY <1>3, <2>3, <2>4, SumUnion
  <2>7. SumIn(n, B \union {c}) = SumIn(f, Part(B \union {c}))
    BY <2>2, <2>3, <2>4, <2>5, <2>6
  <2> QED  BY <2>7
<1>5. K \in P
  <2> HIDE DEF P
  <2> QED  BY <1>1, <1>2, <1>4, SetInduction
<1>6. Part(K) = E
  OBVIOUS
<1> QED  BY <1>5, <1>6

\* A part of what is not negative.
LEMMA SumOfPart ==
    ASSUME NEW f, NEW D, IsFiniteSet(D), \A x \in D : f[x] \in Nat, NEW S \in SUBSET D
    PROVE  0 <= SumIn(f, S) /\ SumIn(f, S) <= SumIn(f, D)
<1>1. \A A \in SUBSET D : IsFiniteSet(A) /\ Numbers(f, A) /\ SumIn(f, A) \in Int
  BY FS_Subset, SumInt DEF Numbers
<1>2. \A A \in SUBSET D : 0 <= SumIn(f, A)
  <2> SUFFICES ASSUME NEW A \in SUBSET D PROVE 0 <= SumIn(f, A)
    OBVIOUS
  <2> DEFINE z == [x \in D |-> 0]
  <2>1. Numbers(z, A) /\ \A x \in A : z[x] <= f[x] + z[x]
    BY DEF Numbers
  <2>2. \A x \in A : z[x] = 0
    OBVIOUS
  <2> HIDE DEF z
  <2>3. SumIn(z, A) = 0 * Cardinality(A)
    BY <1>1, <2>2, SumConstant
  <2>4. SumIn(z, A) = 0
    BY <1>1, <2>3, FS_CardinalityType
  <2>5. SumIn(z, A) <= SumIn(f, A) + SumIn(z, A)
    BY <1>1, <2>1, SumAtMost
  <2> QED  BY <1>1, <2>4, <2>5
<1>3. SumIn(f, S \union (D \ S)) = SumIn(f, S) + SumIn(f, D \ S)
  BY <1>1, SumUnion
<1>4. S \union (D \ S) = D /\ D \ S \in SUBSET D
  OBVIOUS
<1>5. SumIn(f, S) \in Int /\ SumIn(f, D \ S) \in Int
  BY <1>1, <1>4
<1> QED  BY <1>2, <1>3, <1>4, <1>5

-----------------------------------------------------------------------------
\* Rounding.

LEMMA PercentRounds ==
    ASSUME NEW b \in Nat, NEW k \in Nat
    PROVE  /\ Percent(b, k) \in Nat
           /\ 100 * Percent(b, k) <= b * k + 50
           /\ b * k <= 100 * Percent(b, k) + 50
<1> DEFINE x == b * k
<1>1. x \in Nat
  OBVIOUS
<1>2. Percent(b, k) = (2 * x + 100) \div (2 * 100)
  BY DEF Percent, Quantize
<1> HIDE DEF x
<1>3. /\ Percent(b, k) \in Nat
      /\ 100 * Percent(b, k) <= x + 50
      /\ x <= 100 * Percent(b, k) + 50
  BY <1>1, <1>2
<1> QED  BY <1>3 DEF x

LEMMA DivBounds ==
    ASSUME NEW n \in Nat, NEW d \in Nat \ {0}
    PROVE  /\ n \div d \in Nat
           /\ d * (n \div d) <= n
           /\ n < d * (n \div d) + d
OBVIOUS

LEMMA QuantizeRounds ==
    ASSUME NEW n \in Nat, NEW d \in Nat \ {0}
    PROVE  /\ Quantize(n, d) \in Nat
           /\ (2 * d) * Quantize(n, d) <= 2 * n + d
           /\ 2 * n + d < (2 * d) * Quantize(n, d) + 2 * d
<1> DEFINE a == 2 * n + d
           b == 2 * d
<1>1. a \in Nat /\ b \in Nat \ {0} /\ Quantize(n, d) = a \div b
  BY DEF Quantize
<1> HIDE DEF a, b
<1>2. a \div b \in Nat /\ b * (a \div b) <= a /\ a < b * (a \div b) + b
  BY <1>1, DivBounds
<1> QED  BY <1>1, <1>2 DEF a, b

-----------------------------------------------------------------------------
\* Rates.

LEMMA LargestNumber ==
    ASSUME NEW D, IsFiniteSet(D), D \subseteq Int, D # {}
    PROVE  \E x \in D : \A y \in D : y <= x
<1> DEFINE P == {A \in SUBSET D : A = {} \/ \E x \in A : \A y \in A : y <= x}
<1>1. P \in SUBSET SUBSET D /\ {} \in P
  OBVIOUS
<1>2. ASSUME NEW A \in P, NEW z \in D \ A PROVE A \union {z} \in P
  <2>1. CASE A = {}
    BY <2>1
  <2>2. CASE A # {}
    <3>1. PICK x \in A : \A y \in A : y <= x
      BY <2>2
    <3>2. x \in Int /\ z \in Int /\ A \subseteq Int
      OBVIOUS
    <3>3. CASE x <= z
      <4>1. \A y \in A \union {z} : y <= z
        BY <3>1, <3>2, <3>3
      <4> QED  BY <4>1
    <3>4. CASE ~(x <= z)
      <4>1. \A y \in A \union {z} : y <= x
        BY <3>1, <3>2, <3>4
      <4> QED  BY <4>1
    <3> QED  BY <3>3, <3>4
  <2> QED  BY <2>1, <2>2
<1>3. D \in P
  <2> HIDE DEF P
  <2> QED  BY <1>1, <1>2, SetInduction
<1> QED  BY <1>3

LEMMA RangeOf ==
    ASSUME NEW faixas, Continuas(faixas), Len(faixas) \in Nat \ {0}, DOMAIN faixas = 1..Len(faixas),
           \A i \in DOMAIN faixas : faixas[i].min \in Int /\ faixas[i].max \in Int,
           NEW x \in Nat
    PROVE  \E i \in DOMAIN faixas : Contem(faixas[i], x)
<1> DEFINE n == Len(faixas)
           Low == {i \in 1..n : faixas[i].min <= x}
<1>1. n \in Nat \ {0} /\ DOMAIN faixas = 1..n
  OBVIOUS
<1>2. \A i \in 1..n : faixas[i].min \in Int /\ faixas[i].max \in Int
  OBVIOUS
<1>3. faixas[1].min = 0 /\ faixas[n].max = NoLimit
      /\ \A i \in 1..(n - 1) : faixas[i + 1].min = faixas[i].max
  BY DEF Continuas
<1> HIDE DEF n
<1>4. 1 \in Low
  BY <1>1, <1>2, <1>3
<1>5. PICK i \in Low : \A j \in Low : j <= i
  <2>1. IsFiniteSet(Low)
    <3>1. IsFiniteSet(1..n)
      BY <1>1, FS_Interval
    <3> QED  BY <3>1, FS_Subset
  <2>2. Low \subseteq Int /\ Low # {}
    BY <1>4
  <2> HIDE DEF Low
  <2> QED  BY <2>1, <2>2, LargestNumber
<1>6. CASE i = n
  BY <1>1, <1>3, <1>6 DEF Contem
<1>7. CASE i # n
  <2>1. i \in 1..(n - 1) /\ i + 1 \in 1..n /\ i + 1 \notin Low
    BY <1>1, <1>5, <1>7
  <2>2. x < faixas[i].max /\ faixas[i].min <= x
    BY <1>2, <1>3, <1>5, <2>1
  <2> QED  BY <1>1, <1>5, <2>2 DEF Contem
<1> QED  BY <1>6, <1>7

LEMMA SomeRange ==
    ASSUME NEW faixas, ValidStandard(faixas), NEW x \in Nat
    PROVE  \E i \in DOMAIN faixas : Contem(faixas[i], x)
<1>1. Continuas(faixas) /\ Len(faixas) \in Nat \ {0} /\ DOMAIN faixas = 1..Len(faixas)
  BY DEF ValidStandard, Continuas
<1>2. \A i \in DOMAIN faixas : faixas[i].min \in Int /\ faixas[i].max \in Int
  <2>1. \A i \in DOMAIN faixas : faixas[i] \in Faixa
    BY <1>1 DEF ValidStandard
  <2> QED  BY <2>1 DEF Faixa
<1> QED  BY <1>1, <1>2, RangeOf

LEMMA TpsIsNatural ==
    ASSUME NEW p \in Proposals
    PROVE  Tps(p) \in Nat
<1>1. Commission[p] \in Nat \ {0} /\ Operation[p] \in Nat \ {0}
  BY ProposalsAssumption
<1>2. 100 * Commission[p] \in Nat
  BY <1>1
<1> QED  BY <1>1, <1>2, QuantizeRounds DEF Tps

\* A row as the table holds it.
RecordsOK(recs) ==
    /\ recs \in [Receipts -> ReceiptRow]
    /\ \A r \in Receipts : recs[r].reversed <= recs[r].amount

LEMMA RateIsNatural ==
    ASSUME NEW recs, RecordsOK(recs), NEW r \in Receipts
    PROVE  PercentualDe(recs, r) \in Nat
<1>1. recs[r].proposal \in Proposals /\ recs[r].date \in CalendarDays
  BY DEF RecordsOK, ReceiptRow
<1>2. ConsultantOf(recs, r) \in People
  BY <1>1, ProposalsAssumption DEF ConsultantOf
<1> DEFINE policy == PolicyOf(recs, r)
           tps == Tps(recs[r].proposal)
           faixas == ConfigOf(recs, r).standard
<1>3. policy.excluded \in BOOLEAN /\ policy.override \in 0..100 \union {NoOverride}
  BY <1>1, <1>2, PeopleAssumption DEF PolicyOf
<1>4. ValidStandard(faixas)
  BY <1>1, ConfigAssumption DEF ConfigOf, ValidConfig
<1>5. tps \in Nat
  BY <1>1, TpsIsNatural
<1> HIDE DEF policy, tps, faixas
<1>6. PercentualPadrao(faixas, tps) \in 0..100
  <2>1. \E i \in DOMAIN faixas : Contem(faixas[i], tps)
    BY <1>4, <1>5, SomeRange
  <2>2. \A i \in DOMAIN faixas : faixas[i].percentage \in 0..100
    <3>1. \A i \in DOMAIN faixas : faixas[i] \in Faixa
      BY <1>4 DEF ValidStandard
    <3> QED  BY <3>1 DEF Faixa
  <2> QED  BY <2>1, <2>2 DEF PercentualPadrao
<1>7. PercentualDe(recs, r) =
          IF policy.excluded THEN 0
          ELSE IF tps >= 35 /\ policy.override # NoOverride THEN policy.override
          ELSE PercentualPadrao(faixas, tps)
  BY DEF PercentualDe, policy, tps, faixas
<1> QED  BY <1>3, <1>6, <1>7


-----------------------------------------------------------------------------
\* The money of a proposal.

Kept(recs) == [r \in Receipts |-> Liquido(recs[r])]

LEMMA KeptIsNatural ==
    ASSUME NEW recs, RecordsOK(recs), NEW r \in Receipts
    PROVE  /\ Kept(recs)[r] = Liquido(recs[r])
           /\ Liquido(recs[r]) = recs[r].amount - recs[r].reversed
           /\ Liquido(recs[r]) \in Nat
           /\ recs[r].amount \in Nat /\ recs[r].reversed \in Nat
BY DEF RecordsOK, ReceiptRow, Kept, Liquido, Larger

LEMMA Totals ==
    ASSUME NEW recs, RecordsOK(recs), NEW S \in SUBSET Receipts
    PROVE  /\ IsFiniteSet(S)
           /\ Total(recs, S) = SumIn(Kept(recs), S)
           /\ Total(recs, S) \in Nat
<1>1. IsFiniteSet(S)
  BY ReceiptsAssumption, FS_Subset
<1> DEFINE f == [r \in S |-> Liquido(recs[r])]
<1>2. DOMAIN f = S /\ \A r \in S : f[r] = Kept(recs)[r]
  BY DEF Kept
<1>3. Total(recs, S) = SumFunction(f)
  BY DEF Total
<1> HIDE DEF f
<1>4. Total(recs, S) = SumIn(Kept(recs), S)
  BY <1>1, <1>2, <1>3, SumOver
<1>5. \A r \in S : Kept(recs)[r] \in Nat
  BY KeptIsNatural
<1>6. SumIn(Kept(recs), S) \in Int /\ 0 <= SumIn(Kept(recs), S)
  BY <1>1, <1>5, SumInt, SumOfPart DEF Numbers
<1> QED  BY <1>1, <1>4, <1>6

LEMMA TotalOfPart ==
    ASSUME NEW recs, RecordsOK(recs), NEW S \in SUBSET Receipts, NEW A \in SUBSET S
    PROVE  Total(recs, A) <= Total(recs, S)
<1>1. IsFiniteSet(S) /\ \A r \in S : Kept(recs)[r] \in Nat
  BY Totals, KeptIsNatural
<1>2. SumIn(Kept(recs), A) <= SumIn(Kept(recs), S)
  BY <1>1, SumOfPart
<1>3. A \in SUBSET Receipts
  OBVIOUS
<1> QED  BY <1>2, <1>3, Totals

LEMMA TotalMore ==
    ASSUME NEW recs, RecordsOK(recs), NEW S \in SUBSET Receipts, NEW x \in Receipts \ S
    PROVE  Total(recs, S \union {x}) = Total(recs, S) + Liquido(recs[x])
<1>1. IsFiniteSet(S) /\ Numbers(Kept(recs), S) /\ Kept(recs)[x] = Liquido(recs[x]) /\ Kept(recs)[x] \in Int
  BY Totals, KeptIsNatural DEF Numbers
<1>2. SumIn(Kept(recs), S \union {x}) = SumIn(Kept(recs), S) + Kept(recs)[x]
  BY <1>1, SumMore
<1>3. S \union {x} \in SUBSET Receipts
  OBVIOUS
<1> QED  BY <1>1, <1>2, <1>3, Totals

\* What receipts leave of the commission of the company, and their order.
EarlierOf(recs, r) == {s \in Of(recs, recs[r].proposal) : Earlier(recs, s, r)}

LEMMA EarlierIsAnOrder ==
    ASSUME NEW recs, RecordsOK(recs)
    PROVE  /\ \A r \in Receipts : ~Earlier(recs, r, r)
           /\ \A r, s \in Receipts : r # s => Earlier(recs, r, s) \/ Earlier(recs, s, r)
           /\ \A r, s, t \in Receipts : Earlier(recs, r, s) /\ Earlier(recs, s, t) => Earlier(recs, r, t)
<1>1. \A r \in Receipts : r \in Nat /\ recs[r].date \in Nat
  BY ReceiptsAssumption, LedgerCalendarAssumption DEF RecordsOK, ReceiptRow, CalendarDays
<1> QED  BY <1>1 DEF Earlier

LEMMA Eligible ==
    ASSUME NEW recs, RecordsOK(recs), NEW r \in Receipts
    PROVE  LET before == Total(recs, EarlierOf(recs, r))
               l == Liquido(recs[r])
               c == Commission[recs[r].proposal]
           IN  /\ before \in Nat /\ l \in Nat /\ c \in Nat
               /\ Elegivel(recs, r) = Smaller(before + l, c) - Smaller(before, c)
               /\ Elegivel(recs, r) \in Nat
               /\ Elegivel(recs, r) <= l
<1> DEFINE before == Total(recs, EarlierOf(recs, r))
           l == Liquido(recs[r])
           c == Commission[recs[r].proposal]
<1>1. EarlierOf(recs, r) \in SUBSET Receipts
  BY DEF EarlierOf, Of, Approved
<1>2. before \in Nat /\ l \in Nat
  BY <1>1, Totals, KeptIsNatural
<1>3. c \in Nat
  BY ProposalsAssumption DEF RecordsOK, ReceiptRow
<1>4. Elegivel(recs, r) = Smaller(before + l, c) - Smaller(before, c)
  BY DEF Elegivel, EarlierOf
<1> HIDE DEF before, l, c
<1>5. Elegivel(recs, r) \in Nat /\ Elegivel(recs, r) <= l
  BY <1>2, <1>3, <1>4 DEF Smaller
<1> QED  BY <1>2, <1>3, <1>4, <1>5 DEF before, l, c

\* As long as the receipts of a proposal stay below the ceiling, each counts in
\* full.
LEMMA EligibleInFull ==
    ASSUME NEW recs, RecordsOK(recs), NEW p \in Proposals, Total(recs, Of(recs, p)) <= Commission[p],
           NEW r \in Of(recs, p)
    PROVE  Elegivel(recs, r) = Liquido(recs[r])
<1>1. r \in Receipts /\ recs[r].proposal = p /\ Of(recs, p) \in SUBSET Receipts
  BY DEF Of, Approved
<1> DEFINE A == EarlierOf(recs, r)
<1>2. A \in SUBSET Receipts /\ r \notin A /\ A \union {r} \in SUBSET Of(recs, p)
  BY <1>1, EarlierIsAnOrder DEF EarlierOf
<1> HIDE DEF A
<1>3. Total(recs, A \union {r}) = Total(recs, A) + Liquido(recs[r])
  BY <1>1, <1>2, TotalMore
<1>4. Total(recs, A \union {r}) <= Total(recs, Of(recs, p))
  BY <1>1, <1>2, TotalOfPart
<1>5. Total(recs, A \union {r}) \in Nat /\ Total(recs, Of(recs, p)) \in Nat
  BY <1>1, <1>2, Totals
<1>6. LET before == Total(recs, A)
          l == Liquido(recs[r])
          c == Commission[recs[r].proposal]
      IN  /\ before \in Nat /\ l \in Nat /\ c \in Nat
          /\ Elegivel(recs, r) = Smaller(before + l, c) - Smaller(before, c)
  BY <1>1, Eligible DEF A
<1> QED  BY <1>1, <1>3, <1>4, <1>5, <1>6 DEF Smaller


LEMMA LastReceipt ==
    ASSUME NEW recs, RecordsOK(recs), NEW D \in SUBSET Receipts, D # {}
    PROVE  \E x \in D : \A y \in D \ {x} : Earlier(recs, y, x)
<1> DEFINE P == {A \in SUBSET D : A = {} \/ \E x \in A : \A y \in A \ {x} : Earlier(recs, y, x)}
<1>1. P \in SUBSET SUBSET D /\ {} \in P /\ IsFiniteSet(D)
  BY ReceiptsAssumption, FS_Subset
<1>2. ASSUME NEW A \in P, NEW z \in D \ A PROVE A \union {z} \in P
  <2>1. CASE A = {}
    BY <2>1
  <2>2. CASE A # {}
    <3>1. PICK x \in A : \A y \in A \ {x} : Earlier(recs, y, x)
      BY <2>2
    <3>2. x # z /\ A \subseteq Receipts /\ x \in Receipts /\ z \in Receipts
      OBVIOUS
    <3>3. CASE Earlier(recs, x, z)
      <4>1. \A y \in (A \union {z}) \ {z} : Earlier(recs, y, z)
        BY <3>1, <3>2, <3>3, EarlierIsAnOrder
      <4> QED  BY <4>1
    <3>4. CASE Earlier(recs, z, x)
      <4>1. \A y \in (A \union {z}) \ {x} : Earlier(recs, y, x)
        BY <3>1, <3>4
      <4> QED  BY <4>1
    <3> QED  BY <3>2, <3>3, <3>4, EarlierIsAnOrder
  <2> QED  BY <2>1, <2>2
<1>3. D \in P
  <2> HIDE DEF P
  <2> QED  BY <1>1, <1>2, SetInduction
<1> QED  BY <1>3

Eligibles(recs) == [r \in Receipts |-> Elegivel(recs, r)]

\* Together the receipts of a proposal count up to the ceiling.
LEMMA EligibleTogether ==
    ASSUME NEW recs, RecordsOK(recs), NEW p \in Proposals
    PROVE  SumIn(Eligibles(recs), Of(recs, p)) = Smaller(Total(recs, Of(recs, p)), Commission[p])
<1> DEFINE D == Of(recs, p)
           f == Eligibles(recs)
           Good(A) == SumIn(f, A) = Smaller(Total(recs, A), Commission[p])
           First1(A) == \A s \in A : \A t \in D : Earlier(recs, t, s) => t \in A
           Bad == {A \in SUBSET D : First1(A) /\ ~Good(A)}
<1> SUFFICES ASSUME D \in Bad PROVE FALSE
  OBVIOUS
<1>1. D \in SUBSET Receipts /\ IsFiniteSet(D) /\ \A r \in D : recs[r].proposal = p
  BY ReceiptsAssumption, FS_Subset DEF Of, Approved
<1>2. PICK A \in Bad : \A B \in Bad : B \subseteq A => B = A
  <2>1. Bad \in SUBSET SUBSET D /\ Bad # {}
    OBVIOUS
  <2> HIDE DEF D, Bad
  <2> QED  BY <1>1, <2>1, SmallestSet
<1>3. A \in SUBSET D /\ First1(A) /\ ~Good(A) /\ \A B \in SUBSET A : B # A /\ First1(B) => Good(B)
  BY <1>2
<1>4. A \in SUBSET Receipts /\ Commission[p] \in Nat
  BY <1>1, <1>3, ProposalsAssumption
<1> HIDE DEF D, f, Bad
<1>5. A # {}
  <2>1. SumIn(f, {}) = 0 /\ Total(recs, {}) = 0
    <3>1. {} \in SUBSET Receipts
      OBVIOUS
    <3> QED  BY <3>1, SumEmpty, Totals
  <2>2. Good({})
    BY <1>4, <2>1 DEF Smaller
  <2> QED  BY <1>3, <2>2
<1>6. PICK x \in A : \A y \in A \ {x} : Earlier(recs, y, x)
  BY <1>4, <1>5, LastReceipt
<1> DEFINE B == A \ {x}
<1>7. B \in SUBSET A /\ B # A /\ First1(B)
  <2>1. ASSUME NEW s \in B, NEW t \in D, Earlier(recs, t, s) PROVE t \in B
    <3>1. t \in A
      BY <1>3, <2>1
    <3>2. t # x
      <4>1. Earlier(recs, s, x) /\ s \in Receipts /\ x \in Receipts
        BY <1>4, <1>6
      <4>2. ~Earlier(recs, x, s)
        BY <4>1, EarlierIsAnOrder
      <4> QED  BY <2>1, <4>2
    <3> QED  BY <3>1, <3>2
  <2> QED  BY <2>1
<1>8. Good(B)
  BY <1>3, <1>7
<1>9. EarlierOf(recs, x) = B
  <2>1. x \in D /\ recs[x].proposal = p /\ x \in Receipts
    BY <1>1, <1>3
  <2>2. \A s \in D : Earlier(recs, s, x) => s \in A /\ s # x
    BY <1>3, <2>1, EarlierIsAnOrder
  <2> QED  BY <1>3, <1>6, <2>1, <2>2 DEF EarlierOf, D
<1>10. x \in Receipts /\ recs[x].proposal = p /\ f[x] = Elegivel(recs, x)
  BY <1>1, <1>3 DEF f, Eligibles
<1>11. SumIn(f, A) = f[x] + SumIn(f, B)
  <2>1. IsFiniteSet(A) /\ Numbers(f, A)
    BY <1>1, <1>3, <1>4, FS_Subset, Eligible DEF f, Eligibles, Numbers
  <2> QED  BY <2>1, SumAny
<1>12. Total(recs, A) = Total(recs, B) + Liquido(recs[x])
  <2>1. B \in SUBSET Receipts /\ x \in Receipts \ B /\ B \union {x} = A
    BY <1>4
  <2> QED  BY <2>1, TotalMore
<1>13. LET before == Total(recs, B)
           l == Liquido(recs[x])
       IN  /\ before \in Nat /\ l \in Nat
           /\ Elegivel(recs, x) = Smaller(before + l, Commission[p]) - Smaller(before, Commission[p])
  BY <1>9, <1>10, Eligible
<1> HIDE DEF B
<1>14. Good(A)
  BY <1>4, <1>8, <1>10, <1>11, <1>12, <1>13 DEF Smaller
<1> QED  BY <1>3, <1>14

\* A receipt counts for no more once others of its proposal are recognised.
LEMMA EligibleShrinks ==
    ASSUME NEW recs, RecordsOK(recs), NEW more, RecordsOK(more), NEW r \in Receipts,
           \A s \in Receipts : /\ more[s].proposal = recs[s].proposal /\ more[s].date = recs[s].date
                               /\ Liquido(more[s]) = Liquido(recs[s]),
           Approved(recs) \subseteq Approved(more)
    PROVE  Elegivel(more, r) <= Elegivel(recs, r)
<1> DEFINE A == EarlierOf(recs, r)
           B == EarlierOf(more, r)
<1>1. A \in SUBSET B /\ B \in SUBSET Receipts
  BY DEF EarlierOf, Of, Approved, Earlier
<1> HIDE DEF A, B
<1>2. Total(more, A) = Total(recs, A)
  <2>1. A \in SUBSET Receipts /\ IsFiniteSet(A)
    BY <1>1, Totals
  <2>2. \A s \in A : Kept(more)[s] = Kept(recs)[s]
    BY <2>1 DEF Kept
  <2>3. SumIn(Kept(more), A) = SumIn(Kept(recs), A)
    BY <2>1, <2>2, SumSame
  <2> QED  BY <2>1, <2>3, Totals
<1>3. Total(more, A) <= Total(more, B)
  BY <1>1, TotalOfPart
<1>4. LET before == Total(recs, A)
          l == Liquido(recs[r])
          c == Commission[recs[r].proposal]
      IN  /\ before \in Nat /\ l \in Nat /\ c \in Nat
          /\ Elegivel(recs, r) = Smaller(before + l, c) - Smaller(before, c)
  BY Eligible DEF A
<1>5. LET before == Total(more, B)
          l == Liquido(recs[r])
          c == Commission[recs[r].proposal]
      IN  /\ before \in Nat
          /\ Elegivel(more, r) = Smaller(before + l, c) - Smaller(before, c)
  BY Eligible DEF B
<1> DEFINE a == Total(recs, A)
           b == Total(more, B)
           l == Liquido(recs[r])
           c == Commission[recs[r].proposal]
<1>6. /\ a \in Nat /\ b \in Nat /\ l \in Nat /\ c \in Nat /\ a <= b
      /\ Elegivel(recs, r) = Smaller(a + l, c) - Smaller(a, c)
      /\ Elegivel(more, r) = Smaller(b + l, c) - Smaller(b, c)
  BY <1>2, <1>3, <1>4, <1>5
<1> HIDE DEF a, b, l, c
<1> QED  BY <1>6 DEF Smaller


-----------------------------------------------------------------------------
\* What a receipt brought to a standard consultant, line by line.

Lines(book, r) == {e \in book : e.strategy = "STANDARD_CONSULTANT" /\ e.receipt = r}

LineOK(recs, r, e) ==
    /\ e \in Entry
    /\ e.beneficiary = ConsultantOf(recs, r)
    /\ e.reversal <= recs[r].reversed

LinesOK(recs, book, r) ==
    /\ IsFiniteSet(Lines(book, r))
    /\ \A e \in Lines(book, r) : LineOK(recs, r, e)
    /\ Lines(book, r) # {} => /\ recs[r].status = "APPROVED"
                              /\ \E c \in Lines(book, r) : IsCredit(c)
    /\ \A c, d \in Lines(book, r) : IsCredit(c) /\ IsCredit(d) => c = d

StandardLine(recs, r) ==
    NewCredit(recs, r, "STANDARD_CONSULTANT", ConsultantOf(recs, r), StandardShare(recs, r))

LEMMA StandardLineIs ==
    ASSUME NEW recs, RecordsOK(recs), NEW r \in Receipts
    PROVE  LET e == StandardLine(recs, r)
           IN  /\ e \in Entry /\ IsCredit(e) /\ e.reversal = 0
               /\ e.receipt = r /\ e.beneficiary = ConsultantOf(recs, r)
               /\ e.strategy = "STANDARD_CONSULTANT"
               /\ e.eligible = Elegivel(recs, r) /\ e.amount = StandardShare(recs, r)
               /\ StandardShare(recs, r) \in Nat
<1>1. ConsultantOf(recs, r) \in People
  BY ProposalsAssumption DEF RecordsOK, ReceiptRow, ConsultantOf
<1>2. Elegivel(recs, r) \in Nat
  BY Eligible
<1>3. StandardShare(recs, r) \in Nat
  BY <1>2, RateIsNatural, PercentRounds DEF StandardShare
<1> QED  BY <1>1, <1>2, <1>3 DEF StandardLine, NewCredit, IsCredit, Entry, Strategies

\* What a recognition does to the lines of r.
Recognised(recs, book, p, r) ==
    Lines(book \union NewCredits(recs, book, p), r) =
        IF /\ r \in Of(recs, p) /\ Elegivel(recs, r) > 0
           /\ RoleOf(recs, r) # Scaled /\ Lines(book, r) = {}
        THEN {StandardLine(recs, r)}
        ELSE Lines(book, r)

LEMMA RecognisedLines ==
    ASSUME NEW recs, RecordsOK(recs), NEW book, NEW p \in Proposals,
           NEW r \in Receipts, recs[r].proposal = p,
           \A e \in Lines(book, r) : e.beneficiary = ConsultantOf(recs, r)
    PROVE  Recognised(recs, book, p, r)
<1> DEFINE line == StandardLine(recs, r)
           new == NewCredits(recs, book, p)
           due == r \in Of(recs, p) /\ Elegivel(recs, r) > 0 /\ RoleOf(recs, r) # Scaled
<1>1. line.strategy = "STANDARD_CONSULTANT" /\ line.receipt = r /\ line.beneficiary = ConsultantOf(recs, r)
  BY StandardLineIs
<1>2. (\A f \in book : ~SameOrigin(line, f)) <=> Lines(book, r) = {}
  BY <1>1 DEF SameOrigin, Lines
<1>3. ASSUME NEW e \in Lines(new, r) PROVE e = line /\ due /\ Lines(book, r) = {}
  <2>1. e \in new /\ e.strategy = "STANDARD_CONSULTANT" /\ e.receipt = r
    BY DEF Lines
  <2>2. e \notin ScaledCredits(recs, p)
    BY <2>1 DEF ScaledCredits, NewCredit
  <2>3. e \notin GroupCredits(recs, p)
    <3> SUFFICES ASSUME e \in GroupCredits(recs, p) PROVE FALSE
      OBVIOUS
    <3>1. PICK q \in (Of(recs, p) \intersect Liquidos(recs)) \X Groups :
            e = NewCredit(recs, q[1], q[2], Beneficiary(recs, q[2], q[1]),
                       GroupShare(recs, q[2], q[1], Beneficiary(recs, q[2], q[1])))
      BY DEF GroupCredits
    <3>2. e.strategy \in Groups
      BY <3>1 DEF NewCredit
    <3> QED  BY <2>1, <3>2 DEF Groups
  <2>4. e \in StandardCredits(recs, p) /\ \A f \in book : ~SameOrigin(e, f)
    BY <2>1, <2>2, <2>3 DEF NewCredits
  <2>5. PICK s \in {t \in Of(recs, p) \intersect Liquidos(recs) : RoleOf(recs, t) # Scaled} :
          e = NewCredit(recs, s, "STANDARD_CONSULTANT", Consultant[p], StandardShare(recs, s))
    BY <2>4 DEF StandardCredits
  <2>6. s = r
    BY <2>1, <2>5 DEF NewCredit
  <2>7. e = line /\ due
    BY <2>5, <2>6 DEF StandardLine, ConsultantOf, Liquidos
  <2> QED  BY <1>2, <2>4, <2>7
<1>4. ASSUME due, Lines(book, r) = {} PROVE line \in Lines(new, r)
  <2>1. r \in {t \in Of(recs, p) \intersect Liquidos(recs) : RoleOf(recs, t) # Scaled}
    BY <1>4 DEF Liquidos, Of
  <2>2. line = NewCredit(recs, r, "STANDARD_CONSULTANT", Consultant[p], StandardShare(recs, r))
    BY DEF StandardLine, ConsultantOf
  <2>3. line \in StandardCredits(recs, p)
    BY <2>1, <2>2 DEF StandardCredits
  <2> QED  BY <1>1, <1>2, <1>4, <2>3 DEF NewCredits, Lines
<1>5. Lines(book \union new, r) = Lines(book, r) \union Lines(new, r)
  BY DEF Lines
<1> HIDE DEF line, new, due
<1>6. CASE due /\ Lines(book, r) = {}
  <2>1. Lines(new, r) = {line}
    BY <1>3, <1>4, <1>6
  <2>2. Lines(book \union new, r) = {line}
    BY <1>5, <1>6, <2>1
  <2> QED  BY <1>6, <2>2 DEF due, line, new, Recognised
<1>7. CASE ~(due /\ Lines(book, r) = {})
  <2>1. Lines(new, r) = {}
    BY <1>3, <1>7
  <2>2. Lines(book \union new, r) = Lines(book, r)
    BY <1>5, <2>1
  <2> QED  BY <1>7, <2>2 DEF due, new, Recognised
<1> QED  BY <1>6, <1>7

DebitLine(recs, p, c, r, reversal, amount) ==
    NewDebit(c, reversal, -Percent(Reduction(recs, p, amount), PercentualDe(recs, r)))

\* What a reversal of r does to the lines of q.
TakenBack(recs, book, r, reversal, amount, q) ==
    LET new == NewDebits(recs, book, r, reversal, amount)
        credits == {c \in Lines(book, r) : IsCredit(c)}
    IN  Lines(book \union new, q) = Lines(book, q) \union
            IF q = r /\ ~IsScaled(book, r)
            THEN {DebitLine(recs, recs[r].proposal, c, r, reversal, amount) : c \in credits}
            ELSE {}

LEMMA ReversedLines ==
    ASSUME NEW recs, NEW book, NEW r \in Receipts, NEW reversal, NEW amount, NEW q,
           \A e \in book : "strategy" \in DOMAIN e,
           \A e \in Lines(book, r) : e \in Entry
    PROVE  TakenBack(recs, book, r, reversal, amount, q)
<1> DEFINE new == NewDebits(recs, book, r, reversal, amount)
           credits == {c \in Lines(book, r) : IsCredit(c)}
           Debit(c) == DebitLine(recs, recs[r].proposal, c, r, reversal, amount)
<1>1. CreditsOf(book, r, {"STANDARD_CONSULTANT"}) = credits
  BY DEF CreditsOf, Lines
<1>2. \A c \in credits : Debit(c).strategy = "STANDARD_CONSULTANT" /\ Debit(c).receipt = r
  BY DEF DebitLine, NewDebit, Lines, Entry
<1>3. StandardDebits(recs, book, r, reversal, amount) = {Debit(c) : c \in credits}
  BY <1>1 DEF StandardDebits, DebitLine
<1>4. ASSUME NEW e \in GroupDebits(recs, book, r, reversal) \union ScaledDebits(recs, book, r, reversal)
      PROVE  e.strategy # "STANDARD_CONSULTANT"
  <2>1. PICK f \in book : /\ f.strategy \in Groups \union {"SCALED_CONSULTANT"}
                          /\ \E value : e = NewDebit(f, reversal, value)
    BY DEF GroupDebits, ScaledDebits, CreditsOf
  <2>2. e.strategy = f.strategy
    BY <2>1 DEF NewDebit
  <2> QED  BY <2>1, <2>2 DEF Groups
<1>5. Lines(new, q) = IF q = r /\ ~IsScaled(book, r) THEN {Debit(c) : c \in credits} ELSE {}
  BY <1>2, <1>3, <1>4 DEF NewDebits, Lines
<1>6. Lines(book \union new, q) = Lines(book, q) \union Lines(new, q)
  BY DEF Lines
<1> QED  BY <1>5, <1>6 DEF TakenBack

-----------------------------------------------------------------------------
\* What a receipt earned and what the report shows of it.

LEMMA NetGrows ==
    ASSUME NEW S, IsFiniteSet(S), \A e \in S : e.amount \in Int
    PROVE  /\ NetOf(S) \in Int
           /\ \A x : x \notin S /\ x.amount \in Int => NetOf(S \union {x}) = NetOf(S) + x.amount
<1> DEFINE f(D) == [e \in D |-> e.amount]
<1>1. \A D : NetOf(D) = SumFunction(f(D)) /\ DOMAIN f(D) = D
  BY DEF NetOf
<1>2. \A e \in S : f(S)[e] \in Int
  OBVIOUS
<1>3. ASSUME NEW D, S \subseteq D, IsFiniteSet(D) PROVE SumIn(f(D), S) = NetOf(S)
  <2>1. \A e \in S : f(S)[e] = f(D)[e]
    BY <1>3
  <2>2. DOMAIN f(S) = S /\ NetOf(S) = SumFunction(f(S))
    BY <1>1
  <2> HIDE DEF f
  <2> QED  BY <2>1, <2>2, SumOver
<1>4. NetOf(S) \in Int
  <2>1. SumIn(f(S), S) = NetOf(S)
    BY <1>3
  <2> HIDE DEF f
  <2> QED  BY <1>2, <2>1, SumInt DEF Numbers
<1>5. ASSUME NEW x, x \notin S, x.amount \in Int PROVE NetOf(S \union {x}) = NetOf(S) + x.amount
  <2> DEFINE D == S \union {x}
  <2>1. IsFiniteSet(D) /\ x \in D
    BY FS_AddElement
  <2>2. f(D)[x] = x.amount /\ \A e \in S : f(D)[e] \in Int
    OBVIOUS
  <2>3. SumFunction(f(D)) = NetOf(D) /\ DOMAIN f(D) = D /\ SumIn(f(D), S) = NetOf(S)
    BY <1>1, <1>3, <2>1
  <2> HIDE DEF f
  <2>4. SumIn(f(D), S \union {x}) = SumIn(f(D), S) + f(D)[x]
    BY <1>5, <2>2, SumMore DEF Numbers
  <2> QED  BY <2>2, <2>3, <2>4, SumFunctionIn
<1> QED  BY <1>4, <1>5

\* What the first credit of a receipt amounts to, unless the proposal is
\* overpaid, and what the report shows for a line of it.
Full(recs, r) == Percent(recs[r].amount, PercentualDe(recs, r))

Shown(recs, r, e) ==
    IF IsCredit(e) THEN recs[r].amount ELSE -Quantize(recs[r].amount * (-e.amount), Full(recs, r))

ShownOf(recs, r, S) == SumFunction([e \in S |-> Shown(recs, r, e)])

LEMMA ShownGrows ==
    ASSUME NEW recs, NEW r, NEW S, IsFiniteSet(S), \A e \in S : Shown(recs, r, e) \in Int
    PROVE  /\ ShownOf(recs, r, S) \in Int
           /\ \A x : x \notin S /\ Shown(recs, r, x) \in Int =>
                  ShownOf(recs, r, S \union {x}) = ShownOf(recs, r, S) + Shown(recs, r, x)
<1> DEFINE f(D) == [e \in D |-> Shown(recs, r, e)]
<1>1. \A D : ShownOf(recs, r, D) = SumFunction(f(D)) /\ DOMAIN f(D) = D
  BY DEF ShownOf
<1>2. \A e \in S : f(S)[e] \in Int
  OBVIOUS
<1>3. ASSUME NEW D, S \subseteq D, IsFiniteSet(D) PROVE SumIn(f(D), S) = ShownOf(recs, r, S)
  <2>1. \A e \in S : f(S)[e] = f(D)[e]
    BY <1>3
  <2>2. DOMAIN f(S) = S /\ ShownOf(recs, r, S) = SumFunction(f(S))
    BY <1>1
  <2> HIDE DEF f
  <2> QED  BY <2>1, <2>2, SumOver
<1>4. ShownOf(recs, r, S) \in Int
  <2>1. SumIn(f(S), S) = ShownOf(recs, r, S)
    BY <1>3
  <2> HIDE DEF f
  <2> QED  BY <1>2, <2>1, SumInt DEF Numbers
<1>5. ASSUME NEW x, x \notin S, Shown(recs, r, x) \in Int
      PROVE  ShownOf(recs, r, S \union {x}) = ShownOf(recs, r, S) + Shown(recs, r, x)
  <2> DEFINE D == S \union {x}
  <2>1. IsFiniteSet(D) /\ x \in D
    BY FS_AddElement
  <2>2. f(D)[x] = Shown(recs, r, x) /\ \A e \in S : f(D)[e] \in Int
    OBVIOUS
  <2>3. SumFunction(f(D)) = ShownOf(recs, r, D) /\ DOMAIN f(D) = D /\ SumIn(f(D), S) = ShownOf(recs, r, S)
    BY <1>1, <1>3, <2>1
  <2> HIDE DEF f
  <2>4. SumIn(f(D), S \union {x}) = SumIn(f(D), S) + f(D)[x]
    BY <1>5, <2>2, SumMore DEF Numbers
  <2> QED  BY <2>2, <2>3, <2>4, SumFunctionIn
<1> QED  BY <1>4, <1>5


LEMMA LessCancels ==
    ASSUME NEW a \in Nat \ {0}, NEW u \in Int, NEW v \in Int, a * u < a * v
    PROVE  u < v
<1>1. CASE u >= v
  <2>1. PICK k \in Nat : u = v + k
    <3>1. u - v \in Nat /\ u = v + (u - v)
      BY <1>1
    <3> QED  BY <3>1
  <2>2. a * u = a * v + a * k /\ a * k \in Nat /\ a * v \in Int
    BY <2>1
  <2> QED  BY <2>2
<1> QED  BY <1>1

LEMMA NatTimes ==
    ASSUME NEW a \in Nat, NEW u \in Int, NEW v \in Int, u <= v
    PROVE  a * u <= a * v /\ a * u \in Int /\ a * v \in Int
<1>1. PICK k \in Nat : v = u + k
  <2>1. v - u \in Nat /\ v = u + (v - u)
    OBVIOUS
  <2> QED  BY <2>1
<1>2. a * v = a * u + a * k /\ a * k \in Nat /\ a * u \in Int
  BY <1>1
<1> QED  BY <1>2

\* The line of the report for a reversal of x shows x, to one centavo of the
\* commission.
LEMMA DebitShows ==
    ASSUME NEW l \in Nat, NEW x \in Nat, x <= l, NEW k \in Nat, Percent(l, k) > 0
    PROVE  LET a == Percent(l, k)
               q == Quantize(l * Percent(x, k), a)
               m == l \div a + 1
           IN  q \in Nat /\ m \in Nat /\ x - m <= q /\ q <= x + m
<1> DEFINE a == Percent(l, k)
           d == Percent(x, k)
           q == Quantize(l * d, a)
           m == l \div a
<1>1. a \in Nat \ {0} /\ 100 * a <= l * k + 50 /\ l * k <= 100 * a + 50
  BY PercentRounds
<1>2. d \in Nat /\ 100 * d <= x * k + 50 /\ x * k <= 100 * d + 50
  BY PercentRounds
<1> HIDE DEF a, d
<1>3. l * d \in Nat
  BY <1>2
<1>4. q \in Nat /\ (2 * a) * q <= 2 * (l * d) + a /\ 2 * (l * d) + a < (2 * a) * q + 2 * a
  BY <1>1, <1>3, QuantizeRounds
<1>5. m \in Nat /\ a * m <= l /\ l < a * m + a
  BY <1>1, DivBounds
<1> HIDE DEF q, m
<1>6. l * d <= x * a + l /\ x * a - l <= l * d
  <2> DEFINE lk == l * k
             xk == x * k
             lxk == l * xk
  <2>1. lk \in Nat /\ xk \in Nat /\ lxk \in Nat /\ x * lk = lxk
    OBVIOUS
  <2>2. 100 * a <= lk + 50 /\ lk <= 100 * a + 50 /\ 100 * d <= xk + 50 /\ xk <= 100 * d + 50
    BY <1>1, <1>2
  <2> HIDE DEF lk, xk, lxk
  <2>3. l * (100 * d) <= l * (xk + 50) /\ l * xk <= l * (100 * d + 50)
    BY <1>2, <2>1, <2>2, NatTimes
  <2>4. x * (100 * a) <= x * (lk + 50) /\ x * lk <= x * (100 * a + 50)
    BY <1>1, <2>1, <2>2, NatTimes
  <2>5. /\ l * (100 * d) = 100 * (l * d) /\ l * (xk + 50) = lxk + 50 * l
        /\ l * (100 * d + 50) = 100 * (l * d) + 50 * l
    BY <1>2, <2>1 DEF lxk
  <2>6. /\ x * (100 * a) = 100 * (x * a) /\ x * (lk + 50) = lxk + 50 * x
        /\ x * (100 * a + 50) = 100 * (x * a) + 50 * x
    BY <1>1, <2>1
  <2>7. l * xk = lxk
    BY DEF lxk
  <2>8. x * a \in Nat /\ l * d \in Nat
    BY <1>1, <1>2
  <2> DEFINE ld == l * d
             xa == x * a
  <2>9. /\ 100 * ld <= lxk + 50 * l /\ lxk <= 100 * ld + 50 * l
        /\ 100 * xa <= lxk + 50 * x /\ lxk <= 100 * xa + 50 * x
        /\ ld \in Nat /\ xa \in Nat
    BY <2>1, <2>3, <2>4, <2>5, <2>6, <2>7, <2>8
  <2> HIDE DEF ld, xa
  <2>10. ld <= xa + l /\ xa - l <= ld
    BY <2>1, <2>9
  <2> QED  BY <2>10 DEF ld, xa
<1>7. q <= x + m + 1
  <2>1. a * (2 * q) < a * (2 * x + 2 * m + 3)
    <3> DEFINE aq == a * q
               am == a * m
               xa == x * a
               ld == l * d
    <3>1. /\ aq \in Nat /\ am \in Nat /\ xa \in Nat /\ ld \in Nat
          /\ (2 * a) * q = 2 * aq /\ a * (2 * q) = 2 * aq
          /\ a * (2 * x + 2 * m + 3) = 2 * xa + 2 * am + 3 * a
      BY <1>1, <1>2, <1>4, <1>5
    <3>2. 2 * aq <= 2 * ld + a /\ l < am + a /\ ld <= xa + l
      BY <1>4, <1>5, <1>6, <3>1
    <3> HIDE DEF aq, am, xa, ld
    <3>3. 2 * aq < 2 * xa + 2 * am + 3 * a
      BY <1>1, <3>1, <3>2
    <3> QED  BY <3>1, <3>3
  <2>2. 2 * q < 2 * x + 2 * m + 3
    <3>1. 2 * q \in Int /\ 2 * x + 2 * m + 3 \in Int
      BY <1>4, <1>5
    <3> QED  BY <1>1, <2>1, <3>1, LessCancels
  <2> QED  BY <1>4, <1>5, <2>2
<1>8. x - m - 1 <= q
  <2>1. a * (2 * x) < a * (2 * q + 2 * m + 3)
    <3> DEFINE aq == a * q
               am == a * m
               xa == x * a
               ld == l * d
    <3>1. /\ aq \in Nat /\ am \in Nat /\ xa \in Nat /\ ld \in Nat
          /\ (2 * a) * q = 2 * aq /\ a * (2 * x) = 2 * xa
          /\ a * (2 * q + 2 * m + 3) = 2 * aq + 2 * am + 3 * a
      BY <1>1, <1>2, <1>4, <1>5
    <3>2. 2 * ld + a < 2 * aq + 2 * a /\ l < am + a /\ xa - l <= ld
      BY <1>4, <1>5, <1>6, <3>1
    <3> HIDE DEF aq, am, xa, ld
    <3>3. 2 * xa < 2 * aq + 2 * am + 3 * a
      BY <1>1, <3>1, <3>2
    <3> QED  BY <3>1, <3>3
  <2>2. 2 * x < 2 * q + 2 * m + 3
    <3>1. 2 * x \in Int /\ 2 * q + 2 * m + 3 \in Int
      BY <1>4, <1>5
    <3> QED  BY <1>1, <2>1, <3>1, LessCancels
  <2> QED  BY <1>4, <1>5, <2>2
<1> QED  BY <1>4, <1>5, <1>7, <1>8 DEF a, d, q, m


-----------------------------------------------------------------------------
\* What a receipt below the ceiling brought, and what is shown of it, follow
\* what is kept of it.

DebitsIn(lines) == {e \in lines : ~IsCredit(e)}

Unit(recs, r) == recs[r].amount \div Full(recs, r) + 1

PaidInFull(recs, r, lines) ==
    /\ \E c \in lines : IsCredit(c)
    /\ \A e \in lines : /\ e.eligible = recs[r].amount
                        /\ IF IsCredit(e) THEN e.amount = Full(recs, r) ELSE e.amount <= 0

FollowsRate(recs, r, lines) ==
    LET worth == (recs[r].amount - recs[r].reversed) * PercentualDe(recs, r)
        slack == 50 * Cardinality(lines)
    IN  worth <= 100 * NetOf(lines) + slack /\ 100 * NetOf(lines) <= worth + slack

FollowsAmount(recs, r, lines) ==
    LET kept == recs[r].amount - recs[r].reversed
        off == Unit(recs, r) * Cardinality(DebitsIn(lines))
    IN  -off <= ShownOf(recs, r, lines) - kept /\ ShownOf(recs, r, lines) - kept <= off

ReceiptPaid(recs, r, lines) ==
    /\ PaidInFull(recs, r, lines)
    /\ FollowsRate(recs, r, lines)
    /\ Full(recs, r) > 0 => FollowsAmount(recs, r, lines)

LEMMA FullIsNatural ==
    ASSUME NEW recs, RecordsOK(recs), NEW r \in Receipts
    PROVE  /\ Full(recs, r) \in Nat
           /\ recs[r].amount \in Nat /\ recs[r].reversed \in Nat /\ PercentualDe(recs, r) \in Nat
           /\ Full(recs, r) > 0 => Unit(recs, r) \in Nat
<1>1. recs[r].amount \in Nat /\ recs[r].reversed \in Nat /\ PercentualDe(recs, r) \in Nat
  BY KeptIsNatural, RateIsNatural
<1>2. Full(recs, r) \in Nat
  BY <1>1, PercentRounds DEF Full
<1>3. Full(recs, r) > 0 => recs[r].amount \div Full(recs, r) \in Nat
  BY <1>1, <1>2, DivBounds
<1> QED  BY <1>1, <1>2, <1>3 DEF Unit

LEMMA NetOfNone == NetOf({}) = 0 /\ \A recs, r : ShownOf(recs, r, {}) = 0
<1>1. \A f : DOMAIN f = {} => SumFunction(f) = 0
  BY SumFunctionIn, SumEmpty
<1> QED  BY <1>1 DEF NetOf, ShownOf

LEMMA PaidWhenRecognised ==
    ASSUME NEW recs, RecordsOK(recs), NEW r \in Receipts, recs[r].reversed = 0,
           Elegivel(recs, r) = recs[r].amount
    PROVE  ReceiptPaid(recs, r, {StandardLine(recs, r)})
<1> DEFINE c == StandardLine(recs, r)
           rate == PercentualDe(recs, r)
           l == recs[r].amount
<1>1. IsCredit(c) /\ c.eligible = l /\ c.amount = Full(recs, r)
  BY StandardLineIs DEF StandardShare, Full
<1>2. Full(recs, r) \in Nat /\ l \in Nat /\ rate \in Nat /\ (Full(recs, r) > 0 => Unit(recs, r) \in Nat)
  BY FullIsNatural
<1>3. 100 * Full(recs, r) <= l * rate + 50 /\ l * rate <= 100 * Full(recs, r) + 50
  BY <1>2, PercentRounds DEF Full
<1> HIDE DEF c, rate, l
<1>4. NetOf({c}) = Full(recs, r)
  <2>1. NetOf({} \union {c}) = NetOf({}) + c.amount
    BY <1>1, <1>2, FS_EmptySet, NetGrows
  <2>2. {} \union {c} = {c}
    OBVIOUS
  <2> QED  BY <1>1, <1>2, <2>1, <2>2, NetOfNone
<1>5. ShownOf(recs, r, {c}) = l
  <2>1. Shown(recs, r, c) = l
    BY <1>1 DEF Shown, l
  <2>2. ShownOf(recs, r, {} \union {c}) = ShownOf(recs, r, {}) + Shown(recs, r, c)
    <3>1. \A x : x \notin {} /\ Shown(recs, r, x) \in Int =>
              ShownOf(recs, r, {} \union {x}) = ShownOf(recs, r, {}) + Shown(recs, r, x)
      <4>1. IsFiniteSet({}) /\ \A e \in {} : Shown(recs, r, e) \in Int
        BY FS_EmptySet
      <4> QED  BY <4>1, ShownGrows
    <3> QED  BY <1>2, <2>1, <3>1
  <2>3. {} \union {c} = {c}
    OBVIOUS
  <2> QED  BY <1>2, <2>1, <2>2, <2>3, NetOfNone
<1>6. Cardinality({c}) = 1 /\ DebitsIn({c}) = {} /\ Cardinality({}) = 0
  BY <1>1, FS_Singleton, FS_EmptySet DEF DebitsIn
<1>7. recs[r].amount = l /\ recs[r].reversed = 0 /\ PercentualDe(recs, r) = rate /\ l - 0 = l
  BY <1>2 DEF l, rate
<1>8. PaidInFull(recs, r, {c})
  BY <1>1, <1>7 DEF PaidInFull
<1>9. FollowsRate(recs, r, {c})
  <2>1. (recs[r].amount - recs[r].reversed) * PercentualDe(recs, r) = l * rate
    BY <1>2, <1>7
  <2>2. l * rate \in Nat
    BY <1>2
  <2> DEFINE lr == l * rate
  <2> HIDE DEF lr
  <2> QED  BY <1>2, <1>3, <1>4, <1>6, <2>1, <2>2 DEF FollowsRate
<1>10. Full(recs, r) > 0 => FollowsAmount(recs, r, {c})
  <2> SUFFICES ASSUME Full(recs, r) > 0 PROVE FollowsAmount(recs, r, {c})
    OBVIOUS
  <2>1. Unit(recs, r) * Cardinality(DebitsIn({c})) = 0
    <3>1. \A u \in Nat : u * 0 = 0
      OBVIOUS
    <3>2. Cardinality(DebitsIn({c})) = 0
      BY <1>6
    <3> QED  BY <1>2, <3>1, <3>2
  <2>2. ShownOf(recs, r, {c}) - (recs[r].amount - recs[r].reversed) = 0
    BY <1>2, <1>5, <1>7
  <2> QED  BY <2>1, <2>2 DEF FollowsAmount
<1> QED  BY <1>8, <1>9, <1>10 DEF ReceiptPaid, c

\* A reversal of x takes its percentage back.
LEMMA PaidWhenReversed ==
    ASSUME NEW recs, RecordsOK(recs), NEW more, RecordsOK(more), NEW r \in Receipts, NEW x \in Nat,
           more[r].proposal = recs[r].proposal, more[r].date = recs[r].date,
           more[r].amount = recs[r].amount, more[r].reversed = recs[r].reversed + x,
           NEW lines, IsFiniteSet(lines), \A e \in lines : e \in Entry,
           ReceiptPaid(recs, r, lines),
           NEW d, d \notin lines, ~IsCredit(d), d.eligible = recs[r].amount,
           d.amount = -Percent(x, PercentualDe(recs, r))
    PROVE  ReceiptPaid(more, r, lines \union {d})
<1> DEFINE rate == PercentualDe(recs, r)
           l == recs[r].amount
           v == recs[r].reversed
           back == Percent(x, rate)
           all == lines \union {d}
           n == Cardinality(lines)
           u == Unit(recs, r)
           a == Full(recs, r)
<1>1. PercentualDe(more, r) = rate /\ Full(more, r) = a /\ Unit(more, r) = u
  BY DEF PercentualDe, PolicyOf, ConfigOf, ConsultantOf, Full, Unit
<1>2. a \in Nat /\ l \in Nat /\ v \in Nat /\ rate \in Nat /\ (a > 0 => u \in Nat)
  BY FullIsNatural
<1>3. x + v <= l
  <2>1. more[r].reversed <= more[r].amount
    BY DEF RecordsOK
  <2> QED  BY <1>2, <2>1
<1>4. back \in Nat /\ 100 * back <= x * rate + 50 /\ x * rate <= 100 * back + 50
  BY <1>2, PercentRounds
<1>5. /\ n \in Nat /\ Cardinality(all) = n + 1
      /\ NetOf(lines) \in Int /\ NetOf(all) = NetOf(lines) - back
  <2>1. \A e \in lines : e.amount \in Int
    BY DEF Entry
  <2>2. NetOf(lines) \in Int /\ NetOf(all) = NetOf(lines) + d.amount
    BY <1>4, <2>1, NetGrows
  <2>3. n \in Nat /\ Cardinality(all) = n + 1
    BY FS_CardinalityType, FS_AddElement
  <2> QED  BY <1>4, <2>2, <2>3
<1>6. more[r].amount = l /\ more[r].reversed = v + x
  OBVIOUS
<1>7. PaidInFull(recs, r, lines) /\ FollowsRate(recs, r, lines) /\ (a > 0 => FollowsAmount(recs, r, lines))
  BY DEF ReceiptPaid
<1>8. d.amount = -back
  OBVIOUS
<1>9. PaidInFull(more, r, all)
  <2>1. d.amount <= 0
    BY <1>4, <1>8
  <2>2. \A e \in all : /\ e.eligible = l
                       /\ IF IsCredit(e) THEN e.amount = a ELSE e.amount <= 0
    BY <1>7, <2>1 DEF PaidInFull
  <2>3. \E c \in all : IsCredit(c)
    BY <1>7 DEF PaidInFull
  <2> QED  BY <1>1, <1>6, <2>2, <2>3 DEF PaidInFull
<1>10. FollowsRate(more, r, all)
  <2> DEFINE worth == (l - v) * rate
             less == x * rate
             net == NetOf(lines)
  <2>1. worth \in Int /\ less \in Nat /\ (l - (v + x)) * rate = worth - less
    BY <1>2
  <2>2. worth <= 100 * net + 50 * n /\ 100 * net <= worth + 50 * n
    BY <1>7 DEF FollowsRate
  <2>3. 100 * back <= less + 50 /\ less <= 100 * back + 50 /\ net \in Int /\ NetOf(all) = net - back
    BY <1>4, <1>5
  <2>4. (more[r].amount - more[r].reversed) * PercentualDe(more, r) = worth - less
    BY <1>1, <1>6, <2>1
  <2> HIDE DEF worth, less, net, all, n, back
  <2>5. /\ worth - less <= 100 * NetOf(all) + 50 * (n + 1)
        /\ 100 * NetOf(all) <= worth - less + 50 * (n + 1)
    BY <1>4, <1>5, <2>1, <2>2, <2>3
  <2> QED  BY <1>5, <2>4, <2>5 DEF FollowsRate
<1>11. ASSUME a > 0 PROVE FollowsAmount(more, r, all)
  <2> DEFINE q == Quantize(l * back, a)
             k == Cardinality(DebitsIn(lines))
             shown == ShownOf(recs, r, lines)
  <2>1. q \in Nat /\ x - u <= q /\ q <= x + u
    <3>1. Percent(l, rate) > 0 /\ x <= l
      BY <1>2, <1>3, <1>11 DEF Full
    <3>2. LET m == l \div Percent(l, rate) + 1
          IN  q \in Nat /\ m \in Nat /\ x - m <= q /\ q <= x + m
      BY <1>2, <3>1, DebitShows DEF Full
    <3> QED  BY <3>2 DEF Unit, Full
  <2>2. k \in Nat /\ Cardinality(DebitsIn(all)) = k + 1
    <3>1. DebitsIn(lines) \in SUBSET lines /\ d \notin DebitsIn(lines)
      BY DEF DebitsIn
    <3>2. DebitsIn(all) = DebitsIn(lines) \union {d}
      BY DEF DebitsIn
    <3>3. IsFiniteSet(DebitsIn(lines))
      BY <3>1, FS_Subset
    <3> QED  BY <3>1, <3>2, <3>3, FS_CardinalityType, FS_AddElement
  <2>3. shown \in Int /\ ShownOf(recs, r, all) = shown - q
    <3>1. \A e \in lines : Shown(recs, r, e) \in Int
      <4> SUFFICES ASSUME NEW e \in lines PROVE Shown(recs, r, e) \in Int
        OBVIOUS
      <4>1. CASE IsCredit(e)
        BY <1>2, <4>1 DEF Shown
      <4>2. CASE ~IsCredit(e)
        <5>1. e.amount <= 0 /\ e.amount \in Int
          BY <1>7, <4>2 DEF PaidInFull, Entry
        <5>2. l * (-e.amount) \in Nat
          BY <1>2, <5>1
        <5>3. Quantize(l * (-e.amount), a) \in Nat
          BY <1>2, <1>11, <5>2, QuantizeRounds
        <5> QED  BY <4>2, <5>3 DEF Shown
      <4> QED  BY <4>1, <4>2
    <3>2. Shown(recs, r, d) = -q
      <4>1. -d.amount = back
        BY <1>4, <1>8
      <4> QED  BY <4>1 DEF Shown
    <3>3. ShownOf(recs, r, all) = shown + Shown(recs, r, d) /\ shown \in Int
      <4>1. Shown(recs, r, d) \in Int
        BY <2>1, <3>2
      <4> QED  BY <3>1, <4>1, ShownGrows
    <3> QED  BY <2>1, <3>2, <3>3
  <2>4. ShownOf(more, r, all) = ShownOf(recs, r, all)
    <3>1. \A e : Shown(more, r, e) = Shown(recs, r, e)
      BY <1>1, <1>6 DEF Shown
    <3> QED  BY <3>1 DEF ShownOf
  <2>5. -(u * k) <= shown - (l - v) /\ shown - (l - v) <= u * k
    BY <1>7, <1>11 DEF FollowsAmount
  <2>6. u \in Nat /\ u * k \in Nat /\ u * (k + 1) = u * k + u
    BY <1>2, <1>11, <2>2
  <2> DEFINE uk == u * k
  <2>7. uk \in Nat /\ u * (k + 1) = uk + u /\ -uk <= shown - (l - v) /\ shown - (l - v) <= uk
    BY <2>5, <2>6
  <2> HIDE DEF uk, shown, q, k, all, u
  <2>8. /\ -(u * (k + 1)) <= (shown - q) - (l - (v + x))
        /\ (shown - q) - (l - (v + x)) <= u * (k + 1)
    BY <1>2, <2>1, <2>3, <2>6, <2>7
  <2> QED  BY <1>1, <1>6, <2>2, <2>3, <2>4, <2>8 DEF FollowsAmount
<1> QED  BY <1>1, <1>9, <1>10, <1>11 DEF ReceiptPaid


\* A receipt but for its status.
SameReceipt(a, b) ==
    a.proposal = b.proposal /\ a.date = b.date /\ a.amount = b.amount /\ a.reversed = b.reversed

LEMMA SameForLines ==
    ASSUME NEW recs, NEW more, NEW r, SameReceipt(recs[r], more[r])
    PROVE  /\ RoleOf(more, r) = RoleOf(recs, r) /\ ConsultantOf(more, r) = ConsultantOf(recs, r)
           /\ PercentualDe(more, r) = PercentualDe(recs, r) /\ Liquido(more[r]) = Liquido(recs[r])
           /\ \A lines : ReceiptPaid(recs, r, lines) => ReceiptPaid(more, r, lines)
<1>1. /\ RoleOf(more, r) = RoleOf(recs, r) /\ ConsultantOf(more, r) = ConsultantOf(recs, r)
      /\ PercentualDe(more, r) = PercentualDe(recs, r) /\ Liquido(more[r]) = Liquido(recs[r])
  BY DEF SameReceipt, RoleOf, ConsultantOf, PercentualDe, PolicyOf, ConfigOf, Liquido
<1>2. more[r].amount = recs[r].amount /\ more[r].reversed = recs[r].reversed
  BY DEF SameReceipt
<1>3. Full(more, r) = Full(recs, r) /\ Unit(more, r) = Unit(recs, r)
  BY <1>1, <1>2 DEF Full, Unit
<1>4. \A lines : ShownOf(more, r, lines) = ShownOf(recs, r, lines)
  <2>1. \A e : Shown(more, r, e) = Shown(recs, r, e)
    BY <1>2, <1>3 DEF Shown
  <2> QED  BY <2>1 DEF ShownOf
<1>5. \A lines : /\ PaidInFull(recs, r, lines) => PaidInFull(more, r, lines)
                 /\ FollowsRate(recs, r, lines) => FollowsRate(more, r, lines)
                 /\ FollowsAmount(recs, r, lines) => FollowsAmount(more, r, lines)
  BY <1>1, <1>2, <1>3, <1>4 DEF PaidInFull, FollowsRate, FollowsAmount
<1> QED  BY <1>1, <1>3, <1>5 DEF ReceiptPaid

-----------------------------------------------------------------------------
\* The money of a proposal and what its standard consultant earned by it.

GrossOf(recs, p) == SumFunction([r \in Of(recs, p) |-> recs[r].amount])

Plain(recs, p) == \A r \in Of(recs, p) : RoleOf(recs, r) = Standard

OneRateOf(recs, p) ==
    \A r, s \in Of(recs, p) : PercentualDe(recs, r) = PercentualDe(recs, s)

\* What the lines of a receipt are worth at most, in hundredths of a centavo.
Covered(lines) == 100 * NetOf(lines) + 50 * Cardinality(lines)

CoveredBy(recs, book, p) == SumFunction([r \in Of(recs, p) |-> Covered(Lines(book, r))])

Released(recs, book, p) ==
    \A r \in Of(recs, p) :
        Smaller(Total(recs, Of(recs, p)), Commission[p]) * PercentualDe(recs, r) <= CoveredBy(recs, book, p)

Money(recs, book, p) ==
    /\ \A r \in Receipts : recs[r].proposal = p => LinesOK(recs, book, r)
    /\ Plain(recs, p) /\ GrossOf(recs, p) <= Commission[p] =>
           \A r \in Of(recs, p) : ReceiptPaid(recs, r, Lines(book, r))
    /\ Plain(recs, p) /\ OneRateOf(recs, p) => Released(recs, book, p)

LEMMA OfIsFinite ==
    ASSUME NEW recs, NEW p
    PROVE  Of(recs, p) \in SUBSET Receipts /\ IsFiniteSet(Of(recs, p))
BY ReceiptsAssumption, FS_Subset DEF Of, Approved

LEMMA GrossFacts ==
    ASSUME NEW recs, RecordsOK(recs), NEW p
    PROVE  /\ GrossOf(recs, p) \in Nat
           /\ Total(recs, Of(recs, p)) <= GrossOf(recs, p)
<1> DEFINE D == Of(recs, p)
           f == [r \in D |-> recs[r].amount]
           g == Kept(recs)
           z == [r \in D |-> 0]
<1>1. D \in SUBSET Receipts /\ IsFiniteSet(D)
  BY OfIsFinite
<1>2. \A r \in D : f[r] \in Nat /\ g[r] \in Nat /\ z[r] = 0 /\ g[r] <= f[r] + z[r]
  BY <1>1, KeptIsNatural
<1>3. GrossOf(recs, p) = SumFunction(f) /\ DOMAIN f = D
  BY DEF GrossOf
<1> HIDE DEF D, f, g, z
<1>4. Numbers(f, D) /\ Numbers(g, D) /\ Numbers(z, D)
  BY <1>2 DEF Numbers
<1>5. SumIn(z, D) = 0
  <2>1. SumIn(z, D) = 0 * Cardinality(D)
    BY <1>1, <1>2, SumConstant
  <2> QED  BY <1>1, <2>1, FS_CardinalityType
<1>6. SumIn(g, D) <= SumIn(f, D) + SumIn(z, D)
  BY <1>1, <1>2, <1>4, SumAtMost
<1>7. SumIn(f, D) \in Int /\ 0 <= SumIn(f, D) /\ SumIn(g, D) \in Int
  BY <1>1, <1>2, <1>4, SumInt, SumOfPart
<1>8. Total(recs, D) = SumIn(g, D)
  BY <1>1, Totals DEF g
<1> QED  BY <1>3, <1>5, <1>6, <1>7, <1>8, SumFunctionIn DEF D

LEMMA GrossGrows ==
    ASSUME NEW recs, RecordsOK(recs), NEW more, RecordsOK(more), NEW p,
           \A r \in Receipts : more[r].amount = recs[r].amount, Of(recs, p) \subseteq Of(more, p)
    PROVE  GrossOf(recs, p) <= GrossOf(more, p)
<1> DEFINE A == Of(recs, p)
           D == Of(more, p)
           f == [r \in D |-> more[r].amount]
           g == [r \in A |-> recs[r].amount]
<1>1. A \in SUBSET D /\ D \in SUBSET Receipts /\ IsFiniteSet(D) /\ IsFiniteSet(A)
  BY OfIsFinite
<1>2. \A r \in D : f[r] \in Nat
  BY <1>1, KeptIsNatural
<1>3. \A r \in A : g[r] = f[r]
  BY <1>1
<1>4. /\ GrossOf(recs, p) = SumFunction(g) /\ DOMAIN g = A
      /\ GrossOf(more, p) = SumFunction(f) /\ DOMAIN f = D
  BY DEF GrossOf
<1> HIDE DEF A, D, f, g
<1>5. SumFunction(g) = SumIn(f, A) /\ SumFunction(f) = SumIn(f, D)
  BY <1>1, <1>3, <1>4, SumOver, SumFunctionIn
<1>6. SumIn(f, A) <= SumIn(f, D)
  BY <1>1, <1>2, SumOfPart
<1> QED  BY <1>4, <1>5, <1>6

LEMMA CoveredIs ==
    ASSUME NEW recs, NEW book, NEW D \in SUBSET Receipts,
           \A r \in D : LinesOK(recs, book, r)
    PROVE  \A r \in D : Covered(Lines(book, r)) \in Int
<1> SUFFICES ASSUME NEW r \in D PROVE Covered(Lines(book, r)) \in Int
  OBVIOUS
<1>1. IsFiniteSet(Lines(book, r)) /\ \A e \in Lines(book, r) : e.amount \in Int
  BY DEF LinesOK, LineOK, Entry
<1> QED  BY <1>1, NetGrows, FS_CardinalityType DEF Covered


LEMMA SumMonotone ==
    ASSUME NEW f, NEW g, NEW D, IsFiniteSet(D), Numbers(f, D), Numbers(g, D), \A x \in D : f[x] <= g[x]
    PROVE  SumIn(f, D) <= SumIn(g, D) /\ SumIn(f, D) \in Int /\ SumIn(g, D) \in Int
<1> DEFINE z == [x \in D |-> 0]
<1>1. Numbers(z, D) /\ \A x \in D : z[x] = 0 /\ f[x] <= g[x] + z[x]
  BY DEF Numbers
<1> HIDE DEF z
<1>2. SumIn(z, D) = 0 * Cardinality(D)
  BY <1>1, SumConstant
<1>3. SumIn(f, D) <= SumIn(g, D) + SumIn(z, D)
  BY <1>1, SumAtMost
<1> QED  BY <1>2, <1>3, SumInt, FS_CardinalityType

\* The sums of Released, with the worth of the lines in c.
ReleaseSums(recs, book, p, k, c) ==
    /\ Numbers(c, Of(recs, p))
    /\ CoveredBy(recs, book, p) = SumIn(c, Of(recs, p))
    /\ Smaller(Total(recs, Of(recs, p)), Commission[p]) = SumIn(Eligibles(recs), Of(recs, p))
    /\ Released(recs, book, p) <=> SumIn(Eligibles(recs), Of(recs, p)) * k <= SumIn(c, Of(recs, p))

LEMMA ReleasedIs ==
    ASSUME NEW recs, RecordsOK(recs), NEW book, NEW p \in Proposals,
           \A r \in Receipts : recs[r].proposal = p => LinesOK(recs, book, r),
           NEW k \in Nat, \A r \in Of(recs, p) : PercentualDe(recs, r) = k,
           NEW c, \A r \in Of(recs, p) : c[r] = Covered(Lines(book, r))
    PROVE  ReleaseSums(recs, book, p, k, c)
<1> DEFINE D == Of(recs, p)
           f == [r \in D |-> Covered(Lines(book, r))]
<1>1. D \in SUBSET Receipts /\ IsFiniteSet(D) /\ \A r \in D : recs[r].proposal = p
  BY OfIsFinite DEF Of
<1>2. \A r \in D : f[r] = c[r] /\ c[r] \in Int
  <2>1. \A r \in D : LinesOK(recs, book, r)
    BY <1>1
  <2> HIDE DEF D
  <2>2. \A r \in D : Covered(Lines(book, r)) \in Int
    BY <1>1, <2>1, CoveredIs
  <2> QED  BY <2>2 DEF D
<1>3. CoveredBy(recs, book, p) = SumFunction(f) /\ DOMAIN f = D
  BY DEF CoveredBy
<1> HIDE DEF f
<1>4. CoveredBy(recs, book, p) = SumIn(c, D)
  BY <1>1, <1>2, <1>3, SumOver
<1>5. Smaller(Total(recs, D), Commission[p]) = SumIn(Eligibles(recs), D)
  BY EligibleTogether
<1>6. D = {} => SumIn(Eligibles(recs), D) * k <= SumIn(c, D)
  BY SumEmpty
<1>7. Released(recs, book, p) <=> SumIn(Eligibles(recs), D) * k <= SumIn(c, D)
  <2>1. Released(recs, book, p) <=> \A r \in D : SumIn(Eligibles(recs), D) * k <= SumIn(c, D)
    BY <1>4, <1>5 DEF Released
  <2> HIDE DEF D
  <2> QED  BY <1>6, <2>1
<1> QED  BY <1>2, <1>4, <1>5, <1>7 DEF Numbers, ReleaseSums

LEMMA RecogniseKeepsMoney ==
    ASSUME NEW recs, RecordsOK(recs), NEW book, NEW p \in Proposals, NEW S \in SUBSET Receipts,
           \A r \in S : /\ recs[r].proposal = p /\ recs[r].status = "SUBMITTED"
                        /\ recs[r].reversed = 0 /\ recs[r].amount > 0,
           NEW more, RecordsOK(more), \A r \in Receipts : SameReceipt(recs[r], more[r]),
           Approved(more) = Approved(recs) \union S,
           Money(recs, book, p)
    PROVE  Money(more, book \union NewCredits(more, book, p), p)
<1> DEFINE new == book \union NewCredits(more, book, p)
           A == Of(recs, p)
           D == Of(more, p)
<1>1. /\ D = A \union S /\ A \intersect S = {} /\ D \in SUBSET Receipts /\ IsFiniteSet(D)
      /\ \A r \in Receipts : more[r].proposal = recs[r].proposal /\ more[r].amount = recs[r].amount
                             /\ more[r].reversed = recs[r].reversed
      /\ \A r \in D : more[r].proposal = p
  <2>1. \A r \in Receipts : more[r].proposal = recs[r].proposal /\ more[r].amount = recs[r].amount
                            /\ more[r].reversed = recs[r].reversed
    BY DEF SameReceipt
  <2>2. D = A \union S /\ A \intersect S = {}
    BY <2>1 DEF Of, Approved
  <2>3. D \in SUBSET Receipts /\ IsFiniteSet(D)
    BY OfIsFinite
  <2>4. \A r \in D : more[r].proposal = p
    BY DEF Of
  <2> HIDE DEF A, D
  <2> QED  BY <2>1, <2>2, <2>3, <2>4
<1>2. \A r \in Receipts :
          /\ RoleOf(more, r) = RoleOf(recs, r) /\ ConsultantOf(more, r) = ConsultantOf(recs, r)
          /\ PercentualDe(more, r) = PercentualDe(recs, r) /\ Liquido(more[r]) = Liquido(recs[r])
          /\ \A lines : ReceiptPaid(recs, r, lines) => ReceiptPaid(more, r, lines)
  BY SameForLines
<1>3. \A r \in Receipts : recs[r].proposal = p => LinesOK(recs, book, r)
  BY DEF Money
<1>4. ASSUME NEW r \in Receipts, more[r].proposal = p
      PROVE  Lines(new, r) =
                 IF /\ r \in D /\ Elegivel(more, r) > 0
                    /\ RoleOf(more, r) # Scaled /\ Lines(book, r) = {}
                 THEN {StandardLine(more, r)}
                 ELSE Lines(book, r)
  <2>1. \A e \in Lines(book, r) : e.beneficiary = ConsultantOf(more, r)
    BY <1>1, <1>2, <1>3, <1>4 DEF LinesOK, LineOK
  <2>2. Recognised(more, book, p, r)
    BY <1>4, <2>1, RecognisedLines
  <2> QED  BY <2>2 DEF Recognised
<1>5. \A r \in S : Lines(book, r) = {}
  BY <1>1, <1>3 DEF LinesOK
<1> HIDE DEF new, A, D
<1>6. ASSUME NEW r \in Receipts, more[r].proposal = p PROVE LinesOK(more, new, r)
  <2>1. LinesOK(recs, book, r)
    BY <1>1, <1>3, <1>6
  <2>2. CASE Lines(new, r) = Lines(book, r)
    <3>1. recs[r].status = "APPROVED" => more[r].status = "APPROVED"
      BY <1>6 DEF Approved
    <3>2. \A e : LineOK(recs, r, e) => LineOK(more, r, e)
      BY <1>1, <1>2 DEF LineOK
    <3> QED  BY <2>1, <2>2, <3>1, <3>2 DEF LinesOK
  <2>3. CASE Lines(new, r) = {StandardLine(more, r)} /\ r \in D
    <3> DEFINE c == StandardLine(more, r)
    <3>1. c \in Entry /\ IsCredit(c) /\ c.reversal = 0 /\ c.beneficiary = ConsultantOf(more, r)
      BY StandardLineIs
    <3>2. more[r].status = "APPROVED" /\ more[r].reversed \in Nat
      BY <2>3, KeptIsNatural DEF D, Of, Approved
    <3> HIDE DEF c
    <3> QED  BY <2>3, <3>1, <3>2, FS_Singleton DEF LinesOK, LineOK, c
  <2> QED  BY <1>4, <1>6, <2>2, <2>3
<1>7. ASSUME Plain(more, p) PROVE Plain(recs, p) /\ \A r \in D : RoleOf(more, r) # Scaled
  BY <1>1, <1>2, <1>7 DEF Plain, A, D, Standard, Scaled
<1>8. ASSUME Plain(more, p), GrossOf(more, p) <= Commission[p], NEW r \in D
      PROVE  ReceiptPaid(more, r, Lines(new, r))
  <2>1. GrossOf(recs, p) <= GrossOf(more, p)
    BY <1>1, GrossGrows DEF A, D
  <2>2. GrossOf(recs, p) \in Nat /\ GrossOf(more, p) \in Nat /\ Commission[p] \in Nat
    BY GrossFacts, ProposalsAssumption
  <2>3. r \in Receipts /\ more[r].proposal = p
    BY <1>1
  <2>4. CASE r \in A
    <3>1. ReceiptPaid(recs, r, Lines(book, r))
      BY <1>7, <1>8, <2>1, <2>2, <2>4 DEF Money, A
    <3>2. Lines(book, r) # {}
      BY <3>1 DEF ReceiptPaid, PaidInFull
    <3> QED  BY <1>2, <1>4, <2>3, <3>1, <3>2
  <2>5. CASE r \in S
    <3>1. Total(more, D) <= Commission[p]
      <4>1. Total(more, D) <= GrossOf(more, p)
        BY GrossFacts DEF D
      <4>2. Total(more, D) \in Nat
        BY <1>1, Totals
      <4> QED  BY <1>8, <2>2, <4>1, <4>2
    <3>2. Elegivel(more, r) = Liquido(more[r])
      BY <1>8, <3>1, EligibleInFull DEF D
    <3>3. more[r].reversed = 0 /\ more[r].amount > 0 /\ Liquido(more[r]) = more[r].amount - more[r].reversed
          /\ more[r].amount \in Nat
      BY <1>1, <2>3, <2>5, KeptIsNatural
    <3>4. Elegivel(more, r) = more[r].amount /\ Elegivel(more, r) > 0
      BY <3>2, <3>3
    <3>5. Lines(new, r) = {StandardLine(more, r)}
      BY <1>4, <1>5, <1>7, <1>8, <2>3, <2>5, <3>4
    <3> QED  BY <2>3, <3>3, <3>4, <3>5, PaidWhenRecognised
  <2> QED  BY <1>1, <1>8, <2>4, <2>5
<1>9. ASSUME Plain(more, p), OneRateOf(more, p) PROVE Released(more, new, p)
  <2>1. CASE D = {}
    BY <2>1 DEF Released, D
  <2>2. CASE D # {}
    <3>1. PICK r0 \in D : TRUE
      BY <2>2
    <3> DEFINE k == PercentualDe(more, r0)
               c0 == [r \in D |-> Covered(Lines(book, r))]
               c1 == [r \in D |-> Covered(Lines(new, r))]
               e0 == Eligibles(recs)
               e1 == Eligibles(more)
    <3>2. k \in Nat /\ (\A r \in D : PercentualDe(more, r) = k) /\ \A r \in A : PercentualDe(recs, r) = k
      BY <1>1, <1>2, <1>9, <3>1, RateIsNatural DEF OneRateOf, D
    <3>3. Released(recs, book, p)
      <4>1. OneRateOf(recs, p)
        BY <3>2 DEF OneRateOf, A
      <4> QED  BY <1>7, <1>9, <4>1 DEF Money
    <3>4. /\ \A r \in D : c1[r] = Covered(Lines(new, r)) /\ c0[r] = Covered(Lines(book, r))
          /\ A \in SUBSET D /\ S \in SUBSET D /\ IsFiniteSet(A) /\ IsFiniteSet(S)
      <4>1. A \in SUBSET D /\ S \in SUBSET D
        BY <1>1
      <4> QED  BY <1>1, <4>1, FS_Subset
    <3>5. \A r \in D : /\ e0[r] = Elegivel(recs, r) /\ e0[r] \in Nat
                       /\ e1[r] = Elegivel(more, r) /\ e1[r] \in Nat /\ e1[r] <= e0[r]
      <4>1. \A s \in Receipts : /\ more[s].proposal = recs[s].proposal /\ more[s].date = recs[s].date
                                /\ Liquido(more[s]) = Liquido(recs[s])
        BY <1>2 DEF SameReceipt
      <4>2. Approved(recs) \subseteq Approved(more)
        OBVIOUS
      <4>3. \A r \in Receipts : Elegivel(more, r) <= Elegivel(recs, r)
        BY <4>1, <4>2, EligibleShrinks
      <4>4. \A r \in Receipts : Elegivel(more, r) \in Nat /\ Elegivel(recs, r) \in Nat
        BY Eligible
      <4> QED  BY <1>1, <4>3, <4>4 DEF Eligibles
    <3> HIDE DEF k, c0, c1, e0, e1
    <3>6. /\ Numbers(c0, A)
          /\ Released(recs, book, p) <=> SumIn(e0, A) * k <= SumIn(c0, A)
      <4>1. \A r \in Of(recs, p) : c0[r] = Covered(Lines(book, r))
        BY <3>4 DEF A
      <4>2. ReleaseSums(recs, book, p, k, c0)
        BY <1>3, <3>2, <4>1, ReleasedIs DEF A
      <4> QED  BY <4>2 DEF ReleaseSums, A, e0
    <3>7. /\ Numbers(c1, D)
          /\ Released(more, new, p) <=> SumIn(e1, D) * k <= SumIn(c1, D)
      <4>1. \A r \in Of(more, p) : c1[r] = Covered(Lines(new, r))
        BY <3>4 DEF D
      <4>2. \A r \in Receipts : more[r].proposal = p => LinesOK(more, new, r)
        BY <1>6
      <4>3. ReleaseSums(more, new, p, k, c1)
        BY <3>2, <4>1, <4>2, ReleasedIs DEF D
      <4> QED  BY <4>3 DEF ReleaseSums, D, e1
    <3>8. ASSUME NEW r \in D, Lines(book, r) = {}, RoleOf(more, r) # Scaled
          PROVE  c0[r] = 0 /\ e1[r] * k <= c1[r]
      <4>1. r \in Receipts /\ more[r].proposal = p
        BY <1>1
      <4>2. NetOf({}) = 0 /\ Covered({}) = 0
        BY NetOfNone, FS_EmptySet DEF Covered
      <4>3. c0[r] = 0
        <5>1. c0[r] = Covered(Lines(book, r))
          BY <3>4
        <5> QED  BY <3>8, <4>2, <5>1
      <4>4. CASE Elegivel(more, r) > 0
        <5> DEFINE c == StandardLine(more, r)
        <5>1. Lines(new, r) = {c}
          BY <1>4, <3>8, <4>1, <4>4
        <5>2. c.amount = StandardShare(more, r) /\ StandardShare(more, r) \in Nat
          BY <4>1, StandardLineIs
        <5> HIDE DEF c
        <5>3. NetOf({c}) = c.amount
          <6>1. NetOf({} \union {c}) = NetOf({}) + c.amount
            BY <5>2, FS_EmptySet, NetGrows
          <6>2. {} \union {c} = {c}
            OBVIOUS
          <6> QED  BY <4>2, <5>2, <6>1, <6>2
        <5>4. c1[r] = 100 * StandardShare(more, r) + 50
          <6>1. Covered({c}) = 100 * NetOf({c}) + 50 * 1
            BY FS_Singleton DEF Covered
          <6>2. c1[r] = Covered(Lines(new, r))
            BY <3>4
          <6>3. c1[r] = 100 * c.amount + 50
            BY <5>1, <5>2, <5>3, <6>1, <6>2
          <6> QED  BY <5>2, <6>3
        <5>5. e1[r] * k <= 100 * StandardShare(more, r) + 50
          <6>1. StandardShare(more, r) = Percent(e1[r], k)
            BY <3>2, <3>5 DEF StandardShare
          <6> QED  BY <3>2, <3>5, <6>1, PercentRounds
        <5> QED  BY <4>3, <5>4, <5>5
      <4>5. CASE ~(Elegivel(more, r) > 0)
        <5>1. Lines(new, r) = {}
          BY <1>4, <3>8, <4>1, <4>5
        <5>2. c1[r] = 0
          <6>1. c1[r] = Covered(Lines(new, r))
            BY <3>4
          <6> QED  BY <4>2, <5>1, <6>1
        <5>3. e1[r] = 0
          BY <3>5, <4>5
        <5> QED  BY <3>2, <4>3, <5>2, <5>3
      <4> QED  BY <4>4, <4>5
    <3>9. ASSUME NEW r \in A PROVE c0[r] <= c1[r]
      <4>1. r \in D /\ r \in Receipts /\ more[r].proposal = p /\ RoleOf(more, r) # Scaled
        BY <1>1, <1>7, <1>9
      <4>2. CASE Lines(book, r) = {}
        <5>1. e1[r] * k \in Nat /\ c1[r] \in Int
          BY <3>2, <3>5, <3>7, <4>1 DEF Numbers
        <5> QED  BY <3>8, <4>1, <4>2, <5>1
      <4>3. CASE Lines(book, r) # {}
        <5>1. Lines(new, r) = Lines(book, r)
          BY <1>4, <4>1, <4>3
        <5>2. c0[r] = c1[r] /\ c1[r] \in Int
          BY <3>4, <3>7, <4>1, <5>1 DEF Numbers
        <5> QED  BY <5>2
      <4> QED  BY <4>2, <4>3
    <3>10. SumIn(c0, A) <= SumIn(c1, A) /\ SumIn(c0, A) \in Int /\ SumIn(c1, A) \in Int
      <4>1. Numbers(c1, A)
        BY <3>4, <3>7 DEF Numbers
      <4> QED  BY <3>4, <3>6, <3>9, <4>1, SumMonotone
    <3>11. k * SumIn(e1, S) <= SumIn(c1, S) /\ SumIn(c1, S) \in Int
      <4> DEFINE g == [r \in S |-> k * e1[r]]
      <4>1. \A r \in S : g[r] = k * e1[r] /\ g[r] \in Int /\ g[r] <= c1[r]
        <5> SUFFICES ASSUME NEW r \in S PROVE g[r] \in Int /\ g[r] <= c1[r]
          OBVIOUS
        <5>1. r \in D /\ Lines(book, r) = {} /\ RoleOf(more, r) # Scaled
          BY <1>5, <1>7, <1>9, <3>4
        <5>2. e1[r] * k <= c1[r] /\ e1[r] * k = k * e1[r] /\ k * e1[r] \in Int
          BY <3>2, <3>5, <3>8, <5>1
        <5> QED  BY <5>2
      <4> HIDE DEF g
      <4>2. Numbers(g, S) /\ Numbers(c1, S) /\ Numbers(e1, S)
        BY <3>4, <3>5, <3>7, <4>1 DEF Numbers
      <4>3. SumIn(g, S) <= SumIn(c1, S) /\ SumIn(c1, S) \in Int
        BY <3>4, <4>1, <4>2, SumMonotone
      <4>4. SumIn(g, S) = k * SumIn(e1, S)
        BY <3>2, <3>4, <4>1, <4>2, SumTimes
      <4> QED  BY <4>3, <4>4
    <3>12. SumIn(e1, A) <= SumIn(e0, A) /\ SumIn(e1, A) \in Int /\ SumIn(e0, A) \in Int
      <4>1. Numbers(e1, A) /\ Numbers(e0, A) /\ \A r \in A : e1[r] <= e0[r]
        BY <3>4, <3>5 DEF Numbers
      <4> QED  BY <3>4, <4>1, SumMonotone
    <3>13. /\ SumIn(e1, D) = SumIn(e1, A) + SumIn(e1, S) /\ SumIn(c1, D) = SumIn(c1, A) + SumIn(c1, S)
           /\ SumIn(e1, S) \in Int
      <4>1. Numbers(e1, A) /\ Numbers(e1, S) /\ Numbers(c1, A) /\ Numbers(c1, S)
        BY <3>4, <3>5, <3>7 DEF Numbers
      <4> QED  BY <1>1, <3>4, <4>1, SumUnion, SumInt
    <3> DEFINE a0 == SumIn(e0, A)
               a1 == SumIn(e1, A)
               s1 == SumIn(e1, S)
    <3>14. a0 * k <= SumIn(c0, A)
      BY <3>3, <3>6
    <3>15. k * s1 <= SumIn(c1, S) /\ a1 <= a0 /\ a1 \in Int /\ a0 \in Int /\ s1 \in Int
           /\ SumIn(e1, D) = a1 + s1
      BY <3>11, <3>12, <3>13
    <3> HIDE DEF a0, a1, s1
    <3>16. k * a1 <= k * a0 /\ k * a1 \in Int /\ k * a0 \in Int /\ k * s1 \in Int
           /\ (a1 + s1) * k = k * a1 + k * s1 /\ a0 * k = k * a0
      BY <3>2, <3>15, NatTimes
    <3>17. SumIn(e1, D) * k <= SumIn(c1, D)
      <4> DEFINE ka0 == k * a0
                 ka1 == k * a1
                 ks1 == k * s1
      <4>1. /\ ka1 <= ka0 /\ ka1 \in Int /\ ka0 \in Int /\ ks1 \in Int
            /\ SumIn(e1, D) * k = ka1 + ks1 /\ ka0 <= SumIn(c0, A) /\ ks1 <= SumIn(c1, S)
        BY <3>14, <3>15, <3>16
      <4> HIDE DEF ka0, ka1, ks1
      <4> QED  BY <3>10, <3>11, <3>13, <4>1
    <3> QED  BY <3>7, <3>17
  <2> QED  BY <2>1, <2>2
<1> QED  BY <1>6, <1>8, <1>9 DEF Money, new, D


\* A reversal of x takes back what nothing else keeps below the ceiling.
LEMMA ReverseKeepsMoney ==
    ASSUME NEW recs, RecordsOK(recs), NEW book, NEW p \in Proposals, NEW r \in Receipts,
           recs[r].proposal = p, recs[r].status = "APPROVED",
           NEW x \in Nat \ {0},
           NEW more, RecordsOK(more), \A q \in Receipts : q # r => more[q] = recs[q],
           more[r].proposal = recs[r].proposal, more[r].date = recs[r].date,
           more[r].amount = recs[r].amount, more[r].status = recs[r].status,
           more[r].reversed = recs[r].reversed + x,
           \A e \in book : "strategy" \in DOMAIN e,
           IsScaled(book, r) => RoleOf(recs, r) = Scaled,
           Money(recs, book, p)
    PROVE  Money(more, book \union NewDebits(more, book, r, more[r].reversed, x), p)
<1> DEFINE total == more[r].reversed
           new == book \union NewDebits(more, book, r, total, x)
           D == Of(recs, p)
           back == Reduction(more, p, x)
           credits == {c \in Lines(book, r) : IsCredit(c)}
           rate == PercentualDe(recs, r)
           due == ~IsScaled(book, r) /\ Lines(book, r) # {}
           Back(c) == DebitLine(more, p, c, r, total, x)
<1>1. /\ \A q \in Receipts : q # r => more[q] = recs[q]
      /\ \A q \in Receipts : /\ more[q].proposal = recs[q].proposal /\ more[q].date = recs[q].date
                             /\ more[q].amount = recs[q].amount /\ more[q].status = recs[q].status
      /\ total = recs[r].reversed + x
  OBVIOUS
<1>2. recs[r].reversed \in Nat /\ total \in Nat /\ total > recs[r].reversed /\ recs[r].amount \in Nat
  BY <1>1, KeptIsNatural
<1>3. /\ Of(more, p) = D /\ D \in SUBSET Receipts /\ IsFiniteSet(D) /\ r \in D
      /\ \A q \in D : recs[q].proposal = p
  <2>1. Of(more, p) = D /\ r \in D /\ \A q \in D : recs[q].proposal = p
    BY <1>1 DEF Of, Approved
  <2>2. D \in SUBSET Receipts /\ IsFiniteSet(D)
    BY OfIsFinite
  <2> QED  BY <2>1, <2>2
<1>4. \A q \in Receipts : /\ RoleOf(more, q) = RoleOf(recs, q) /\ ConsultantOf(more, q) = ConsultantOf(recs, q)
                          /\ PercentualDe(more, q) = PercentualDe(recs, q)
  BY <1>1 DEF RoleOf, ConsultantOf, PercentualDe, PolicyOf, ConfigOf
<1>5. \A q \in Receipts : recs[q].proposal = p => LinesOK(recs, book, q)
  BY DEF Money
<1>6. /\ IsFiniteSet(Lines(book, r)) /\ (\A e \in Lines(book, r) : LineOK(recs, r, e))
      /\ (Lines(book, r) # {} => \E c \in Lines(book, r) : IsCredit(c))
      /\ \A c, d \in Lines(book, r) : IsCredit(c) /\ IsCredit(d) => c = d
  BY <1>5 DEF LinesOK
<1>7. \A q \in Receipts : Lines(new, q) = Lines(book, q) \union
          IF q = r /\ ~IsScaled(book, r) THEN {Back(c) : c \in credits} ELSE {}
  <2> SUFFICES ASSUME NEW q \in Receipts
               PROVE  Lines(new, q) = Lines(book, q) \union
                          IF q = r /\ ~IsScaled(book, r) THEN {Back(c) : c \in credits} ELSE {}
    OBVIOUS
  <2>1. \A e \in Lines(book, r) : e \in Entry
    BY <1>6 DEF LineOK
  <2>2. more[r].proposal = p
    BY <1>1
  <2>3. TakenBack(more, book, r, total, x, q)
    <3>1. \A e \in book : "strategy" \in DOMAIN e
      OBVIOUS
    <3> QED  BY <2>1, <3>1, ReversedLines
  <2> QED  BY <2>2, <2>3 DEF TakenBack
<1> DEFINE t0 == Total(recs, D)
           t1 == Total(more, D)
<1>8. t0 = t1 + x /\ t0 \in Nat /\ t1 \in Nat
  <2> DEFINE rest == D \ {r}
  <2>1. rest \in SUBSET Receipts /\ r \in Receipts \ rest /\ rest \union {r} = D
    BY <1>3
  <2>2. Total(recs, D) = Total(recs, rest) + Liquido(recs[r])
    BY <2>1, TotalMore
  <2>3. Total(more, D) = Total(more, rest) + Liquido(more[r])
    BY <2>1, TotalMore
  <2>4. Total(more, rest) = Total(recs, rest) /\ Total(recs, rest) \in Nat
    <3>1. \A q \in rest : Kept(more)[q] = Kept(recs)[q]
      BY <1>1, <2>1 DEF Kept
    <3>2. IsFiniteSet(rest) /\ Total(recs, rest) = SumIn(Kept(recs), rest)
          /\ Total(more, rest) = SumIn(Kept(more), rest) /\ Total(recs, rest) \in Nat
      BY <2>1, Totals
    <3> QED  BY <3>1, <3>2, SumSame
  <2>5. /\ Liquido(recs[r]) = recs[r].amount - recs[r].reversed /\ Liquido(recs[r]) \in Nat
        /\ Liquido(more[r]) = more[r].amount - more[r].reversed /\ Liquido(more[r]) \in Nat
        /\ recs[r].amount \in Nat /\ recs[r].reversed \in Nat
    BY KeptIsNatural
  <2>6. more[r].amount = recs[r].amount /\ more[r].reversed = recs[r].reversed + x
    BY <1>1
  <2> QED  BY <2>2, <2>3, <2>4, <2>5, <2>6
<1>9. /\ back = Smaller(t0, Commission[p]) - Smaller(t1, Commission[p])
      /\ back \in Nat /\ (t0 <= Commission[p] => back = x) /\ Commission[p] \in Nat
  <2>1. back = Smaller(t1 + x, Commission[p]) - Smaller(t1, Commission[p])
    BY <1>3 DEF Reduction
  <2>2. Commission[p] \in Nat
    BY ProposalsAssumption
  <2> HIDE DEF back, t0, t1
  <2> QED  BY <1>8, <2>1, <2>2 DEF Smaller
<1>10. rate \in Nat /\ Percent(back, rate) \in Nat /\ back * rate <= 100 * Percent(back, rate) + 50
       /\ 100 * Percent(back, rate) <= back * rate + 50
  <2>1. rate \in Nat
    BY RateIsNatural
  <2>2. back \in Nat
    BY <1>9
  <2> HIDE DEF rate, back
  <2> QED  BY <2>1, <2>2, PercentRounds
\* The debit of a credit.
<1>11. ASSUME NEW c \in credits
       PROVE  LET d == Back(c)
              IN  /\ d \in Entry /\ d.reversal = total /\ ~IsCredit(d) /\ d \notin Lines(book, r)
                  /\ d.eligible = c.eligible /\ d.amount = -Percent(back, rate)
                  /\ d.beneficiary = ConsultantOf(recs, r)
  <2> DEFINE d == Back(c)
  <2>1. c \in Entry /\ c.beneficiary = ConsultantOf(recs, r)
    BY <1>6 DEF LineOK
  <2>2. d = [c EXCEPT !.reversal = total, !.amount = -Percent(back, rate)]
    BY <1>4 DEF DebitLine, NewDebit
  <2>3. -Percent(back, rate) \in Int
    BY <1>10
  <2> DEFINE amount == -Percent(back, rate)
  <2> HIDE DEF d, total, amount, back, rate, t0, t1
  <2>4. /\ d \in Entry /\ d.reversal = total /\ d.eligible = c.eligible /\ d.amount = amount
        /\ d.beneficiary = c.beneficiary
    BY <1>2, <2>1, <2>2, <2>3 DEF Entry, amount
  <2>5. ~IsCredit(d)
    BY <1>2, <2>4 DEF IsCredit
  <2>6. d \notin Lines(book, r)
    BY <1>2, <1>6, <2>4 DEF LineOK
  <2> QED  BY <2>1, <2>4, <2>5, <2>6 DEF d, amount
<1> HIDE DEF Back, new, D, back, credits, rate, t0, t1, total
<1>12. ASSUME due
       PROVE  \E c \in credits : Lines(new, r) = Lines(book, r) \union {Back(c)}
  <2>1. PICK c \in Lines(book, r) : IsCredit(c)
    BY <1>6, <1>12
  <2>2. credits = {c}
    BY <1>6, <2>1 DEF credits
  <2> QED  BY <1>7, <1>12, <2>2
<1>13. ASSUME NEW q \in Receipts, q # r \/ ~due PROVE Lines(new, q) = Lines(book, q)
  <2>1. CASE q # r
    BY <1>7, <2>1
  <2>2. CASE q = r /\ IsScaled(book, r)
    BY <1>7, <2>2
  <2>3. CASE q = r /\ Lines(book, r) = {}
    <3>1. credits = {}
      BY <2>3 DEF credits
    <3> QED  BY <1>7, <2>3, <3>1
  <2> QED  BY <1>13, <2>1, <2>2, <2>3
<1> HIDE DEF due
<1>14. ASSUME NEW q \in Receipts, more[q].proposal = p PROVE LinesOK(more, new, q)
  <2>1. LinesOK(recs, book, q)
    BY <1>1, <1>5, <1>14
  <2>2. \A e : LineOK(recs, q, e) => LineOK(more, q, e)
    <3>1. recs[q].reversed \in Nat /\ more[q].reversed \in Nat /\ recs[q].reversed <= more[q].reversed
      BY <1>1, <1>2, KeptIsNatural DEF total
    <3>2. ASSUME NEW e \in Entry, e.reversal <= recs[q].reversed PROVE e.reversal <= more[q].reversed
      <4>1. e.reversal \in Nat
        BY DEF Entry
      <4> QED  BY <3>1, <3>2, <4>1
    <3> QED  BY <1>4, <3>2 DEF LineOK
  <2>3. more[q].status = recs[q].status
    BY <1>1
  <2>4. CASE q # r \/ ~due
    BY <1>13, <2>1, <2>2, <2>3, <2>4 DEF LinesOK
  <2>5. CASE q = r /\ due
    <3>1. PICK c \in credits : Lines(new, r) = Lines(book, r) \union {Back(c)}
      BY <1>12, <2>5
    <3> DEFINE d == Back(c)
    <3>2. d \in Entry /\ d.reversal = total /\ ~IsCredit(d) /\ d.beneficiary = ConsultantOf(recs, r)
      BY <1>11
    <3>3. Lines(book, r) # {}
      BY DEF credits
    <3> HIDE DEF d
    <3>4. LineOK(more, r, d)
      BY <1>2, <1>4, <3>2 DEF LineOK, total
    <3>5. IsFiniteSet(Lines(book, r) \union {d})
      BY <1>6, FS_AddElement
    <3> QED  BY <2>1, <2>2, <2>3, <2>5, <3>1, <3>2, <3>3, <3>4, <3>5 DEF LinesOK, d
  <2> QED  BY <2>4, <2>5
<1>15. ASSUME Plain(more, p) PROVE Plain(recs, p) /\ ~IsScaled(book, r)
  <2>1. Plain(recs, p)
    BY <1>3, <1>4, <1>15 DEF Plain, D
  <2>2. RoleOf(recs, r) = Standard
    BY <1>3, <2>1 DEF Plain, D
  <2> QED  BY <2>1, <2>2 DEF Standard, Scaled
<1>16. ASSUME Plain(more, p), GrossOf(more, p) <= Commission[p], NEW q \in D
       PROVE  ReceiptPaid(more, q, Lines(new, q))
  <2>1. GrossOf(recs, p) <= GrossOf(more, p) /\ Total(recs, D) <= GrossOf(recs, p)
    <3>1. \A s \in Receipts : more[s].amount = recs[s].amount
      BY <1>1
    <3>2. Of(recs, p) \subseteq Of(more, p)
      BY <1>3 DEF D
    <3> QED  BY <3>1, <3>2, GrossGrows, GrossFacts DEF D
  <2>2. GrossOf(recs, p) <= Commission[p] /\ t0 <= Commission[p]
    <3>1. GrossOf(recs, p) \in Nat /\ GrossOf(more, p) \in Nat
      BY GrossFacts
    <3> QED  BY <1>8, <1>9, <1>16, <2>1, <3>1 DEF t0
  <2>3. ReceiptPaid(recs, q, Lines(book, q))
    BY <1>15, <1>16, <2>2 DEF Money, D
  <2>4. CASE q # r
    <3>1. more[q] = recs[q] /\ q \in Receipts
      BY <1>1, <1>3, <2>4
    <3>2. SameReceipt(recs[q], more[q])
      BY <3>1 DEF SameReceipt
    <3>3. ReceiptPaid(more, q, Lines(book, q))
      BY <2>3, <3>2, SameForLines
    <3> QED  BY <1>13, <2>4, <3>1, <3>3
  <2>5. CASE q = r
    <3>1. PaidInFull(recs, r, Lines(book, r))
      BY <2>3, <2>5 DEF ReceiptPaid
    <3>2. due
      BY <1>15, <1>16, <3>1 DEF PaidInFull, due
    <3>3. PICK c \in credits : Lines(new, r) = Lines(book, r) \union {Back(c)}
      BY <1>12, <3>2
    <3> DEFINE d == Back(c)
               lines == Lines(book, r)
    <3>4. /\ d \notin lines /\ ~IsCredit(d) /\ d.eligible = c.eligible
          /\ d.amount = -Percent(back, rate)
      BY <1>11
    <3>5. c.eligible = recs[r].amount /\ back = x
      BY <1>9, <2>2, <3>1 DEF credits, PaidInFull
    <3>6. IsFiniteSet(lines) /\ \A e \in lines : e \in Entry
      BY <1>6 DEF LineOK
    <3>7. ReceiptPaid(recs, r, lines)
      BY <2>3, <2>5
    <3>8. /\ more[r].proposal = recs[r].proposal /\ more[r].date = recs[r].date
          /\ more[r].amount = recs[r].amount /\ more[r].reversed = recs[r].reversed + x
      BY <1>1 DEF total
    <3>9. d.eligible = recs[r].amount /\ d.amount = -Percent(x, PercentualDe(recs, r))
      BY <3>4, <3>5 DEF rate
    <3> HIDE DEF d, lines
    <3>10. ReceiptPaid(more, r, lines \union {d})
      BY <3>4, <3>6, <3>7, <3>8, <3>9, PaidWhenReversed
    <3> QED  BY <2>5, <3>3, <3>10 DEF d, lines
  <2> QED  BY <2>4, <2>5
<1>17. ASSUME Plain(more, p), OneRateOf(more, p) PROVE Released(more, new, p)
  <2> DEFINE c0 == [q \in D |-> Covered(Lines(book, q))]
             c1 == [q \in D |-> Covered(Lines(new, q))]
             e0 == Eligibles(recs)
             e1 == Eligibles(more)
  <2>1. (\A q \in D : PercentualDe(recs, q) = rate) /\ \A q \in D : PercentualDe(more, q) = rate
    BY <1>3, <1>4, <1>17 DEF OneRateOf, rate
  <2>2. Released(recs, book, p)
    <3>1. OneRateOf(recs, p)
      BY <2>1 DEF OneRateOf, D
    <3> QED  BY <1>15, <1>17, <3>1 DEF Money
  <2>3. \A q \in D : c1[q] = Covered(Lines(new, q)) /\ c0[q] = Covered(Lines(book, q))
    OBVIOUS
  <2> HIDE DEF c0, c1, e0, e1
  <2>4. /\ Numbers(c0, D) /\ Smaller(t0, Commission[p]) = SumIn(e0, D)
        /\ Released(recs, book, p) <=> SumIn(e0, D) * rate <= SumIn(c0, D)
    <3>1. \A q \in Of(recs, p) : c0[q] = Covered(Lines(book, q))
      BY <2>3 DEF D
    <3>2. \A q \in Of(recs, p) : PercentualDe(recs, q) = rate
      BY <2>1 DEF D
    <3>3. ReleaseSums(recs, book, p, rate, c0)
      BY <1>5, <1>10, <3>1, <3>2, ReleasedIs
    <3> QED  BY <3>3 DEF ReleaseSums, D, e0, t0
  <2>5. /\ Numbers(c1, D) /\ Smaller(t1, Commission[p]) = SumIn(e1, D)
        /\ Released(more, new, p) <=> SumIn(e1, D) * rate <= SumIn(c1, D)
    <3>1. \A q \in Of(more, p) : c1[q] = Covered(Lines(new, q))
      BY <1>3, <2>3
    <3>2. \A q \in Of(more, p) : PercentualDe(more, q) = rate
      BY <1>3, <2>1
    <3>3. \A q \in Receipts : more[q].proposal = p => LinesOK(more, new, q)
      BY <1>14
    <3>4. ReleaseSums(more, new, p, rate, c1)
      BY <1>10, <3>1, <3>2, <3>3, ReleasedIs
    <3> QED  BY <1>3, <3>4 DEF ReleaseSums, e1, t1
  <2>6. c0[r] <= c1[r] + back * rate /\ c0[r] \in Int /\ c1[r] \in Int
    <3>1. c0[r] \in Int /\ c1[r] \in Int
      BY <1>3, <2>4, <2>5 DEF Numbers
    <3>2. CASE ~due
      <4>1. c0[r] = c1[r]
        BY <1>3, <1>13, <2>3, <3>2
      <4>2. back * rate \in Nat
        BY <1>9, <1>10
      <4> QED  BY <3>1, <4>1, <4>2
    <3>3. CASE due
      <4>1. PICK c \in credits : Lines(new, r) = Lines(book, r) \union {Back(c)}
        BY <1>12, <3>3
      <4> DEFINE d == Back(c)
                 lines == Lines(book, r)
                 b == Percent(back, rate)
      <4>2. d \notin lines /\ d.amount = -b
        BY <1>11
      <4>3. IsFiniteSet(lines) /\ \A e \in lines : e.amount \in Int
        BY <1>6 DEF LineOK, Entry
      <4>4. b \in Nat /\ 100 * b <= back * rate + 50 /\ back * rate \in Nat
        BY <1>9, <1>10
      <4>5. c0[r] = Covered(lines) /\ c1[r] = Covered(lines \union {d})
        BY <1>3, <2>3, <4>1
      <4> HIDE DEF d, lines, b
      <4>6. NetOf(lines \union {d}) = NetOf(lines) - b /\ NetOf(lines) \in Int
        BY <4>2, <4>3, <4>4, NetGrows
      <4>7. Cardinality(lines \union {d}) = Cardinality(lines) + 1 /\ Cardinality(lines) \in Nat
        BY <4>2, <4>3, FS_AddElement, FS_CardinalityType
      <4> DEFINE br == back * rate
                 n == Cardinality(lines)
                 net == NetOf(lines)
      <4>8. c0[r] = 100 * net + 50 * n /\ c1[r] = 100 * (net - b) + 50 * (n + 1)
        BY <4>5, <4>6, <4>7 DEF Covered
      <4>9. br \in Nat /\ 100 * b <= br + 50 /\ net \in Int /\ n \in Nat
        BY <4>4, <4>6, <4>7
      <4> HIDE DEF br, n, net
      <4>10. c0[r] <= c1[r] + br
        BY <4>4, <4>8, <4>9
      <4> QED  BY <3>1, <4>10 DEF br
    <3> QED  BY <3>2, <3>3
  <2>7. SumIn(c0, D) = c0[r] + SumIn(c0, D \ {r}) /\ SumIn(c1, D) = c1[r] + SumIn(c1, D \ {r})
    BY <1>3, <2>4, <2>5, SumAny
  <2>8. SumIn(c1, D \ {r}) = SumIn(c0, D \ {r}) /\ SumIn(c0, D \ {r}) \in Int
    <3>1. \A q \in D \ {r} : c1[q] = c0[q]
      <4> SUFFICES ASSUME NEW q \in D \ {r} PROVE c1[q] = c0[q]
        OBVIOUS
      <4>1. Lines(new, q) = Lines(book, q)
        BY <1>3, <1>13
      <4> QED  BY <2>3, <4>1
    <3>2. IsFiniteSet(D \ {r}) /\ Numbers(c0, D \ {r})
      BY <1>3, <2>4, FS_Subset DEF Numbers
    <3> QED  BY <3>1, <3>2, SumSame, SumInt
  <2> DEFINE rest == SumIn(c0, D \ {r})
             m0 == SumIn(e0, D)
             m1 == SumIn(e1, D)
  <2>9. back = m0 - m1 /\ m0 \in Int /\ m1 \in Int
    <3>1. Smaller(t0, Commission[p]) \in Int /\ Smaller(t1, Commission[p]) \in Int
      BY <1>8, <1>9 DEF Smaller
    <3> QED  BY <1>9, <2>4, <2>5, <3>1
  <2>10. m0 * rate <= c0[r] + rest /\ SumIn(c1, D) = c1[r] + rest /\ rest \in Int
    BY <2>2, <2>4, <2>7, <2>8
  <2> HIDE DEF rest, m0, m1
  <2>11. m1 * rate <= c1[r] + rest
    <3> DEFINE u == m0 * rate
               w == m1 * rate
    <3>1. back * rate = u - w /\ u \in Int /\ w \in Int
      BY <1>10, <2>9
    <3>2. c0[r] <= c1[r] + (u - w) /\ u <= c0[r] + rest
      BY <2>6, <2>10, <3>1
    <3> HIDE DEF u, w
    <3>3. w <= c1[r] + rest
      BY <2>6, <2>10, <3>1, <3>2
    <3> QED  BY <3>3 DEF w
  <2> QED  BY <2>5, <2>10, <2>11 DEF m1
<1> QED  BY <1>3, <1>14, <1>16, <1>17 DEF Money, new, total


\* What else happens in the tables does not touch the money of p.
LEMMA MoneyOfOthers ==
    ASSUME NEW a, RecordsOK(a), NEW b, RecordsOK(b), NEW x, NEW y, NEW p \in Proposals,
           \A r \in Receipts : a[r].proposal = b[r].proposal,
           \A r \in Receipts : a[r].proposal = p => a[r] = b[r] /\ Lines(x, r) = Lines(y, r),
           Money(a, x, p)
    PROVE  Money(b, y, p)
<1> DEFINE D == Of(a, p)
<1>1. Of(b, p) = D /\ D \in SUBSET Receipts /\ \A r \in D : a[r] = b[r] /\ Lines(x, r) = Lines(y, r)
  BY DEF Of, Approved
<1>2. \A r \in Receipts : a[r].proposal = p =>
          /\ RoleOf(b, r) = RoleOf(a, r) /\ PercentualDe(b, r) = PercentualDe(a, r)
          /\ ConsultantOf(b, r) = ConsultantOf(a, r)
          /\ \A lines : ReceiptPaid(a, r, lines) => ReceiptPaid(b, r, lines)
  <2>1. \A r \in Receipts : a[r].proposal = p => SameReceipt(a[r], b[r])
    BY DEF SameReceipt
  <2> QED  BY <2>1, SameForLines
<1>3. \A r \in D : r \in Receipts /\ a[r].proposal = p
  BY <1>1 DEF Of
<1>4. GrossOf(b, p) = GrossOf(a, p)
  <2>1. [r \in D |-> b[r].amount] = [r \in D |-> a[r].amount]
    BY <1>1
  <2> QED  BY <1>1, <2>1 DEF GrossOf
<1>5. Total(b, D) = Total(a, D)
  <2>1. [r \in D |-> Liquido(b[r])] = [r \in D |-> Liquido(a[r])]
    BY <1>1
  <2> QED  BY <2>1 DEF Total
<1>6. CoveredBy(b, y, p) = CoveredBy(a, x, p)
  <2>1. [r \in D |-> Covered(Lines(y, r))] = [r \in D |-> Covered(Lines(x, r))]
    BY <1>1
  <2> QED  BY <1>1, <2>1 DEF CoveredBy
<1>7. ASSUME NEW r \in Receipts, b[r].proposal = p PROVE LinesOK(b, y, r)
  <2>1. a[r].proposal = p /\ a[r] = b[r] /\ Lines(x, r) = Lines(y, r) /\ LinesOK(a, x, r)
    BY <1>7 DEF Money
  <2>2. ConsultantOf(b, r) = ConsultantOf(a, r)
    BY <1>2, <2>1
  <2> QED  BY <2>1, <2>2 DEF LinesOK, LineOK
<1>8. (Plain(b, p) => Plain(a, p)) /\ (OneRateOf(b, p) => OneRateOf(a, p))
  BY <1>1, <1>2, <1>3 DEF Plain, OneRateOf
<1> HIDE DEF D
<1>9. ASSUME Plain(b, p), GrossOf(b, p) <= Commission[p], NEW r \in D PROVE ReceiptPaid(b, r, Lines(y, r))
  <2>1. ReceiptPaid(a, r, Lines(x, r))
    BY <1>4, <1>8, <1>9 DEF Money, D
  <2> QED  BY <1>1, <1>2, <1>3, <2>1
<1>10. ASSUME Plain(b, p), OneRateOf(b, p) PROVE Released(b, y, p)
  <2>1. Released(a, x, p)
    BY <1>8, <1>10 DEF Money
  <2> SUFFICES ASSUME NEW r \in D
               PROVE  Smaller(Total(b, D), Commission[p]) * PercentualDe(b, r) <= CoveredBy(b, y, p)
    BY <1>1 DEF Released
  <2>2. Smaller(Total(a, D), Commission[p]) * PercentualDe(a, r) <= CoveredBy(a, x, p)
    BY <2>1 DEF Released, D
  <2>3. PercentualDe(b, r) = PercentualDe(a, r)
    BY <1>2, <1>3
  <2> QED  BY <1>5, <1>6, <2>2, <2>3
<1> QED  BY <1>1, <1>7, <1>9, <1>10 DEF Money

-----------------------------------------------------------------------------
\* The invariant: the money is right, and stays right when a transaction that
\* runs commits.

Untouched(recs) ==
    \A r \in Receipts : recs[r].amount > 0 /\ (recs[r].status # "APPROVED" => recs[r].reversed = 0)

EntryOK(recs, e) ==
    /\ "strategy" \in DOMAIN e /\ "receipt" \in DOMAIN e
    /\ e.receipt \in Receipts
    /\ e.strategy = "SCALED_CONSULTANT" => RoleOf(recs, e.receipt) = Scaled

BookMoney(recs, book) ==
    /\ RecordsOK(recs) /\ Untouched(recs)
    /\ \A e \in book : EntryOK(recs, e)
    /\ \A p \in Proposals : Money(recs, book, p)

After(recs, row) == [r \in Receipts |-> IF r \in DOMAIN row THEN row[r] ELSE recs[r]]

TxMoney(recs, book, t, p) ==
    /\ \A r \in DOMAIN t.row : /\ r \in Receipts /\ recs[r].proposal = p
                               /\ t.row[r].proposal = p /\ t.row[r].date = recs[r].date
    /\ \A e \in t.adds : /\ EntryOK(recs, e)
                         /\ e.strategy = "STANDARD_CONSULTANT" => recs[e.receipt].proposal = p
    /\ RecordsOK(After(recs, t.row)) /\ Untouched(After(recs, t.row))
    /\ Money(After(recs, t.row), book \union t.adds, p)

MInv ==
    /\ BookMoney(receipts, entries)
    /\ tx = [p \in Proposals |-> tx[p]]
    /\ \A p \in Proposals : tx[p] # Idle => TxMoney(receipts, entries, tx[p], p)

LEMMA NewCreditsFormed ==
    ASSUME NEW recs, NEW book, NEW p, NEW e \in NewCredits(recs, book, p)
    PROVE  /\ EntryOK(recs, e)
           /\ e.strategy = "STANDARD_CONSULTANT" => recs[e.receipt].proposal = p
<1>1. CASE e \in ScaledCredits(recs, p)
  <2>1. PICK r \in Receipts : /\ RoleOf(recs, r) = Scaled
                              /\ e = NewCredit(recs, r, "SCALED_CONSULTANT", Consultant[p], ScaledShare(recs, r))
    BY <1>1 DEF ScaledCredits, Mes, Liquidos, Approved
  <2> QED  BY <2>1 DEF NewCredit, EntryOK
<1>2. CASE e \in GroupCredits(recs, p)
  <2>1. PICK q \in (Of(recs, p) \intersect Liquidos(recs)) \X Groups :
          e = NewCredit(recs, q[1], q[2], Beneficiary(recs, q[2], q[1]),
                     GroupShare(recs, q[2], q[1], Beneficiary(recs, q[2], q[1])))
    BY <1>2 DEF GroupCredits
  <2>2. q[1] \in Receipts /\ q[2] \in Groups
    BY <2>1 DEF Of, Approved
  <2>3. e.receipt = q[1] /\ e.strategy = q[2] /\ "strategy" \in DOMAIN e /\ "receipt" \in DOMAIN e
    BY <2>1 DEF NewCredit
  <2> QED  BY <2>2, <2>3 DEF EntryOK, Groups
<1>3. CASE e \in StandardCredits(recs, p)
  <2>1. PICK r \in Of(recs, p) : e = NewCredit(recs, r, "STANDARD_CONSULTANT", Consultant[p], StandardShare(recs, r))
    BY <1>3 DEF StandardCredits
  <2> QED  BY <2>1 DEF NewCredit, EntryOK, Of, Approved
<1> QED  BY <1>1, <1>2, <1>3 DEF NewCredits

LEMMA NewDebitsFormed ==
    ASSUME NEW recs, NEW book, NEW r \in Receipts, NEW reversal, NEW amount,
           \A e \in book : EntryOK(recs, e),
           NEW e \in NewDebits(recs, book, r, reversal, amount)
    PROVE  EntryOK(recs, e) /\ e.receipt = r
<1>1. PICK f \in book : f.receipt = r /\ \E value : e = NewDebit(f, reversal, value)
  BY DEF NewDebits, GroupDebits, ScaledDebits, StandardDebits, CreditsOf
<1>2. PICK value : e = [f EXCEPT !.reversal = reversal, !.amount = value]
  BY <1>1 DEF NewDebit
<1>3. EntryOK(recs, f)
  OBVIOUS
<1>4. DOMAIN e = DOMAIN f /\ e.strategy = f.strategy /\ e.receipt = f.receipt
  BY <1>2, <1>3 DEF EntryOK
<1> QED  BY <1>1, <1>3, <1>4 DEF EntryOK


LEMMA MInvBegins ==
    ASSUME MInv, NEW p \in Proposals, NEW request, tx' = [tx EXCEPT ![p] = request],
           UNCHANGED <<receipts, entries>>, TxMoney(receipts, entries, request, p)
    PROVE  MInv'
<1>1. \A q \in Proposals : tx'[q] = IF q = p THEN request ELSE tx[q]
  BY DEF MInv
<1>2. tx' = [q \in Proposals |-> tx'[q]]
  BY DEF MInv
<1>3. receipts' = receipts /\ entries' = entries
  OBVIOUS
<1>4. \A q \in Proposals : tx'[q] # Idle => TxMoney(receipts, entries, tx'[q], q)
  BY <1>1 DEF MInv
<1>5. BookMoney(receipts, entries)
  BY DEF MInv
<1> QED  BY <1>2, <1>3, <1>4, <1>5 DEF MInv

LEMMA MInvRecognises ==
    ASSUME MInv, NEW p \in Proposals, NEW S \in SUBSET Receipts, BeginRecognise(p, S)
    PROVE  MInv'
<1> DEFINE recs == [r \in Receipts |-> IF r \in S THEN [receipts[r] EXCEPT !.status = "APPROVED"]
                                       ELSE receipts[r]]
           adds == NewCredits(recs, entries, p)
           row == [r \in S |-> recs[r]]
           request == Request("recognise", Consultant[p], row, adds)
<1>1. /\ tx' = [tx EXCEPT ![p] = request] /\ UNCHANGED <<receipts, entries>>
      /\ \A r \in S : receipts[r].proposal = p /\ receipts[r].status = "SUBMITTED"
  BY DEF BeginRecognise
<1>2. BookMoney(receipts, entries)
  BY DEF MInv
<1>3. /\ receipts \in [Receipts -> ReceiptRow]
      /\ \A r \in Receipts : receipts[r].reversed <= receipts[r].amount
      /\ Untouched(receipts)
  BY <1>2 DEF BookMoney, RecordsOK
<1>4. \A r \in Receipts : /\ recs[r] \in ReceiptRow /\ SameReceipt(receipts[r], recs[r])
                          /\ recs[r].reversed <= recs[r].amount
                          /\ recs[r].status = IF r \in S THEN "APPROVED" ELSE receipts[r].status
  BY <1>3 DEF ReceiptRow, SameReceipt
<1>5. RecordsOK(recs) /\ Approved(recs) = Approved(receipts) \union S
  <2>1. recs \in [Receipts -> ReceiptRow]
    BY <1>4
  <2> HIDE DEF recs
  <2> QED  BY <1>4, <2>1 DEF RecordsOK, Approved
<1>6. request.row = row /\ request.adds = adds /\ DOMAIN row = S /\ After(receipts, row) = recs
  BY DEF Request, After
<1> HIDE DEF recs
<1>7. Untouched(recs)
  BY <1>1, <1>3, <1>4 DEF Untouched, SameReceipt
<1>8. Money(recs, entries \union adds, p)
  <2>1. \A r \in S : /\ receipts[r].proposal = p /\ receipts[r].status = "SUBMITTED"
                     /\ receipts[r].reversed = 0 /\ receipts[r].amount > 0
    BY <1>1, <1>3 DEF Untouched
  <2>2. RecordsOK(receipts) /\ Money(receipts, entries, p) /\ \A r \in Receipts : SameReceipt(receipts[r], recs[r])
    BY <1>2, <1>4 DEF BookMoney
  <2> QED  BY <1>5, <2>1, <2>2, RecogniseKeepsMoney
<1>9. \A e \in adds : /\ EntryOK(receipts, e)
                      /\ e.strategy = "STANDARD_CONSULTANT" => receipts[e.receipt].proposal = p
  <2> SUFFICES ASSUME NEW e \in adds
               PROVE  /\ EntryOK(receipts, e)
                      /\ e.strategy = "STANDARD_CONSULTANT" => receipts[e.receipt].proposal = p
    OBVIOUS
  <2>1. EntryOK(recs, e) /\ (e.strategy = "STANDARD_CONSULTANT" => recs[e.receipt].proposal = p)
    BY NewCreditsFormed
  <2>2. e.receipt \in Receipts
    BY <2>1 DEF EntryOK
  <2>3. RoleOf(recs, e.receipt) = RoleOf(receipts, e.receipt) /\ recs[e.receipt].proposal = receipts[e.receipt].proposal
    BY <1>4, <2>2, SameForLines DEF SameReceipt
  <2> QED  BY <2>1, <2>3 DEF EntryOK
<1>10. \A r \in S : row[r].proposal = p /\ row[r].date = receipts[r].date
  BY <1>1, <1>4 DEF SameReceipt
<1> HIDE DEF adds, row, request
<1>11. TxMoney(receipts, entries, request, p)
  BY <1>1, <1>5, <1>6, <1>7, <1>8, <1>9, <1>10 DEF TxMoney
<1> QED  BY <1>1, <1>11, MInvBegins

LEMMA MInvReverses ==
    ASSUME MInv, NEW r \in Receipts, NEW x \in Int, BeginReverse(r, x),
           NEW p \in Proposals, p = receipts[r].proposal
    PROVE  MInv'
<1> DEFINE recs == Reversed(r, x)
           adds == NewDebits(recs, entries, r, recs[r].reversed, x)
           row == [q \in {r} |-> recs[q]]
           request == Request("reverse", IF IsScaled(entries, r) THEN Consultant[p] ELSE NoOne, row, adds)
<1>1. /\ tx' = [tx EXCEPT ![p] = request] /\ UNCHANGED <<receipts, entries>>
      /\ receipts[r].status = "APPROVED"
      /\ 0 < x /\ x <= Liquido(receipts[r])
  BY DEF BeginReverse
<1>2. BookMoney(receipts, entries)
  BY DEF MInv
<1>3. /\ receipts \in [Receipts -> ReceiptRow] /\ RecordsOK(receipts)
      /\ \A q \in Receipts : receipts[q].reversed <= receipts[q].amount
      /\ Untouched(receipts)
  BY <1>2 DEF BookMoney, RecordsOK
<1>4. x \in Nat \ {0} /\ receipts[r].reversed + x <= receipts[r].amount
      /\ receipts[r].reversed + x \in Nat
  BY <1>1, <1>3, KeptIsNatural
<1>5. /\ recs \in [Receipts -> ReceiptRow]
      /\ \A q \in Receipts : q # r => recs[q] = receipts[q]
      /\ recs[r].proposal = receipts[r].proposal /\ recs[r].date = receipts[r].date
      /\ recs[r].amount = receipts[r].amount /\ recs[r].status = receipts[r].status
      /\ recs[r].reversed = receipts[r].reversed + x
  <2>1. recs = [receipts EXCEPT ![r] = [receipts[r] EXCEPT !.reversed = receipts[r].reversed + x]]
    BY DEF Reversed
  <2> DEFINE new == [receipts[r] EXCEPT !.reversed = receipts[r].reversed + x]
  <2>2. /\ new \in ReceiptRow /\ new.proposal = receipts[r].proposal /\ new.date = receipts[r].date
        /\ new.amount = receipts[r].amount /\ new.status = receipts[r].status
        /\ new.reversed = receipts[r].reversed + x
    BY <1>3, <1>4 DEF ReceiptRow
  <2> HIDE DEF new, recs
  <2> QED  BY <1>3, <2>1, <2>2 DEF new
<1>6. RecordsOK(recs)
  <2> HIDE DEF recs
  <2> QED  BY <1>3, <1>4, <1>5 DEF RecordsOK
<1>7. request.row = row /\ request.adds = adds /\ DOMAIN row = {r} /\ row[r] = recs[r]
  BY DEF Request
<1> HIDE DEF recs, request
<1>8. After(receipts, row) = recs
  BY <1>5 DEF After
<1>9. Untouched(recs)
  BY <1>1, <1>3, <1>5 DEF Untouched
<1>10. \A e \in entries : EntryOK(receipts, e)
  BY <1>2 DEF BookMoney
<1>11. \A q \in Receipts : RoleOf(recs, q) = RoleOf(receipts, q) /\ recs[q].proposal = receipts[q].proposal
                           /\ recs[q].date = receipts[q].date
  BY <1>5 DEF RoleOf, ConsultantOf
<1>12. Money(recs, entries \union adds, p)
  <2>1. \A e \in entries : "strategy" \in DOMAIN e
    BY <1>10 DEF EntryOK
  <2>2. IsScaled(entries, r) => RoleOf(receipts, r) = Scaled
    BY <1>10 DEF IsScaled, CreditsOf, EntryOK
  <2>3. Money(receipts, entries, p)
    BY <1>2 DEF BookMoney
  <2> QED  BY <1>1, <1>3, <1>4, <1>5, <1>6, <2>1, <2>2, <2>3, ReverseKeepsMoney
<1>13. \A e \in adds : EntryOK(receipts, e) /\ receipts[e.receipt].proposal = p
  <2>1. \A e \in entries : EntryOK(recs, e)
    BY <1>10, <1>11 DEF EntryOK
  <2>2. \A e \in adds : EntryOK(recs, e) /\ e.receipt = r
    BY <2>1, NewDebitsFormed
  <2> QED  BY <1>11, <2>2 DEF EntryOK
<1> HIDE DEF adds, row
<1>14. TxMoney(receipts, entries, request, p)
  BY <1>5, <1>6, <1>7, <1>8, <1>9, <1>12, <1>13 DEF TxMoney
<1> QED  BY <1>1, <1>14, MInvBegins

LEMMA MInvCommits ==
    ASSUME MInv, NEW p \in Proposals, Commit(p)
    PROVE  MInv'
<1> DEFINE t == tx[p]
           recs == After(receipts, t.row)
           book == entries \union t.adds
<1>1. /\ t # Idle /\ receipts' = recs /\ entries' = book /\ tx' = [tx EXCEPT ![p] = Idle]
  BY DEF Commit, After
<1>2. TxMoney(receipts, entries, t, p) /\ BookMoney(receipts, entries)
  BY <1>1 DEF MInv
<1>3. \A q \in Proposals : tx'[q] = IF q = p THEN Idle ELSE tx[q]
  BY <1>1 DEF MInv
<1>4. tx' = [q \in Proposals |-> tx'[q]]
  BY <1>1 DEF MInv
<1>5. \A r \in Receipts : /\ recs[r].proposal = receipts[r].proposal /\ recs[r].date = receipts[r].date
                          /\ receipts[r].proposal # p => recs[r] = receipts[r]
  BY <1>2 DEF TxMoney, After
<1>6. RecordsOK(receipts) /\ RecordsOK(recs) /\ Untouched(recs) /\ Money(recs, book, p)
  BY <1>2 DEF TxMoney, BookMoney
<1> HIDE DEF t, recs, book
<1>7. \A e : EntryOK(receipts, e) => EntryOK(recs, e)
  BY <1>5 DEF EntryOK, RoleOf, ConsultantOf
<1>8. \A e \in book : EntryOK(recs, e)
  BY <1>2, <1>7 DEF book, TxMoney, BookMoney
<1>9. ASSUME NEW q \in Proposals, q # p, NEW r \in Receipts, receipts[r].proposal = q, NEW more
      PROVE  Lines(book \union more, r) = Lines(entries \union more, r)
  <2>1. \A e \in t.adds : ~(e.strategy = "STANDARD_CONSULTANT" /\ e.receipt = r)
    BY <1>2, <1>9 DEF TxMoney
  <2> QED  BY <2>1 DEF Lines, book
<1>10. ASSUME NEW q \in Proposals, q # p PROVE Money(recs, book, q)
  <2>1. Money(receipts, entries, q)
    BY <1>2 DEF BookMoney
  <2>2. \A r \in Receipts : receipts[r].proposal = q => Lines(entries, r) = Lines(book, r)
    <3>1. \A r \in Receipts : receipts[r].proposal = q =>
              Lines(entries \union {}, r) = Lines(book \union {}, r)
      BY <1>9, <1>10
    <3>2. entries \union {} = entries /\ book \union {} = book
      OBVIOUS
    <3> QED  BY <3>1, <3>2
  <2>3. \A r \in Receipts : receipts[r].proposal = q => receipts[r] = recs[r]
    BY <1>5, <1>10
  <2> QED  BY <1>5, <1>6, <2>1, <2>2, <2>3, MoneyOfOthers
<1>11. BookMoney(recs, book)
  BY <1>6, <1>8, <1>10 DEF BookMoney
<1>12. ASSUME NEW q \in Proposals, tx'[q] # Idle PROVE TxMoney(recs, book, tx'[q], q)
  <2> DEFINE u == tx[q]
             a == After(receipts, u.row)
             b == After(recs, u.row)
  <2>1. q # p /\ tx'[q] = u /\ TxMoney(receipts, entries, u, q)
    BY <1>3, <1>12 DEF MInv
  <2>2. \A r \in Receipts : receipts[r].proposal = q => receipts[r] = recs[r]
    BY <1>5, <2>1
  <2>3. \A r \in DOMAIN u.row : /\ r \in Receipts /\ recs[r].proposal = q
                                /\ u.row[r].proposal = q /\ u.row[r].date = recs[r].date
    BY <1>5, <2>1 DEF TxMoney
  <2>4. \A e \in u.adds : /\ EntryOK(recs, e)
                          /\ e.strategy = "STANDARD_CONSULTANT" => recs[e.receipt].proposal = q
    BY <1>5, <1>7, <2>1 DEF TxMoney, EntryOK
  <2>5. /\ RecordsOK(a) /\ Untouched(a) /\ Money(a, entries \union u.adds, q)
    BY <2>1 DEF TxMoney
  <2>6. \A r \in Receipts : /\ a[r] = (IF r \in DOMAIN u.row THEN u.row[r] ELSE receipts[r])
                            /\ b[r] = (IF r \in DOMAIN u.row THEN u.row[r] ELSE recs[r])
    BY DEF After
  <2>7. b = [r \in Receipts |-> b[r]]
    BY DEF After
  <2> HIDE DEF a, b, u
  <2>8. RecordsOK(b) /\ Untouched(b)
    <3>1. \A r \in Receipts : b[r] = a[r] \/ b[r] = recs[r]
      BY <2>6
    <3>2. b \in [Receipts -> ReceiptRow]
      BY <1>6, <2>5, <2>7, <3>1 DEF RecordsOK
    <3> QED  BY <1>6, <2>5, <3>1, <3>2 DEF RecordsOK, Untouched
  <2>9. \A r \in Receipts : a[r].proposal = b[r].proposal
    BY <1>5, <2>6
  <2>10. \A r \in Receipts : a[r].proposal = q =>
             a[r] = b[r] /\ Lines(entries \union u.adds, r) = Lines(book \union u.adds, r)
    <3> SUFFICES ASSUME NEW r \in Receipts, a[r].proposal = q
                 PROVE  a[r] = b[r] /\ Lines(entries \union u.adds, r) = Lines(book \union u.adds, r)
      OBVIOUS
    <3>1. receipts[r].proposal = q
      BY <1>5, <2>3, <2>6
    <3> QED  BY <1>9, <2>1, <2>2, <2>6, <3>1
  <2>11. Money(b, book \union u.adds, q)
    <3> DEFINE x == entries \union u.adds
               y == book \union u.adds
    <3>1. \A r \in Receipts : a[r].proposal = q => a[r] = b[r] /\ Lines(x, r) = Lines(y, r)
      BY <2>10
    <3>2. RecordsOK(a) /\ RecordsOK(b) /\ Money(a, x, q)
      BY <2>5, <2>8
    <3> HIDE DEF x, y
    <3>3. Money(b, y, q)
      BY <2>9, <3>1, <3>2, MoneyOfOthers
    <3> QED  BY <3>3 DEF y
  <2> QED  BY <2>1, <2>3, <2>4, <2>8, <2>11 DEF TxMoney, b
<1> QED  BY <1>1, <1>4, <1>11, <1>12 DEF MInv

LEMMA MInvInitially == LedgerInit => MInv
<1> SUFFICES ASSUME LedgerInit PROVE MInv
  OBVIOUS
<1>1. PICK f \in Declarations :
          receipts = [r \in Receipts |->
              [proposal |-> f[r].proposal, amount |-> f[r].amount, date |-> f[r].date,
               status |-> f[r].status, reversed |-> 0]]
  BY DEF LedgerInit
<1>2. /\ f \in [Receipts -> [proposal : Proposals, amount : Nat, date : CalendarDays,
                             status : {"SUBMITTED", "REJECTED"}]]
      /\ \A r \in Receipts : f[r].amount > 0
  BY DeclarationsAssumption
<1>3. RecordsOK(receipts) /\ Untouched(receipts) /\ Approved(receipts) = {}
  BY <1>1, <1>2 DEF RecordsOK, ReceiptRow, Untouched, Approved
<1>4. entries = {} /\ tx = [p \in Proposals |-> Idle]
  BY DEF LedgerInit
<1>5. ASSUME NEW p \in Proposals PROVE Money(receipts, entries, p)
  <2>1. Of(receipts, p) = {}
    BY <1>3 DEF Of
  <2>2. \A r : Lines(entries, r) = {}
    BY <1>4 DEF Lines
  <2> QED  BY <2>1, <2>2, FS_EmptySet DEF Money, LinesOK, Released
<1>6. BookMoney(receipts, entries)
  BY <1>3, <1>4, <1>5 DEF BookMoney
<1> QED  BY <1>4, <1>6 DEF MInv

LEMMA MInvKept == MInv /\ [LedgerNext]_ledgerVars => MInv'
<1> SUFFICES ASSUME MInv, [LedgerNext]_ledgerVars PROVE MInv'
  OBVIOUS
<1>1. CASE UNCHANGED <<receipts, entries, tx>>
  BY <1>1 DEF MInv
<1>2. ASSUME NEW p \in Proposals, NEW S \in SUBSET Receipts, BeginRecognise(p, S) PROVE MInv'
  BY <1>2, MInvRecognises
<1>3. ASSUME NEW r \in Receipts, NEW total \in Levels[r] \union {receipts[r].amount},
             BeginReverse(r, total - receipts[r].reversed)
      PROVE  MInv'
  <2>1. receipts[r].reversed \in Nat /\ total \in Nat /\ receipts[r].proposal \in Proposals
    BY DeclarationsAssumption DEF MInv, BookMoney, RecordsOK, ReceiptRow
  <2> QED  BY <1>3, <2>1, MInvReverses
<1>4. ASSUME NEW p \in Proposals, Commit(p) PROVE MInv'
  BY <1>4, MInvCommits
<1>5. CASE UNCHANGED ledgerVars
  BY <1>1, <1>5 DEF ledgerVars
<1> QED  BY <1>1, <1>2, <1>3, <1>4, <1>5 DEF LedgerNext, CloseLedgerPeriod, ReopenPeriod

-----------------------------------------------------------------------------
\* The lines of a proposal, receipt by receipt.

BookOf(recs, book, p) ==
    {e \in book : e.strategy = "STANDARD_CONSULTANT" /\ recs[e.receipt].proposal = p}

OfReceipt(E, r) == {e \in E : e.receipt = r}

\* The lines of a proposal are those of its receipts.
InParts(recs, book, p) ==
    /\ IsFiniteSet(BookOf(recs, book, p))
    /\ \A e \in BookOf(recs, book, p) : e \in Entry /\ e.receipt \in Of(recs, p)
    /\ \A r \in Of(recs, p) : Lines(book, r) = OfReceipt(BookOf(recs, book, p), r)

LEMMA BookInParts ==
    ASSUME NEW recs, NEW book, NEW p, \A e \in book : EntryOK(recs, e), Money(recs, book, p)
    PROVE  InParts(recs, book, p)
<1> DEFINE B == BookOf(recs, book, p)
           D == Of(recs, p)
           P == {A \in SUBSET D : IsFiniteSet({e \in B : e.receipt \in A})}
<1>1. \A r \in Receipts : recs[r].proposal = p => LinesOK(recs, book, r)
  BY DEF Money
<1>2. ASSUME NEW e \in B PROVE e \in Entry /\ e.receipt \in D
  <2>1. e.receipt \in Receipts /\ recs[e.receipt].proposal = p /\ e \in Lines(book, e.receipt)
    BY DEF BookOf, EntryOK, Lines
  <2> QED  BY <1>1, <2>1 DEF LinesOK, LineOK, Of, Approved
<1>3. ASSUME NEW r \in D
      PROVE  Lines(book, r) = OfReceipt(B, r) /\ IsFiniteSet(Lines(book, r))
  <2>1. r \in Receipts /\ recs[r].proposal = p
    BY DEF Of, Approved
  <2> QED  BY <1>1, <2>1 DEF BookOf, Lines, LinesOK, OfReceipt
<1>4. IsFiniteSet(D)
  BY OfIsFinite
<1>5. P \in SUBSET SUBSET D /\ {} \in P
  <2>1. {e \in B : e.receipt \in {}} = {}
    OBVIOUS
  <2> QED  BY <2>1, FS_EmptySet
<1>6. ASSUME NEW A \in P, NEW r \in D \ A PROVE A \union {r} \in P
  <2>1. {e \in B : e.receipt \in A \union {r}} = {e \in B : e.receipt \in A} \union Lines(book, r)
    BY <1>3 DEF OfReceipt
  <2>2. IsFiniteSet({e \in B : e.receipt \in A}) /\ IsFiniteSet(Lines(book, r))
    BY <1>3
  <2>3. IsFiniteSet({e \in B : e.receipt \in A} \union Lines(book, r))
    BY <2>2, FS_Union
  <2> QED  BY <2>1, <2>3
<1>7. D \in P
  <2> HIDE DEF P, D
  <2> QED  BY <1>4, <1>5, <1>6, SetInduction
<1>8. IsFiniteSet(B)
  <2>1. {e \in B : e.receipt \in D} = B
    BY <1>2
  <2> QED  BY <1>7, <2>1
<1> QED  BY <1>2, <1>3, <1>8 DEF InParts

\* A sum over lines is the sum over the receipts of what each has.
LEMMA SumOfLines ==
    ASSUME NEW recs, NEW book, NEW p, InParts(recs, book, p),
           NEW E \in SUBSET BookOf(recs, book, p), NEW f, Numbers(f, E),
           NEW n, \A r \in Of(recs, p) : n[r] = SumIn(f, OfReceipt(E, r))
    PROVE  SumIn(n, Of(recs, p)) = SumIn(f, E)
<1> DEFINE m == [e \in E |-> e.receipt]
           K == Of(recs, p)
<1>1. IsFiniteSet(E) /\ IsFiniteSet(K)
  BY OfIsFinite, FS_Subset DEF InParts
<1>2. \A e \in E : m[e] \in K
  BY DEF InParts
<1>3. \A r \in K : n[r] = SumIn(f, PartAt(E, m, r))
  <2>1. \A r : PartAt(E, m, r) = OfReceipt(E, r)
    BY DEF PartAt, OfReceipt
  <2> QED  BY <2>1
<1> HIDE DEF m, K
<1>4. SumIn(n, K) = SumIn(f, E)
  BY <1>1, <1>2, <1>3, SumOfParts
<1> QED  BY <1>4 DEF K

\* What the lines of a proposal add up to, and how many they are.
LEMMA NetOfBook ==
    ASSUME NEW recs, NEW book, NEW p, InParts(recs, book, p),
           NEW n, \A r \in Of(recs, p) : n[r] = NetOf(Lines(book, r)),
           NEW c, \A r \in Of(recs, p) : c[r] = Cardinality(Lines(book, r))
    PROVE  /\ NetOf(BookOf(recs, book, p)) = SumIn(n, Of(recs, p))
           /\ Cardinality(BookOf(recs, book, p)) = SumIn(c, Of(recs, p))
           /\ Numbers(n, Of(recs, p)) /\ Numbers(c, Of(recs, p))
<1> DEFINE B == BookOf(recs, book, p)
           f == [e \in B |-> e.amount]
           g == [e \in B |-> 1]
<1>1. IsFiniteSet(B) /\ \A e \in B : e.amount \in Int
  BY DEF InParts, Entry
<1>2. ASSUME NEW r \in Of(recs, p)
      PROVE  /\ n[r] = SumIn(f, OfReceipt(B, r)) /\ n[r] \in Int
             /\ c[r] = SumIn(g, OfReceipt(B, r)) /\ c[r] \in Int
  <2> DEFINE L == Lines(book, r)
             h == [e \in L |-> e.amount]
  <2>1. L = OfReceipt(B, r) /\ L \subseteq B
    BY DEF InParts, OfReceipt
  <2>2. IsFiniteSet(L)
    BY <1>1, <2>1, FS_Subset
  <2>3. NetOf(L) = SumFunction(h) /\ DOMAIN h = L /\ \A e \in L : h[e] = f[e]
    BY <2>1 DEF NetOf
  <2>4. \A e \in L : g[e] = 1 /\ f[e] \in Int
    BY <1>1, <2>1
  <2> HIDE DEF L, h, f, g
  <2>5. NetOf(L) = SumIn(f, L)
    BY <2>2, <2>3, SumOver
  <2>6. SumIn(g, L) = 1 * Cardinality(L)
    BY <2>2, <2>4, SumConstant
  <2>7. Cardinality(L) \in Nat
    BY <2>2, FS_CardinalityType
  <2>8. SumIn(f, L) \in Int
    BY <2>2, <2>4, SumInt DEF Numbers
  <2>9. n[r] = NetOf(L) /\ c[r] = Cardinality(L)
    BY DEF L
  <2> QED  BY <2>1, <2>5, <2>6, <2>7, <2>8, <2>9
<1>3. NetOf(B) = SumFunction(f) /\ DOMAIN f = B
  BY DEF NetOf
<1>4. Numbers(f, B) /\ Numbers(g, B) /\ \A e \in B : g[e] = 1
  BY <1>1 DEF Numbers
<1>5. B \in SUBSET BookOf(recs, book, p)
  OBVIOUS
<1> HIDE DEF B, f, g
<1>6. SumIn(n, Of(recs, p)) = SumIn(f, B) /\ SumIn(c, Of(recs, p)) = SumIn(g, B)
  <2>1. \A r \in Of(recs, p) : n[r] = SumIn(f, OfReceipt(B, r)) /\ c[r] = SumIn(g, OfReceipt(B, r))
    BY <1>2
  <2> QED  BY <1>4, <1>5, <2>1, SumOfLines
<1>7. NetOf(B) = SumIn(f, B)
  BY <1>3, SumFunctionIn
<1>8. SumIn(g, B) = 1 * Cardinality(B) /\ Cardinality(B) \in Nat
  BY <1>1, <1>4, SumConstant, FS_CardinalityType
<1>9. Numbers(n, Of(recs, p)) /\ Numbers(c, Of(recs, p))
  BY <1>2 DEF Numbers
<1> QED  BY <1>6, <1>7, <1>8, <1>9 DEF B

\* The line of one receipt that is its credit, and those of one origin.
LEMMA LinesOfOrigin ==
    ASSUME NEW recs, NEW book, NEW p, \A e \in book : EntryOK(recs, e), Money(recs, book, p),
           NEW e \in BookOf(recs, book, p)
    PROVE  /\ {f \in book : SameOrigin(e, f)} = Lines(book, e.receipt)
           /\ \E c \in Lines(book, e.receipt) :
                /\ IsCredit(c)
                /\ {f \in book : SameOrigin(e, f) /\ IsCredit(f)} = {c}
<1>1. e \in book /\ e.receipt \in Receipts /\ recs[e.receipt].proposal = p /\ e \in Lines(book, e.receipt)
  BY DEF BookOf, EntryOK, Lines
<1>2. LinesOK(recs, book, e.receipt)
  BY <1>1 DEF Money
<1>3. \A f \in Lines(book, e.receipt) : f.beneficiary = e.beneficiary
  BY <1>1, <1>2 DEF LinesOK, LineOK
<1>4. {f \in book : SameOrigin(e, f)} = Lines(book, e.receipt)
  BY <1>1, <1>3 DEF SameOrigin, Lines
<1>5. PICK c \in Lines(book, e.receipt) : IsCredit(c)
  BY <1>1, <1>2 DEF LinesOK
<1>6. \A d \in Lines(book, e.receipt) : IsCredit(d) => d = c
  BY <1>2, <1>5 DEF LinesOK
<1>7. {f \in book : SameOrigin(e, f) /\ IsCredit(f)} = {c}
  BY <1>4, <1>5, <1>6
<1> QED  BY <1>4, <1>5, <1>7

\* What a snapshot was credited is all its proposal earned by it.
LEMMA StandardNetIs ==
    ASSUME NEW p, \A e \in entries : EntryOK(receipts, e), Money(receipts, entries, p)
    PROVE  /\ StandardBook(p) = BookOf(receipts, entries, p)
           /\ StandardNet(p) = NetOf(StandardBook(p))
<1> DEFINE B == StandardBook(p)
           K == {f \in B : IsCredit(f)}
           f == [e \in B |-> e.amount]
           n == [c \in K |-> NetAmount(entries, c)]
           m == [e \in B |-> CHOOSE c \in Lines(entries, e.receipt) : IsCredit(c)]
<1>1. B = BookOf(receipts, entries, p)
  BY DEF StandardBook, BookOf
<1>2. IsFiniteSet(B) /\ (\A e \in B : e.amount \in Int) /\ IsFiniteSet(K)
  <2>1. IsFiniteSet(B) /\ \A e \in B : e.amount \in Int
    BY <1>1, BookInParts DEF InParts, Entry
  <2> QED  BY <2>1, FS_Subset
<1>3. \A e \in B : Lines(entries, e.receipt) \subseteq B
  BY DEF StandardBook, Lines
<1>4. ASSUME NEW e \in B
      PROVE  /\ m[e] \in Lines(entries, e.receipt) /\ IsCredit(m[e])
             /\ \A c \in Lines(entries, e.receipt) : IsCredit(c) => c = m[e]
  <2>1. \E c \in Lines(entries, e.receipt) : IsCredit(c)
    BY <1>1, LinesOfOrigin
  <2>2. m[e] \in Lines(entries, e.receipt) /\ IsCredit(m[e])
    BY <2>1
  <2>3. LinesOK(receipts, entries, e.receipt)
    BY DEF StandardBook, EntryOK, Money
  <2> QED  BY <2>2, <2>3 DEF LinesOK
<1>5. \A e \in B : m[e] \in K
  BY <1>3, <1>4
<1>6. \A c \in K : n[c] = SumIn(f, PartAt(B, m, c))
  <2> SUFFICES ASSUME NEW c \in K PROVE n[c] = SumIn(f, PartAt(B, m, c))
    OBVIOUS
  <2> DEFINE L == Lines(entries, c.receipt)
             h == [e \in L |-> e.amount]
  <2>1. \A e \in L : e.receipt = c.receipt
    BY DEF Lines
  <2>2. c \in L
    BY DEF StandardBook, Lines
  <2>3. \A e \in L : e \in B /\ m[e] = c
    BY <1>3, <1>4, <2>1, <2>2
  <2>4. \A e \in B : m[e] = c => e \in L
    <3> SUFFICES ASSUME NEW e \in B, m[e] = c PROVE e \in L
      OBVIOUS
    <3>1. c.receipt = e.receipt
      BY <1>4 DEF Lines
    <3> QED  BY <3>1 DEF StandardBook, Lines
  <2>5. PartAt(B, m, c) = L
    BY <2>3, <2>4 DEF PartAt
  <2>6. n[c] = NetOf(L)
    <3>1. c \in BookOf(receipts, entries, p)
      BY <1>1
    <3>2. {g \in entries : SameOrigin(c, g)} = L
      BY <3>1, LinesOfOrigin
    <3> QED  BY <3>2 DEF NetAmount
  <2>7. NetOf(L) = SumFunction(h) /\ DOMAIN h = L /\ \A e \in L : h[e] = f[e]
    BY <2>3 DEF NetOf
  <2>8. IsFiniteSet(L)
    BY <1>2, <2>3, FS_Subset
  <2> HIDE DEF h, L, f
  <2>9. NetOf(L) = SumIn(f, L)
    BY <2>7, <2>8, SumOver
  <2> QED  BY <2>5, <2>6, <2>9
<1>7. Numbers(f, B)
  BY <1>2 DEF Numbers
<1>8. StandardNet(p) = SumFunction(n) /\ DOMAIN n = K
  BY DEF StandardNet
<1>9. NetOf(B) = SumFunction(f) /\ DOMAIN f = B
  BY DEF NetOf
<1> HIDE DEF K, f, n, m, B
<1>10. SumIn(n, K) = SumIn(f, B)
  BY <1>2, <1>5, <1>6, <1>7, SumOfParts
<1>11. StandardNet(p) = NetOf(B)
  BY <1>8, <1>9, <1>10, SumFunctionIn
<1> QED  BY <1>1, <1>11 DEF B

Rates(recs) == [r \in Receipts |-> Elegivel(recs, r) * PercentualDe(recs, r)]

LEMMA WorthIs ==
    ASSUME NEW p, RecordsOK(receipts)
    PROVE  /\ Worth(p) = SumIn(Rates(receipts), Of(receipts, p))
           /\ Numbers(Rates(receipts), Of(receipts, p))
<1> DEFINE D == Of(receipts, p)
           f == [r \in D |-> Elegivel(receipts, r) * PercentualDe(receipts, r)]
           w == Rates(receipts)
<1>1. D \in SUBSET Receipts /\ IsFiniteSet(D)
  BY OfIsFinite
<1>2. \A r \in D : f[r] = w[r] /\ w[r] \in Int
  <2> SUFFICES ASSUME NEW r \in D PROVE f[r] = w[r] /\ w[r] \in Int
    OBVIOUS
  <2>1. r \in Receipts
    BY <1>1
  <2>2. Elegivel(receipts, r) \in Nat /\ PercentualDe(receipts, r) \in Nat
    BY <2>1, Eligible, RateIsNatural
  <2> QED  BY <2>1, <2>2 DEF Rates
<1>3. Worth(p) = SumFunction(f) /\ DOMAIN f = D
  BY DEF Worth
<1> HIDE DEF D, f, w
<1>4. Worth(p) = SumIn(w, D)
  BY <1>1, <1>2, <1>3, SumOver
<1> QED  BY <1>2, <1>4 DEF D, w, Numbers

\* What the lines of a proposal cover.
LEMMA CoveredIn ==
    ASSUME NEW recs, RecordsOK(recs), NEW book, NEW p, InParts(recs, book, p)
    PROVE  /\ CoveredBy(recs, book, p) = 100 * NetOf(BookOf(recs, book, p))
                                             + 50 * Cardinality(BookOf(recs, book, p))
           /\ NetOf(BookOf(recs, book, p)) \in Int
           /\ Cardinality(BookOf(recs, book, p)) \in Nat
<1> DEFINE D == Of(recs, p)
           n == [r \in D |-> NetOf(Lines(book, r))]
           c == [r \in D |-> Cardinality(Lines(book, r))]
           v == [r \in D |-> Covered(Lines(book, r))]
           n1 == [r \in D |-> 100 * n[r]]
           c1 == [r \in D |-> 50 * c[r]]
<1>1. IsFiniteSet(D)
  BY OfIsFinite
<1>2. /\ NetOf(BookOf(recs, book, p)) = SumIn(n, D)
      /\ Cardinality(BookOf(recs, book, p)) = SumIn(c, D)
      /\ Numbers(n, D) /\ Numbers(c, D)
  BY NetOfBook
<1>3. \A r \in D : /\ n1[r] = 100 * n[r] /\ c1[r] = 50 * c[r] /\ v[r] = n1[r] + c1[r]
                   /\ n1[r] \in Int /\ c1[r] \in Int
  BY <1>2 DEF Covered, Numbers
<1>4. CoveredBy(recs, book, p) = SumFunction(v) /\ DOMAIN v = D
  BY DEF CoveredBy
<1> HIDE DEF D, n, c, v, n1, c1
<1>5. SumIn(n1, D) = 100 * SumIn(n, D) /\ SumIn(c1, D) = 50 * SumIn(c, D)
  <2>1. 100 \in Int /\ 50 \in Int
    OBVIOUS
  <2>2. (\A r \in D : n1[r] = 100 * n[r]) /\ (\A r \in D : c1[r] = 50 * c[r])
    BY <1>3
  <2> QED  BY <1>1, <1>2, <2>1, <2>2, SumTimes
<1>6. Numbers(n1, D) /\ Numbers(c1, D) /\ Numbers(v, D)
  BY <1>3 DEF Numbers
<1>7. SumIn(v, D) = SumIn(n1, D) + SumIn(c1, D)
  <2>1. \A r \in D : v[r] = n1[r] + c1[r]
    BY <1>3
  <2> QED  BY <1>1, <1>6, <2>1, SumPlus
<1>8. SumIn(n, D) \in Int
  BY <1>1, <1>2, SumInt
<1>9. Cardinality(BookOf(recs, book, p)) \in Nat
  BY FS_CardinalityType DEF InParts
<1> QED  BY <1>2, <1>4, <1>5, <1>7, <1>8, <1>9, SumFunctionIn

\* A proposal that is not overpaid: the sum over its receipts.
LEMMA NetInFull ==
    ASSUME NEW p \in Proposals, MInv, StandardOnly(p), ~Overpaid(p)
    PROVE  /\ Worth(p) <= 100 * NetOf(StandardBook(p)) + Tolerance(p)
           /\ 100 * NetOf(StandardBook(p)) <= Worth(p) + Tolerance(p)
<1> DEFINE D == Of(receipts, p)
           w == Rates(receipts)
           n == [r \in D |-> NetOf(Lines(entries, r))]
           c == [r \in D |-> Cardinality(Lines(entries, r))]
           n1 == [r \in D |-> 100 * n[r]]
           c1 == [r \in D |-> 50 * c[r]]
<1>1. RecordsOK(receipts) /\ Money(receipts, entries, p) /\ \A e \in entries : EntryOK(receipts, e)
  BY DEF MInv, BookMoney
<1>2. InParts(receipts, entries, p) /\ StandardBook(p) = BookOf(receipts, entries, p)
  BY <1>1, BookInParts, StandardNetIs
<1>3. IsFiniteSet(D) /\ D \in SUBSET Receipts
  BY OfIsFinite
<1>4. GrossOf(receipts, p) \in Nat /\ Commission[p] \in Nat /\ GrossOf(receipts, p) <= Commission[p]
  <2>1. GrossOf(receipts, p) \in Nat /\ Commission[p] \in Nat
    BY <1>1, GrossFacts, ProposalsAssumption
  <2>2. Gross(p) = GrossOf(receipts, p)
    BY DEF Gross, GrossOf
  <2> QED  BY <2>1, <2>2 DEF Overpaid
<1>5. Total(receipts, D) <= Commission[p]
  <2>1. Total(receipts, D) \in Nat /\ Total(receipts, D) <= GrossOf(receipts, p)
    BY <1>1, <1>3, Totals, GrossFacts
  <2> QED  BY <1>4, <2>1
<1>6. \A r \in D : ReceiptPaid(receipts, r, Lines(entries, r))
  BY <1>1, <1>4 DEF Money, StandardOnly, Plain
<1>7. \A r \in D : w[r] = (receipts[r].amount - receipts[r].reversed) * PercentualDe(receipts, r)
  <2> SUFFICES ASSUME NEW r \in D
               PROVE  w[r] = (receipts[r].amount - receipts[r].reversed) * PercentualDe(receipts, r)
    OBVIOUS
  <2>1. r \in Receipts
    BY <1>3
  <2>2. Elegivel(receipts, r) = Liquido(receipts[r])
    BY <1>1, <1>5, EligibleInFull
  <2>3. Liquido(receipts[r]) = receipts[r].amount - receipts[r].reversed
    BY <1>1, <2>1, KeptIsNatural
  <2> QED  BY <2>1, <2>2, <2>3 DEF Rates
<1>8. /\ NetOf(StandardBook(p)) = SumIn(n, D)
      /\ Cardinality(StandardBook(p)) = SumIn(c, D)
      /\ Numbers(n, D) /\ Numbers(c, D)
  BY <1>2, NetOfBook
<1>9. Worth(p) = SumIn(w, D) /\ Numbers(w, D)
  BY <1>1, WorthIs
<1>10. \A r \in D : /\ n1[r] = 100 * n[r] /\ c1[r] = 50 * c[r] /\ n1[r] \in Int /\ c1[r] \in Int
                     /\ w[r] \in Int
                     /\ w[r] <= n1[r] + c1[r] /\ n1[r] <= w[r] + c1[r]
  <2> SUFFICES ASSUME NEW r \in D
               PROVE /\ n1[r] = 100 * n[r] /\ c1[r] = 50 * c[r] /\ n1[r] \in Int /\ c1[r] \in Int
                     /\ w[r] \in Int
                     /\ w[r] <= n1[r] + c1[r] /\ n1[r] <= w[r] + c1[r]
    OBVIOUS
  <2>1. n1[r] = 100 * n[r] /\ c1[r] = 50 * c[r] /\ n[r] \in Int /\ c[r] \in Int /\ w[r] \in Int
    BY <1>8, <1>9 DEF Numbers
  <2>2. n[r] = NetOf(Lines(entries, r)) /\ c[r] = Cardinality(Lines(entries, r))
    OBVIOUS
  <2>3. FollowsRate(receipts, r, Lines(entries, r))
    BY <1>6 DEF ReceiptPaid
  <2>4. w[r] <= 100 * n[r] + 50 * c[r] /\ 100 * n[r] <= w[r] + 50 * c[r]
    BY <1>7, <2>2, <2>3 DEF FollowsRate
  <2> HIDE DEF n, c, w, n1, c1
  <2> QED  BY <2>1, <2>4
<1> HIDE DEF D, w, n, c, n1, c1
<1>11. SumIn(n1, D) = 100 * SumIn(n, D) /\ SumIn(c1, D) = 50 * SumIn(c, D)
  <2>1. 100 \in Int /\ 50 \in Int
    OBVIOUS
  <2>2. \A r \in D : n1[r] = 100 * n[r]
    BY <1>10
  <2>3. \A r \in D : c1[r] = 50 * c[r]
    BY <1>10
  <2>4. SumIn(n1, D) = 100 * SumIn(n, D)
    BY <1>3, <1>8, <2>1, <2>2, SumTimes
  <2>5. SumIn(c1, D) = 50 * SumIn(c, D)
    BY <1>3, <1>8, <2>1, <2>3, SumTimes
  <2> QED  BY <2>4, <2>5
<1>12. Numbers(n1, D) /\ Numbers(c1, D)
  BY <1>10 DEF Numbers
<1>13. SumIn(w, D) <= SumIn(n1, D) + SumIn(c1, D)
  <2>1. \A r \in D : w[r] <= n1[r] + c1[r]
    BY <1>10
  <2> QED  BY <1>3, <1>9, <1>12, <2>1, SumAtMost
<1>14. SumIn(n1, D) <= SumIn(w, D) + SumIn(c1, D)
  <2>1. \A r \in D : n1[r] <= w[r] + c1[r]
    BY <1>10
  <2> QED  BY <1>3, <1>9, <1>12, <2>1, SumAtMost
<1> QED  BY <1>8, <1>9, <1>11, <1>13, <1>14 DEF Tolerance

\* One percentage: what the ceiling releases, the lines cover.
LEMMA NetAtOneRate ==
    ASSUME NEW p \in Proposals, MInv, StandardOnly(p), OneRate(p)
    PROVE  Worth(p) <= 100 * NetOf(StandardBook(p)) + Tolerance(p)
<1> DEFINE D == Of(receipts, p)
           w == Rates(receipts)
           g == Eligibles(receipts)
<1>1. RecordsOK(receipts) /\ Money(receipts, entries, p) /\ \A e \in entries : EntryOK(receipts, e)
  BY DEF MInv, BookMoney
<1>2. InParts(receipts, entries, p) /\ StandardBook(p) = BookOf(receipts, entries, p)
  BY <1>1, BookInParts, StandardNetIs
<1>3. IsFiniteSet(D) /\ D \in SUBSET Receipts
  BY OfIsFinite
<1>4. Worth(p) = SumIn(w, D) /\ Numbers(w, D)
  BY <1>1, WorthIs
<1>5. /\ CoveredBy(receipts, entries, p) = 100 * NetOf(StandardBook(p)) + Tolerance(p)
      /\ NetOf(StandardBook(p)) \in Int /\ Tolerance(p) \in Nat
  BY <1>1, <1>2, CoveredIn DEF Tolerance
<1>6. CASE D = {}
  <2>1. SumIn(w, D) = 0
    BY <1>6, SumEmpty
  <2>2. StandardBook(p) = {}
    BY <1>2, <1>6 DEF InParts
  <2>3. NetOf(StandardBook(p)) = 0
    BY <2>2, NetOfNone
  <2> HIDE DEF D, w
  <2> QED  BY <1>4, <1>5, <2>1, <2>3
<1>7. CASE D # {}
  <2>1. PICK r \in D : TRUE
    BY <1>7
  <2> DEFINE k == PercentualDe(receipts, r)
  <2>2. k \in Nat
    BY <1>1, <1>3, <2>1, RateIsNatural
  <2>3. \A s \in D : w[s] = k * g[s] /\ g[s] \in Int
    <3> SUFFICES ASSUME NEW s \in D PROVE w[s] = k * g[s] /\ g[s] \in Int
      OBVIOUS
    <3>1. s \in Receipts
      BY <1>3
    <3>2. PercentualDe(receipts, s) = k
      BY <2>1 DEF OneRate
    <3>3. Elegivel(receipts, s) \in Nat
      BY <1>1, <3>1, Eligible
    <3>4. w[s] = Elegivel(receipts, s) * k /\ g[s] = Elegivel(receipts, s)
      BY <3>1, <3>2 DEF Rates, Eligibles
    <3> HIDE DEF w, g, k
    <3> QED  BY <2>2, <3>3, <3>4
  <2>4. Released(receipts, entries, p)
    BY <1>1 DEF Money, StandardOnly, Plain, OneRate, OneRateOf
  <2>5. SumIn(g, D) = Smaller(Total(receipts, D), Commission[p])
    BY <1>1, EligibleTogether
  <2>6. SumIn(g, D) * k <= CoveredBy(receipts, entries, p)
    BY <2>1, <2>4, <2>5 DEF Released
  <2> HIDE DEF D, w, g, k
  <2>7. Numbers(g, D) /\ SumIn(g, D) \in Int
    BY <1>3, <2>3, SumInt DEF Numbers
  <2>8. SumIn(w, D) = k * SumIn(g, D)
    BY <1>3, <2>2, <2>3, <2>7, SumTimes
  <2>9. k * SumIn(g, D) = SumIn(g, D) * k
    BY <2>2, <2>7
  <2> QED  BY <1>4, <1>5, <2>6, <2>8, <2>9
<1> QED  BY <1>6, <1>7

LEMMA NetIsFollowed == MInv => NetFollowsMoney
<1> SUFFICES ASSUME MInv, NEW p \in Proposals, StandardOnly(p)
             PROVE  /\ OneRate(p) \/ ~Overpaid(p) => Worth(p) <= 100 * StandardNet(p) + Tolerance(p)
                    /\ ~Overpaid(p) => 100 * StandardNet(p) <= Worth(p) + Tolerance(p)
  BY DEF NetFollowsMoney
<1>1. StandardNet(p) = NetOf(StandardBook(p))
  <2>1. Money(receipts, entries, p) /\ \A e \in entries : EntryOK(receipts, e)
    BY DEF MInv, BookMoney
  <2> QED  BY <2>1, StandardNetIs
<1> QED  BY <1>1, NetInFull, NetAtOneRate

\* The lines of the report are those shown of each receipt.
LEMMA ReceivedIs ==
    ASSUME NEW p \in Proposals, MInv, StandardOnly(p), ~Overpaid(p),
           \A e \in StandardBook(p) : IsCredit(e) => e.amount > 0
    PROVE  /\ InParts(receipts, entries, p) /\ StandardBook(p) = BookOf(receipts, entries, p)
           /\ \A r \in Of(receipts, p) : ReceiptPaid(receipts, r, Lines(entries, r))
           /\ \A e \in StandardBook(p) :
                /\ e.receipt \in Of(receipts, p) /\ Full(receipts, e.receipt) > 0
                /\ Received(entries, e) = Shown(receipts, e.receipt, e)
                /\ Shown(receipts, e.receipt, e) \in Int
                /\ Centavo(e) = Unit(receipts, e.receipt)
<1>1. RecordsOK(receipts) /\ Money(receipts, entries, p) /\ \A e \in entries : EntryOK(receipts, e)
  BY DEF MInv, BookMoney
<1>2. InParts(receipts, entries, p) /\ StandardBook(p) = BookOf(receipts, entries, p)
  BY <1>1, BookInParts, StandardNetIs
<1>3. GrossOf(receipts, p) \in Nat /\ Commission[p] \in Nat /\ GrossOf(receipts, p) <= Commission[p]
  <2>1. GrossOf(receipts, p) \in Nat /\ Commission[p] \in Nat
    BY <1>1, GrossFacts, ProposalsAssumption
  <2>2. Gross(p) = GrossOf(receipts, p)
    BY DEF Gross, GrossOf
  <2> QED  BY <2>1, <2>2 DEF Overpaid
<1>4. \A r \in Of(receipts, p) : ReceiptPaid(receipts, r, Lines(entries, r))
  BY <1>1, <1>3 DEF Money, StandardOnly, Plain
<1>5. ASSUME NEW e \in StandardBook(p)
      PROVE  /\ e.receipt \in Of(receipts, p) /\ Full(receipts, e.receipt) > 0
             /\ Received(entries, e) = Shown(receipts, e.receipt, e)
             /\ Shown(receipts, e.receipt, e) \in Int
             /\ Centavo(e) = Unit(receipts, e.receipt)
  <2> DEFINE r == e.receipt
             L == Lines(entries, r)
  <2>1. r \in Of(receipts, p) /\ r \in Receipts /\ e \in L /\ e \in Entry
    BY <1>2 DEF InParts, Of, Approved, Lines, StandardBook
  <2>2. PICK c \in L : IsCredit(c) /\ {f \in entries : SameOrigin(e, f) /\ IsCredit(f)} = {c}
    BY <1>1, <1>2, LinesOfOrigin
  <2>3. PaidInFull(receipts, r, L)
    BY <1>4, <2>1 DEF ReceiptPaid
  <2>4. c \in StandardBook(p)
    BY <2>1, <2>2 DEF Lines, StandardBook
  <2>5. c.amount = Full(receipts, r) /\ c.amount > 0
    BY <2>2, <2>3, <2>4 DEF PaidInFull
  <2>6. e.eligible = receipts[r].amount /\ (~IsCredit(e) => e.amount <= 0)
    BY <2>1, <2>3 DEF PaidInFull
  <2>7. CreditOf(entries, e) = Full(receipts, r)
    <3>1. CreditOf(entries, e) = NetOf({c})
      BY <2>2 DEF CreditOf
    <3>2. c.amount \in Int
      BY <2>1, <2>5, <1>1, FullIsNatural
    <3>3. NetOf({} \union {c}) = NetOf({}) + c.amount /\ NetOf({}) \in Int
      <4>1. IsFiniteSet({}) /\ (\A x \in {} : x.amount \in Int) /\ c \notin {}
        BY FS_EmptySet
      <4> QED  BY <3>2, <4>1, NetGrows
    <3>4. {} \union {c} = {c}
      OBVIOUS
    <3> QED  BY <2>5, <3>1, <3>2, <3>3, <3>4, NetOfNone
  <2>8. Full(receipts, r) \in Nat /\ receipts[r].amount \in Nat
    BY <1>1, <2>1, FullIsNatural
  <2>9. Centavo(e) = Unit(receipts, r)
    BY <2>6, <2>7 DEF Centavo, Unit
  <2>10. Received(entries, e) = Shown(receipts, r, e)
    BY <2>5, <2>6, <2>7, <2>8 DEF Received, Shown
  <2>11. Shown(receipts, r, e) \in Int
    <3>1. ~IsCredit(e) => receipts[r].amount * (-e.amount) \in Nat
      <4> DEFINE a == receipts[r].amount
                 b == -e.amount
      <4>1. ~IsCredit(e) => a \in Nat /\ b \in Nat
        BY <2>1, <2>6, <2>8 DEF Entry
      <4> HIDE DEF a, b
      <4>2. ~IsCredit(e) => a * b \in Nat
        BY <4>1
      <4> QED  BY <4>2 DEF a, b
    <3>2. Full(receipts, r) \in Nat \ {0}
      BY <2>5, <2>8
    <3>3. ~IsCredit(e) => Quantize(receipts[r].amount * (-e.amount), Full(receipts, r)) \in Nat
      BY <3>1, <3>2, QuantizeRounds
    <3> QED  BY <2>8, <3>3 DEF Shown
  <2> QED  BY <2>1, <2>5, <2>9, <2>10, <2>11
<1> QED  BY <1>2, <1>4, <1>5

LEMMA ReportIsFollowedFor ==
    ASSUME NEW p \in Proposals, MInv, StandardOnly(p), ~Overpaid(p),
           \A e \in StandardBook(p) : IsCredit(e) => e.amount > 0
    PROVE  LET shown == SumFunction([e \in StandardBook(p) |-> Received(entries, e)])
               kept == Total(receipts, Of(receipts, p))
               off == SumFunction([e \in Debits(p) |-> Centavo(e)])
           IN  -off <= shown - kept /\ shown - kept <= off
<1> DEFINE D == Of(receipts, p)
           B == StandardBook(p)
           E == Debits(p)
           f == [e \in B |-> Received(entries, e)]
           g == [e \in E |-> Centavo(e)]
           s == [r \in D |-> ShownOf(receipts, r, Lines(entries, r))]
           o == [r \in D |-> SumIn(g, OfReceipt(E, r))]
           k == Kept(receipts)
<1>1. RecordsOK(receipts)
  BY DEF MInv, BookMoney
<1>2. /\ InParts(receipts, entries, p) /\ B = BookOf(receipts, entries, p)
      /\ \A r \in D : ReceiptPaid(receipts, r, Lines(entries, r))
      /\ \A e \in B : /\ e.receipt \in D /\ Full(receipts, e.receipt) > 0
                      /\ Received(entries, e) = Shown(receipts, e.receipt, e)
                      /\ Shown(receipts, e.receipt, e) \in Int
                      /\ Centavo(e) = Unit(receipts, e.receipt)
  BY ReceivedIs
<1>3. IsFiniteSet(D) /\ D \in SUBSET Receipts
  BY OfIsFinite
<1>4. IsFiniteSet(B) /\ E \in SUBSET B /\ IsFiniteSet(E)
  <2>1. IsFiniteSet(B) /\ E \in SUBSET B
    BY <1>2 DEF InParts, Debits
  <2> QED  BY <2>1, FS_Subset
<1>5. Numbers(f, B) /\ Numbers(g, E)
  <2>1. \A e \in E : Unit(receipts, e.receipt) \in Nat
    BY <1>1, <1>2, <1>3, <1>4, FullIsNatural
  <2> QED  BY <1>2, <1>4, <2>1 DEF Numbers
<1>6. ASSUME NEW r \in D
      PROVE  /\ s[r] = SumIn(f, OfReceipt(B, r)) /\ s[r] \in Int
             /\ o[r] = SumIn(g, OfReceipt(E, r)) /\ o[r] \in Int
             /\ k[r] \in Int
             /\ s[r] <= k[r] + o[r] /\ k[r] <= s[r] + o[r]
  <2> DEFINE L == Lines(entries, r)
             M == DebitsIn(L)
             u == Unit(receipts, r)
             h == [e \in L |-> Shown(receipts, r, e)]
  <2>1. r \in Receipts /\ L = OfReceipt(B, r) /\ L \subseteq B /\ IsFiniteSet(L)
    <3>1. r \in Receipts /\ L = OfReceipt(B, r) /\ L \subseteq B
      BY <1>2, <1>3 DEF InParts, OfReceipt
    <3> QED  BY <1>4, <3>1, FS_Subset
  <2>2. M = OfReceipt(E, r) /\ M \subseteq L /\ M \subseteq E /\ IsFiniteSet(M)
    <3>1. M = OfReceipt(E, r) /\ M \subseteq L /\ M \subseteq E
      BY <2>1 DEF OfReceipt, Debits, DebitsIn
    <3> QED  BY <2>1, <3>1, FS_Subset
  <2>3. \A e \in L : e.receipt = r
    BY DEF Lines
  <2>4. SumFunction(h) = ShownOf(receipts, r, L) /\ DOMAIN h = L /\ \A e \in L : h[e] = f[e]
    BY <1>2, <2>1, <2>3 DEF ShownOf
  <2>5. \A e \in M : g[e] = u
    BY <1>2, <2>1, <2>2, <2>3
  <2>6. \E c \in L : TRUE
    BY <1>2 DEF ReceiptPaid, PaidInFull
  <2>7. Full(receipts, r) > 0
    BY <1>2, <2>1, <2>3, <2>6
  <2>8. FollowsAmount(receipts, r, L)
    BY <1>2, <2>7 DEF ReceiptPaid
  <2>9. u \in Nat
    BY <1>1, <2>1, <2>7, FullIsNatural
  <2>10. k[r] = receipts[r].amount - receipts[r].reversed /\ k[r] \in Int
    BY <1>1, <2>1, KeptIsNatural
  <2>11. \A e \in L : f[e] \in Int
    BY <1>5, <2>1 DEF Numbers
  <2>12. s[r] = ShownOf(receipts, r, L) /\ o[r] = SumIn(g, M)
    BY <2>2
  <2>13. LET kept == receipts[r].amount - receipts[r].reversed
             off == u * Cardinality(M)
         IN  -off <= ShownOf(receipts, r, L) - kept /\ ShownOf(receipts, r, L) - kept <= off
    BY <2>8 DEF FollowsAmount
  <2> HIDE DEF L, M, u, h, f, g, s, o, k, B, E
  <2>14. ShownOf(receipts, r, L) = SumIn(f, L)
    BY <2>1, <2>4, SumOver
  <2>15. SumIn(f, L) \in Int
    BY <2>1, <2>11, SumInt DEF Numbers
  <2>16. u \in Int
    BY <2>9
  <2>17. SumIn(g, M) = u * Cardinality(M)
    BY <2>2, <2>5, <2>16, SumConstant
  <2>18. Cardinality(M) \in Nat
    BY <2>2, FS_CardinalityType
  <2> DEFINE off == u * Cardinality(M)
  <2>19. off \in Int
    BY <2>9, <2>18
  <2>20. -off <= s[r] - k[r] /\ s[r] - k[r] <= off
    BY <2>10, <2>12, <2>13
  <2>21. o[r] = off
    BY <2>12, <2>17
  <2>22. s[r] \in Int
    BY <2>12, <2>14, <2>15
  <2> HIDE DEF off
  <2>23. s[r] <= k[r] + o[r] /\ k[r] <= s[r] + o[r]
    BY <2>10, <2>19, <2>20, <2>21, <2>22
  <2>24. s[r] = SumIn(f, OfReceipt(B, r)) /\ o[r] = SumIn(g, OfReceipt(E, r))
    BY <2>1, <2>2, <2>12, <2>14
  <2> QED  BY <2>10, <2>19, <2>21, <2>22, <2>23, <2>24
<1>7. SumFunction(f) = SumIn(f, B) /\ SumFunction(g) = SumIn(g, E)
  BY SumFunctionIn
<1>8. Total(receipts, D) = SumIn(k, D)
  BY <1>1, <1>3, Totals
<1>9. SumIn(s, D) = SumIn(f, B) /\ SumIn(o, D) = SumIn(g, E)
  <2>1. \A r \in Of(receipts, p) : s[r] = SumIn(f, OfReceipt(B, r)) /\ o[r] = SumIn(g, OfReceipt(E, r))
    BY <1>6
  <2>2. B \in SUBSET BookOf(receipts, entries, p) /\ E \in SUBSET BookOf(receipts, entries, p)
    BY <1>2, <1>4
  <2>3. InParts(receipts, entries, p)
    BY <1>2
  <2> HIDE DEF f, g, s, o, B, E
  <2>4. SumIn(s, Of(receipts, p)) = SumIn(f, B)
    BY <1>5, <2>1, <2>2, <2>3, SumOfLines
  <2>5. SumIn(o, Of(receipts, p)) = SumIn(g, E)
    BY <1>5, <2>1, <2>2, <2>3, SumOfLines
  <2> QED  BY <2>4, <2>5
<1>10. /\ SumIn(s, D) <= SumIn(k, D) + SumIn(o, D)
       /\ SumIn(k, D) <= SumIn(s, D) + SumIn(o, D)
       /\ SumIn(s, D) \in Int /\ SumIn(k, D) \in Int /\ SumIn(o, D) \in Int
  <2>1. Numbers(s, D) /\ Numbers(o, D) /\ Numbers(k, D)
    BY <1>6 DEF Numbers
  <2>2. \A r \in D : s[r] <= k[r] + o[r]
    BY <1>6
  <2>3. \A r \in D : k[r] <= s[r] + o[r]
    BY <1>6
  <2> HIDE DEF D, f, g, s, o, k
  <2>4. SumIn(s, D) <= SumIn(k, D) + SumIn(o, D)
    BY <1>3, <2>1, <2>2, SumAtMost
  <2>5. SumIn(k, D) <= SumIn(s, D) + SumIn(o, D)
    BY <1>3, <2>1, <2>3, SumAtMost
  <2> QED  BY <1>3, <2>1, <2>4, <2>5, SumInt
<1> HIDE DEF f, g, s, o, k, D, B, E
<1>11. /\ -SumFunction(g) <= SumFunction(f) - Total(receipts, D)
       /\ SumFunction(f) - Total(receipts, D) <= SumFunction(g)
  BY <1>7, <1>8, <1>9, <1>10
<1> QED  BY <1>11 DEF f, g, D, B, E

LEMMA ReportIsFollowed == MInv => ReportFollowsMoney
BY ReportIsFollowedFor DEF ReportFollowsMoney

\* A proposal of a standard consultant is paid what its money is worth: however
\* recognitions and reversals of it and of others overlap, the entries never
\* add up to less than its share, nor to more unless the proposal is overpaid
\* (LancadorComissao, StandardConsultantStrategy and its reversals).
THEOREM MoneyIsFollowed == LedgerSpec => []NetFollowsMoney
<1>1. LedgerSpec => []MInv
  BY MInvInitially, MInvKept, PTL DEF LedgerSpec
<1> QED  BY <1>1, NetIsFollowed, PTL

\* The lines of the financial report add up to the money that was kept, within
\* a centavo of commission for each debit (FinancialReportQuery).
THEOREM ReportAddsUp == LedgerSpec => []ReportFollowsMoney
<1>1. LedgerSpec => []MInv
  BY MInvInitially, MInvKept, PTL DEF LedgerSpec
<1> QED  BY <1>1, ReportIsFollowed, PTL

-----------------------------------------------------------------------------
\* Only recognised receipts have entries.

Granted(recs, row, r) == r \in Receipts /\ (r \in DOMAIN row \/ recs[r].status = "APPROVED")

TxGranted(recs, t) ==
    /\ \A r \in DOMAIN t.row : t.row[r].status = "APPROVED"
    /\ \A e \in t.adds : Granted(recs, t.row, e.receipt)

BookGranted(recs, book) ==
    \A e \in book : e.receipt \in Receipts /\ recs[e.receipt].status = "APPROVED"

GInv ==
    /\ BookGranted(receipts, entries)
    /\ \A p \in Proposals : tx[p] # Idle => TxGranted(receipts, tx[p])

LEMMA NewCreditsGranted ==
    ASSUME NEW recs, NEW book, NEW p, NEW e \in NewCredits(recs, book, p)
    PROVE  e.receipt \in Approved(recs)
<1>1. CASE e \in ScaledCredits(recs, p)
  <2>1. PICK r \in UNION {Mes(recs, Consultant[p], month) : month \in {Month(recs[q].date) : q \in Of(recs, p)}} :
            e = NewCredit(recs, r, "SCALED_CONSULTANT", Consultant[p], ScaledShare(recs, r))
    BY <1>1 DEF ScaledCredits
  <2>2. r \in Approved(recs)
    BY DEF Mes, Liquidos
  <2> QED  BY <2>1, <2>2 DEF NewCredit
<1>2. CASE e \in GroupCredits(recs, p)
  <2>1. PICK q \in (Of(recs, p) \intersect Liquidos(recs)) \X Groups :
          e = NewCredit(recs, q[1], q[2], Beneficiary(recs, q[2], q[1]),
                     GroupShare(recs, q[2], q[1], Beneficiary(recs, q[2], q[1])))
    BY <1>2 DEF GroupCredits
  <2>2. q[1] \in Approved(recs)
    BY DEF Of
  <2> QED  BY <2>1, <2>2 DEF NewCredit
<1>3. CASE e \in StandardCredits(recs, p)
  <2>1. PICK r \in {s \in Of(recs, p) \intersect Liquidos(recs) : RoleOf(recs, s) # Scaled} :
            e = NewCredit(recs, r, "STANDARD_CONSULTANT", Consultant[p], StandardShare(recs, r))
    BY <1>3 DEF StandardCredits
  <2>2. r \in Approved(recs)
    BY DEF Of
  <2> QED  BY <2>1, <2>2 DEF NewCredit
<1> QED  BY <1>1, <1>2, <1>3 DEF NewCredits

LEMMA GInvBegins ==
    ASSUME MInv, GInv, NEW p \in Proposals, NEW request, tx' = [tx EXCEPT ![p] = request],
           UNCHANGED <<receipts, entries>>, TxGranted(receipts, request)
    PROVE  GInv'
<1>1. \A q \in Proposals : tx'[q] = IF q = p THEN request ELSE tx[q]
  BY DEF MInv
<1>2. \A q \in Proposals : tx'[q] # Idle => TxGranted(receipts, tx'[q])
  BY <1>1 DEF GInv
<1> QED  BY <1>2 DEF GInv

LEMMA GInvRecognises ==
    ASSUME MInv, GInv, NEW p \in Proposals, NEW S \in SUBSET Receipts, BeginRecognise(p, S)
    PROVE  GInv'
<1> DEFINE recs == [r \in Receipts |->
                       IF r \in S THEN [receipts[r] EXCEPT !.status = "APPROVED"] ELSE receipts[r]]
           adds == NewCredits(recs, entries, p)
           row == [r \in S |-> recs[r]]
           request == Request("recognise", Consultant[p], row, adds)
<1>1. tx' = [tx EXCEPT ![p] = request] /\ UNCHANGED <<receipts, entries>>
  BY DEF BeginRecognise
<1>2. \A r \in S : recs[r].status = "APPROVED"
  BY DEF MInv, BookMoney, RecordsOK, ReceiptRow
<1>3. \A r \in Approved(recs) : r \in Receipts /\ (r \in S \/ receipts[r].status = "APPROVED")
  BY DEF Approved
<1>4. request.row = row /\ request.adds = adds /\ DOMAIN row = S /\ \A r \in S : row[r] = recs[r]
  BY DEF Request
<1> HIDE DEF recs, row, request
<1>5. \A e \in adds : e.receipt \in Approved(recs)
  BY NewCreditsGranted
<1> HIDE DEF adds
<1>6. TxGranted(receipts, request)
  BY <1>2, <1>3, <1>4, <1>5 DEF TxGranted, Granted
<1> QED  BY <1>1, <1>6, GInvBegins

LEMMA GInvReverses ==
    ASSUME MInv, GInv, NEW r \in Receipts, NEW x \in Int, BeginReverse(r, x)
    PROVE  GInv'
<1> DEFINE recs == Reversed(r, x)
           adds == NewDebits(recs, entries, r, recs[r].reversed, x)
           row == [q \in {r} |-> recs[q]]
           p == receipts[r].proposal
           request == Request("reverse", IF IsScaled(entries, r) THEN Consultant[p] ELSE NoOne, row, adds)
<1>1. /\ tx' = [tx EXCEPT ![p] = request] /\ UNCHANGED <<receipts, entries>>
      /\ receipts[r].status = "APPROVED"
  BY DEF BeginReverse
<1>2. p \in Proposals /\ recs[r].status = "APPROVED"
  BY <1>1 DEF MInv, BookMoney, RecordsOK, ReceiptRow, Reversed
<1>3. \A e \in adds : e.receipt = r
  <2>1. \A e \in entries : EntryOK(receipts, e)
    BY DEF MInv, BookMoney
  <2>2. \A q \in Receipts : recs[q].proposal = receipts[q].proposal /\ recs[q].date = receipts[q].date
    BY DEF MInv, BookMoney, RecordsOK, ReceiptRow, Reversed
  <2> HIDE DEF recs
  <2>3. \A e \in entries : EntryOK(recs, e)
    BY <2>1, <2>2 DEF EntryOK, RoleOf, ConsultantOf
  <2> QED  BY <2>3, NewDebitsFormed
<1>4. request.row = row /\ request.adds = adds /\ DOMAIN row = {r} /\ row[r] = recs[r]
  BY DEF Request
<1> HIDE DEF recs, row, request, adds, p
<1>5. TxGranted(receipts, request)
  BY <1>2, <1>3, <1>4 DEF TxGranted, Granted
<1> QED  BY <1>1, <1>2, <1>5, GInvBegins

LEMMA GInvCommits ==
    ASSUME MInv, GInv, NEW p \in Proposals, Commit(p)
    PROVE  GInv'
<1> DEFINE t == tx[p]
<1>1. /\ t # Idle /\ entries' = entries \union t.adds /\ tx' = [tx EXCEPT ![p] = Idle]
      /\ receipts' = [r \in Receipts |-> IF r \in DOMAIN t.row THEN t.row[r] ELSE receipts[r]]
  BY DEF Commit
<1>2. TxGranted(receipts, t) /\ BookGranted(receipts, entries)
  BY <1>1 DEF GInv
<1>3. \A q \in Proposals : tx'[q] = IF q = p THEN Idle ELSE tx[q]
  BY <1>1 DEF MInv
<1> HIDE DEF t
<1>4. \A r \in Receipts : /\ receipts[r].status = "APPROVED" => receipts'[r].status = "APPROVED"
                          /\ r \in DOMAIN t.row => receipts'[r].status = "APPROVED"
  BY <1>1, <1>2 DEF TxGranted
<1>5. BookGranted(receipts', entries')
  BY <1>1, <1>2, <1>4 DEF BookGranted, TxGranted, Granted
<1>6. ASSUME NEW q \in Proposals, tx'[q] # Idle PROVE TxGranted(receipts', tx'[q])
  <2>1. tx'[q] = tx[q] /\ TxGranted(receipts, tx[q])
    BY <1>3, <1>6 DEF GInv
  <2> DEFINE u == tx'[q]
             new == receipts'
  <2>2. TxGranted(receipts, u)
    BY <2>1
  <2>3. \A r \in Receipts : receipts[r].status = "APPROVED" => new[r].status = "APPROVED"
    BY <1>4
  <2> HIDE DEF u, new
  <2>4. TxGranted(new, u)
    BY <2>2, <2>3 DEF TxGranted, Granted
  <2> QED  BY <2>4 DEF u, new
<1> QED  BY <1>5, <1>6 DEF GInv

LEMMA GInvInitially == LedgerInit => GInv
BY DEF LedgerInit, GInv, BookGranted

LEMMA GInvKept == MInv /\ GInv /\ [LedgerNext]_ledgerVars => GInv'
<1> SUFFICES ASSUME MInv, GInv, [LedgerNext]_ledgerVars PROVE GInv'
  OBVIOUS
<1>1. CASE UNCHANGED <<receipts, entries, tx>>
  BY <1>1 DEF GInv, BookGranted, TxGranted, Granted
<1>2. ASSUME NEW p \in Proposals, NEW S \in SUBSET Receipts, BeginRecognise(p, S) PROVE GInv'
  BY <1>2, GInvRecognises
<1>3. ASSUME NEW r \in Receipts, NEW total \in Levels[r] \union {receipts[r].amount},
             BeginReverse(r, total - receipts[r].reversed)
      PROVE  GInv'
  <2>1. receipts[r].reversed \in Nat /\ total \in Nat
    BY DeclarationsAssumption DEF MInv, BookMoney, RecordsOK, ReceiptRow
  <2> QED  BY <1>3, <2>1, GInvReverses
<1>4. ASSUME NEW p \in Proposals, Commit(p) PROVE GInv'
  BY <1>4, GInvCommits
<1>5. CASE UNCHANGED ledgerVars
  BY <1>1, <1>5 DEF ledgerVars
<1> QED  BY <1>1, <1>2, <1>3, <1>4, <1>5 DEF LedgerNext, CloseLedgerPeriod, ReopenPeriod


-----------------------------------------------------------------------------
\* A full receipt of a proposal that holds no money.

LEMMA QuantizeExact ==
    ASSUME NEW n \in Nat, NEW d \in Nat \ {0}
    PROVE  Quantize(n * d, d) = n
<1> DEFINE q == Quantize(n * d, d)
           k == n * d
<1>1. k \in Nat
  OBVIOUS
<1>2. q \in Nat /\ (2 * d) * q <= 2 * k + d /\ 2 * k + d < (2 * d) * q + 2 * d
  <2>1. q = Quantize(k, d)
    OBVIOUS
  <2> HIDE DEF k, q
  <2> QED  BY <1>1, <2>1, QuantizeRounds
<1> HIDE DEF q
<1> DEFINE b == 2 * d
<1>3. b \in Nat \ {0} /\ d < b /\ 2 * k = b * n /\ b * (n + 1) = b * n + b /\ b * (q + 1) = b * q + b
  BY <1>2
<1>4. b * q \in Nat /\ b * n \in Nat
  BY <1>2, <1>3
<1>5. b * q < b * (n + 1) /\ b * n < b * (q + 1)
  <2>1. b * q <= 2 * k + d /\ 2 * k + d < b * q + b
    BY <1>2
  <2> HIDE DEF b, k
  <2> QED  BY <1>1, <1>3, <1>4, <2>1
<1> HIDE DEF b
<1>6. q < n + 1 /\ n < q + 1
  BY <1>2, <1>3, <1>5, LessCancels
<1>7. q = n
  BY <1>2, <1>6
<1> QED  BY <1>7 DEF q

\* b is a with r recognised.
FullReceipt(a, b, r) ==
    /\ RecordsOK(a) /\ RecordsOK(b)
    /\ \A s \in Receipts : SameReceipt(a[s], b[s]) /\ (s # r => a[s] = b[s])
    /\ a[r].status = "SUBMITTED" /\ b[r].status = "APPROVED"
    /\ a[r].reversed = 0 /\ a[r].amount = Commission[a[r].proposal]
    /\ Total(a, Of(a, a[r].proposal)) = 0

LEMMA FullApproved ==
    ASSUME NEW a, NEW b, NEW r \in Receipts, FullReceipt(a, b, r)
    PROVE  /\ Approved(b) = Approved(a) \union {r} /\ r \notin Approved(a)
           /\ \A s \in Receipts : b[s].proposal = a[s].proposal /\ b[s].date = a[s].date
           /\ \A s, t \in Receipts : Earlier(b, s, t) <=> Earlier(a, s, t)
           /\ \A s \in Approved(a) : s \in Receipts /\ a[s] = b[s]
<1>1. \A s \in Receipts : SameReceipt(a[s], b[s]) /\ (s # r => a[s] = b[s])
  BY DEF FullReceipt
<1>2. \A s \in Receipts : b[s].proposal = a[s].proposal /\ b[s].date = a[s].date
  BY <1>1 DEF SameReceipt
<1>3. \A s, t \in Receipts : Earlier(b, s, t) <=> Earlier(a, s, t)
  BY <1>2 DEF Earlier
<1>4. a[r].status = "SUBMITTED" /\ b[r].status = "APPROVED"
  BY DEF FullReceipt
<1> QED  BY <1>1, <1>2, <1>3, <1>4 DEF Approved

LEMMA NothingKept ==
    ASSUME NEW recs, RecordsOK(recs), NEW p \in Proposals, Total(recs, Of(recs, p)) = 0,
           NEW A \in SUBSET Of(recs, p)
    PROVE  /\ Total(recs, A) = 0
           /\ \A s \in A : Liquido(recs[s]) = 0
<1>1. Of(recs, p) \in SUBSET Receipts
  BY DEF Of, Approved
<1>2. \A B \in SUBSET Of(recs, p) : Total(recs, B) = 0
  <2> TAKE B \in SUBSET Of(recs, p)
  <2>1. B \in SUBSET Receipts
    BY <1>1
  <2>2. Total(recs, B) \in Nat /\ Total(recs, B) <= 0
    BY <1>1, <2>1, Totals, TotalOfPart
  <2> QED  BY <2>2
<1>3. ASSUME NEW s \in A PROVE Liquido(recs[s]) = 0
  <2>1. s \in Receipts \ {} /\ {} \in SUBSET Receipts /\ {} \union {s} = {s}
    BY <1>1
  <2>2. Total(recs, {} \union {s}) = Total(recs, {}) + Liquido(recs[s])
    BY <2>1, TotalMore
  <2>3. Liquido(recs[s]) \in Nat
    BY <2>1, KeptIsNatural
  <2> QED  BY <1>2, <2>1, <2>2, <2>3
<1> QED  BY <1>2, <1>3

LEMMA FullShares ==
    ASSUME NEW a, NEW b, NEW r \in Receipts, FullReceipt(a, b, r)
    PROVE  /\ Elegivel(b, r) = Commission[a[r].proposal]
           /\ Producao(b, r) = Operation[a[r].proposal]
           /\ \A s \in Approved(a) : /\ Elegivel(b, s) = Elegivel(a, s)
                                     /\ Producao(b, s) = Producao(a, s)
<1> DEFINE p == a[r].proposal
<1>1. RecordsOK(a) /\ RecordsOK(b) /\ Total(a, Of(a, p)) = 0
  BY DEF FullReceipt
<1>2. p \in Proposals /\ b[r].proposal = p /\ Commission[p] \in Nat \ {0} /\ Operation[p] \in Nat \ {0}
  BY <1>1, FullApproved, ProposalsAssumption DEF RecordsOK, ReceiptRow
<1>3. Liquido(b[r]) = Commission[p]
  <2>1. SameReceipt(a[r], b[r]) /\ a[r].reversed = 0 /\ a[r].amount = Commission[p]
    BY DEF FullReceipt
  <2>2. b[r].reversed = 0 /\ b[r].amount = Commission[p]
    BY <2>1 DEF SameReceipt
  <2>3. Liquido(b[r]) = b[r].amount - b[r].reversed
    BY <1>1, KeptIsNatural
  <2> QED  BY <1>2, <2>2, <2>3
<1>4. \A S \in SUBSET Approved(a) : Total(b, S) = Total(a, S)
  <2> TAKE S \in SUBSET Approved(a)
  <2>1. [s \in S |-> Liquido(b[s])] = [s \in S |-> Liquido(a[s])]
    BY FullApproved
  <2> QED  BY <2>1 DEF Total
<1>5. Elegivel(b, r) = Commission[p]
  <2> DEFINE A == EarlierOf(b, r)
  <2>1. A \in SUBSET Of(a, p)
    <3>1. \A s \in A : s \in Receipts /\ s # r /\ s \in Approved(b) /\ b[s].proposal = p
      BY <1>1, <1>2, EarlierIsAnOrder DEF EarlierOf, Of, Approved
    <3>2. \A s \in A : s \in Approved(a) /\ a[s].proposal = p
      BY <3>1, FullApproved
    <3> QED  BY <3>2 DEF Of
  <2>2. A \in SUBSET Approved(a)
    BY <2>1 DEF Of
  <2> HIDE DEF A
  <2>3. Total(b, A) = 0
    BY <1>1, <1>2, <1>4, <2>1, <2>2, NothingKept
  <2>4. Elegivel(b, r) = Smaller(Total(b, A) + Liquido(b[r]), Commission[p]) - Smaller(Total(b, A), Commission[p])
    BY <1>1, <1>2, Eligible DEF A
  <2> QED  BY <1>2, <1>3, <2>3, <2>4 DEF Smaller
<1>6. Producao(b, r) = Operation[p]
  BY <1>2, <1>5, QuantizeExact DEF Producao
<1>7. ASSUME NEW s \in Approved(a) PROVE Elegivel(b, s) = Elegivel(a, s)
  <2>1. s \in Receipts /\ a[s] = b[s]
    BY FullApproved
  <2>2. CASE a[s].proposal = p
    <3>1. s \in Of(a, p)
      BY <2>2 DEF Of
    <3>2. Liquido(a[s]) = 0 /\ Liquido(b[s]) = 0
      BY <1>1, <1>2, <2>1, <3>1, NothingKept
    <3>3. /\ Elegivel(a, s) \in Nat /\ Elegivel(a, s) <= Liquido(a[s])
          /\ Elegivel(b, s) \in Nat /\ Elegivel(b, s) <= Liquido(b[s])
      BY <1>1, <2>1, Eligible
    <3> QED  BY <3>2, <3>3
  <2>3. CASE a[s].proposal # p
    <3> DEFINE A == EarlierOf(a, s)
    <3>1. EarlierOf(b, s) = A /\ A \in SUBSET Approved(a)
      BY <1>2, <2>1, <2>3, FullApproved DEF EarlierOf, Of
    <3> HIDE DEF A
    <3>2. Total(b, A) = Total(a, A)
      BY <1>4, <3>1
    <3>3. /\ Elegivel(a, s) = Smaller(Total(a, A) + Liquido(a[s]), Commission[a[s].proposal])
                                 - Smaller(Total(a, A), Commission[a[s].proposal])
          /\ Elegivel(b, s) = Smaller(Total(b, A) + Liquido(b[s]), Commission[b[s].proposal])
                                 - Smaller(Total(b, A), Commission[b[s].proposal])
      BY <1>1, <2>1, <3>1, Eligible DEF A
    <3> QED  BY <2>1, <3>2, <3>3
  <2> QED  BY <2>2, <2>3
<1>8. \A s \in Approved(a) : Producao(b, s) = Producao(a, s)
  BY <1>7, FullApproved DEF Producao
<1> QED  BY <1>5, <1>6, <1>7, <1>8

\* The share announced is the share of the credit.
LEMMA FullIsAnnounced ==
    ASSUME NEW a, NEW b, NEW r \in Receipts, FullReceipt(a, b, r), NEW p, p = a[r].proposal,
           NEW d, d = a[r].date,
           \A s \in Mes(a, Consultant[p], Month(d)) : Earlier(a, s, r)
    PROVE  IF RoleOf(b, r) = Scaled
           THEN /\ r \in Mes(b, Consultant[p], Month(d))
                /\ ScaledShare(b, r) = Previa(a, p, d)
           ELSE /\ r \in Liquidos(b)
                /\ StandardShare(b, r) = Previa(a, p, d)
<1>1. RecordsOK(a) /\ RecordsOK(b)
  BY DEF FullReceipt
<1>2. /\ p \in Proposals /\ b[r].proposal = p /\ b[r].date = d
      /\ Commission[p] \in Nat \ {0} /\ Operation[p] \in Nat \ {0}
  BY <1>1, FullApproved, ProposalsAssumption DEF RecordsOK, ReceiptRow
<1>3. /\ ConsultantOf(b, r) = Consultant[p] /\ RoleOf(b, r) = Role[Consultant[p]][d]
      /\ ConfigOf(b, r) = Config[d] /\ PolicyOf(b, r) = Policy[Consultant[p]][d]
  BY <1>2 DEF ConsultantOf, RoleOf, ConfigOf, PolicyOf
<1>4. Elegivel(b, r) = Commission[p] /\ Producao(b, r) = Operation[p]
  BY FullShares
<1>5. r \in Liquidos(b)
  BY <1>2, <1>4, FullApproved DEF Liquidos
<1>6. CASE RoleOf(b, r) = Scaled
  <2> DEFINE c == Consultant[p]
             m == Month(d)
             M == Mes(a, c, m)
             before == {s \in Mes(b, c, m) : Earlier(b, s, r)}
  <2>1. r \in Mes(b, c, m)
    BY <1>2, <1>3, <1>5, <1>6 DEF Mes
  <2>2. \A s \in Approved(a) : s \in Mes(b, c, m) <=> s \in M
    <3> TAKE s \in Approved(a)
    <3>1. /\ a[s] = b[s] /\ s \in Approved(b) /\ Elegivel(b, s) = Elegivel(a, s)
      BY FullApproved, FullShares
    <3> QED  BY <3>1 DEF Mes, Liquidos, ConsultantOf, RoleOf
  <2>3. \A s \in M : s \in Approved(a) /\ Earlier(b, s, r)
    <3>1. \A s \in M : s \in Approved(a)
      BY DEF Mes, Liquidos
    <3> QED  BY <3>1, FullApproved
  <2>4. \A s \in before : s \in Approved(a)
    <3>1. \A s \in before : s \in Approved(b) /\ s \in Receipts /\ Earlier(b, s, r)
      BY DEF Mes, Liquidos, Approved
    <3>2. \A s \in before : s # r
      BY <1>1, <3>1, EarlierIsAnOrder
    <3> QED  BY <3>1, <3>2, FullApproved
  <2>5. before = M
    BY <2>2, <2>3, <2>4
  <2>6. [s \in before |-> Producao(b, s)] = [s \in M |-> Producao(a, s)]
    <3> HIDE DEF before, M
    <3> QED  BY <2>3, <2>5, FullShares
  <2>7. ScaledShare(b, r) = IF PolicyOf(b, r).excluded THEN 0
                            ELSE ConsultorEscalonado(Config[d].scaled, Tps(p),
                                     SumFunction([s \in before |-> Producao(b, s)]), Operation[p])
    BY <1>2, <1>3, <1>4 DEF ScaledShare
  <2>8. ProducaoAcumulada(a, c, d) = SumFunction([s \in M |-> Producao(a, s)])
    BY DEF ProducaoAcumulada
  <2>9. ScaledShare(b, r) = IF Policy[c][d].excluded THEN 0 ELSE PreviaEscalonada(a, p, d)
    <3> HIDE DEF before, M
    <3> QED  BY <1>3, <2>6, <2>7, <2>8 DEF PreviaEscalonada
  <2> QED  BY <1>3, <1>6, <2>1, <2>9 DEF Previa
<1>7. CASE RoleOf(b, r) # Scaled
  <2> DEFINE policy == Policy[Consultant[p]][d]
             percentage == IF Tps(p) >= 35 /\ policy.override # NoOverride THEN policy.override
                           ELSE PercentualPadrao(Config[d].standard, Tps(p))
  <2>1. PercentualDe(b, r) = IF policy.excluded THEN 0 ELSE percentage
    BY <1>2, <1>3 DEF PercentualDe
  <2>2. StandardShare(b, r) = Percent(Commission[p], PercentualDe(b, r))
    BY <1>4 DEF StandardShare
  <2>3. Previa(a, p, d) = IF policy.excluded THEN 0 ELSE Percent(Commission[p], percentage)
    BY <1>3, <1>7 DEF Previa
  <2> HIDE DEF policy, percentage
  <2>4. Percent(Commission[p], 0) = 0
    <3>1. Percent(Commission[p], 0) \in Nat /\ 100 * Percent(Commission[p], 0) <= Commission[p] * 0 + 50
      BY <1>2, PercentRounds
    <3> QED  BY <1>2, <3>1
  <2>5. StandardShare(b, r) = Previa(a, p, d)
    BY <2>1, <2>2, <2>3, <2>4
  <2> QED  BY <1>5, <1>7, <2>5
<1> QED  BY <1>6, <1>7

\* The credit of r that the recognition adds.
LEMMA FullIsCredited ==
    ASSUME NEW a, NEW b, NEW r \in Receipts, FullReceipt(a, b, r), NEW p, p = a[r].proposal,
           NEW d, d = a[r].date, NEW book, \A e \in book : e.receipt # r,
           \A s \in Mes(a, Consultant[p], Month(d)) : Earlier(a, s, r)
    PROVE  \E e \in NewCredits(b, book, p) :
              /\ e.receipt = r /\ e.beneficiary = Consultant[p]
              /\ e.amount = Previa(a, p, d)
<1>1. b[r].proposal = p /\ b[r].date = d /\ r \in Approved(b)
  BY FullApproved
<1>2. r \in Of(b, p)
  BY <1>1 DEF Of
<1>3. CASE RoleOf(b, r) = Scaled
  <2> DEFINE e == NewCredit(b, r, "SCALED_CONSULTANT", Consultant[p], ScaledShare(b, r))
  <2>1. r \in Mes(b, Consultant[p], Month(d)) /\ ScaledShare(b, r) = Previa(a, p, d)
    BY <1>3, FullIsAnnounced
  <2>2. e.receipt = r /\ e.beneficiary = Consultant[p] /\ e.amount = Previa(a, p, d)
    BY <2>1 DEF NewCredit
  <2>3. e \in ScaledCredits(b, p)
    <3>1. Month(d) \in {Month(b[s].date) : s \in Of(b, p)}
      BY <1>1, <1>2
    <3>2. r \in UNION {Mes(b, Consultant[p], month) : month \in {Month(b[s].date) : s \in Of(b, p)}}
      BY <2>1, <3>1
    <3> QED  BY <3>2 DEF ScaledCredits
  <2> HIDE DEF e
  <2>4. e \in NewCredits(b, book, p)
    BY <2>2, <2>3 DEF NewCredits, SameOrigin
  <2> QED  BY <2>2, <2>4
<1>4. CASE RoleOf(b, r) # Scaled
  <2> DEFINE e == NewCredit(b, r, "STANDARD_CONSULTANT", Consultant[p], StandardShare(b, r))
  <2>1. r \in Liquidos(b) /\ StandardShare(b, r) = Previa(a, p, d)
    BY <1>4, FullIsAnnounced
  <2>2. e.receipt = r /\ e.beneficiary = Consultant[p] /\ e.amount = Previa(a, p, d)
    BY <2>1 DEF NewCredit
  <2>3. e \in StandardCredits(b, p)
    <3>1. r \in {s \in Of(b, p) \intersect Liquidos(b) : RoleOf(b, s) # Scaled}
      BY <1>2, <1>4, <2>1
    <3> QED  BY <3>1 DEF StandardCredits
  <2> HIDE DEF e
  <2>4. e \in NewCredits(b, book, p)
    BY <2>2, <2>3 DEF NewCredits, SameOrigin
  <2> QED  BY <2>2, <2>4
<1> QED  BY <1>3, <1>4

PreviewPaid(p, r) ==
    /\ tx[p] = Idle /\ tx'[p].kind = "recognise" /\ DOMAIN tx'[p].row = {r}
    /\ receipts[r].amount = Commission[p] /\ Total(receipts, Of(receipts, p)) = 0
    /\ \A s \in Mes(receipts, Consultant[p], Month(receipts[r].date)) : Earlier(receipts, s, r)
    => \E e \in tx'[p].adds :
          /\ e.receipt = r /\ e.beneficiary = Consultant[p]
          /\ e.amount = Previa(receipts, p, receipts[r].date)

LEMMA PreviewPaidBy ==
    ASSUME MInv, GInv, NEW p \in Proposals, NEW r \in Receipts, NEW S \in SUBSET Receipts,
           BeginRecognise(p, S)
    PROVE  PreviewPaid(p, r)
<1> DEFINE recs == [s \in Receipts |-> IF s \in S THEN [receipts[s] EXCEPT !.status = "APPROVED"]
                                       ELSE receipts[s]]
           adds == NewCredits(recs, entries, p)
           row == [s \in S |-> recs[s]]
           request == Request("recognise", Consultant[p], row, adds)
           d == receipts[r].date
<1> SUFFICES ASSUME DOMAIN tx'[p].row = {r}, receipts[r].amount = Commission[p],
                    Total(receipts, Of(receipts, p)) = 0,
                    \A s \in Mes(receipts, Consultant[p], Month(d)) : Earlier(receipts, s, r)
             PROVE  \E e \in tx'[p].adds :
                       /\ e.receipt = r /\ e.beneficiary = Consultant[p]
                       /\ e.amount = Previa(receipts, p, d)
  BY DEF PreviewPaid
<1>1. /\ tx' = [tx EXCEPT ![p] = request]
      /\ \A s \in S : receipts[s].proposal = p /\ receipts[s].status = "SUBMITTED"
  BY DEF BeginRecognise
<1>2. tx'[p] = request
  BY <1>1 DEF MInv
<1>3. S = {r} /\ tx'[p].adds = adds
  BY <1>2 DEF Request
<1>4. /\ receipts \in [Receipts -> ReceiptRow] /\ RecordsOK(receipts) /\ Untouched(receipts)
      /\ \A s \in Receipts : receipts[s].reversed <= receipts[s].amount
  BY DEF MInv, BookMoney, RecordsOK
<1>5. /\ recs \in [Receipts -> ReceiptRow]
      /\ \A s \in Receipts : /\ SameReceipt(receipts[s], recs[s]) /\ (s # r => receipts[s] = recs[s])
                             /\ recs[s].reversed <= recs[s].amount
      /\ recs[r].status = "APPROVED"
  <2>1. \A s \in Receipts : /\ recs[s] \in ReceiptRow
                            /\ SameReceipt(receipts[s], recs[s]) /\ (s # r => receipts[s] = recs[s])
                            /\ recs[s].reversed <= recs[s].amount
    BY <1>3, <1>4 DEF ReceiptRow, SameReceipt
  <2>2. recs[r].status = "APPROVED"
    BY <1>3, <1>4 DEF ReceiptRow
  <2> QED  BY <2>1, <2>2
<1> HIDE DEF recs, row, request
<1>6. receipts[r].proposal = p /\ receipts[r].status = "SUBMITTED" /\ receipts[r].reversed = 0
  BY <1>1, <1>3, <1>4 DEF Untouched
<1>7. FullReceipt(receipts, recs, r)
  BY <1>4, <1>5, <1>6 DEF FullReceipt, RecordsOK
<1>8. \A e \in entries : e.receipt # r
  BY <1>6 DEF GInv, BookGranted
<1> HIDE DEF d
<1>9. \E e \in NewCredits(recs, entries, p) :
         e.receipt = r /\ e.beneficiary = Consultant[p] /\ e.amount = Previa(receipts, p, d)
  BY <1>6, <1>7, <1>8, FullIsCredited DEF d
<1> QED  BY <1>3, <1>9

LEMMA PreviewPaidStep ==
    MInv /\ GInv /\ [LedgerNext]_ledgerVars => \A p \in Proposals, r \in Receipts : PreviewPaid(p, r)
<1> SUFFICES ASSUME MInv, GInv, [LedgerNext]_ledgerVars, NEW p \in Proposals, NEW r \in Receipts,
                    tx[p] = Idle, tx'[p].kind = "recognise"
             PROVE  PreviewPaid(p, r)
  BY DEF PreviewPaid
<1>1. tx'[p] # tx[p]
  BY DEF Idle
<1>2. ASSUME NEW q \in Proposals, NEW S \in SUBSET Receipts, BeginRecognise(q, S)
      PROVE  PreviewPaid(p, r)
  <2>1. q = p
    BY <1>1, <1>2 DEF BeginRecognise, MInv
  <2> QED  BY <1>2, <2>1, PreviewPaidBy
<1>3. ASSUME NEW s \in Receipts, NEW x, BeginReverse(s, x) PROVE FALSE
  <2> DEFINE q == receipts[s].proposal
             recs == Reversed(s, x)
             request == Request("reverse", IF IsScaled(entries, s) THEN Consultant[q] ELSE NoOne,
                                [t \in {s} |-> recs[t]],
                                NewDebits(recs, entries, s, recs[s].reversed, x))
  <2>1. tx' = [tx EXCEPT ![q] = request]
    BY <1>3 DEF BeginReverse
  <2>2. request.kind = "reverse"
    BY DEF Request
  <2> HIDE DEF request
  <2>3. tx'[p] = IF p = q THEN request ELSE tx[p]
    BY <2>1 DEF MInv
  <2> QED  BY <1>1, <2>2, <2>3
<1>4. ASSUME NEW q \in Proposals, Commit(q) PROVE FALSE
  BY <1>1, <1>4 DEF Commit, MInv
<1>5. UNCHANGED tx => FALSE
  BY <1>1
<1> QED  BY <1>2, <1>3, <1>4, <1>5 DEF LedgerNext, CloseLedgerPeriod, ReopenPeriod, ledgerVars

\* What the form announced for a proposal is credited when all of it is
\* received at once, at the percentage of that day or as the last production of
\* the month (PreviewCommissionHandler and the strategies of the consultants).
THEOREM AnnouncedIsPaid == LedgerSpec => PreviewIsPaid
<1>1. LedgerSpec => [](MInv /\ GInv)
  BY MInvInitially, GInvInitially, MInvKept, GInvKept, PTL DEF LedgerSpec
<1>2. MInv /\ GInv /\ [LedgerNext]_ledgerVars
          => [\A p \in Proposals, r \in Receipts :
                LET c == Consultant[p]
                    d == receipts[r].date
                IN  /\ tx[p] = Idle /\ tx'[p].kind = "recognise" /\ DOMAIN tx'[p].row = {r}
                    /\ receipts[r].amount = Commission[p] /\ Total(receipts, Of(receipts, p)) = 0
                    /\ \A s \in Mes(receipts, c, Month(d)) : Earlier(receipts, s, r)
                    => \E e \in tx'[p].adds :
                          /\ e.receipt = r /\ e.beneficiary = c
                          /\ e.amount = Previa(receipts, p, d)]_ledgerVars
  BY PreviewPaidStep DEF PreviewPaid
<1> QED  BY <1>1, <1>2, PTL DEF LedgerSpec, PreviewIsPaid

-----------------------------------------------------------------------------
\* The month of a scaled consultant.

LEMMA PartIsNatural ==
    ASSUME NEW faixa, faixa.min \in Int, faixa.max \in Int, NEW before \in Nat, NEW after \in Nat
    PROVE  Parcela(faixa, before, after) \in Nat
BY DEF Parcela, Larger, Smaller

LEMMA ScaledIsInteger ==
    ASSUME NEW config, ValidScaled(config), NEW tps \in Nat, NEW before \in Nat, NEW production \in Nat
    PROVE  ConsultorEscalonado(config, tps, before, production) \in Int
<1> DEFINE P == config.production
           T == config.tps
           column == CHOOSE j \in DOMAIN T : Contem(T[j], tps)
           f == [i \in DOMAIN P |-> Percent(Percent(Parcela(P[i], before, before + production), tps),
                                            P[i].percentages[column])]
<1>1. /\ P \in Seq(FaixaProducao)
      /\ T \in Seq(FaixaTps) /\ Continuas(T)
      /\ \A i \in DOMAIN P : DOMAIN P[i].percentages = DOMAIN T
  BY DEF ValidScaled
<1>2. ConsultorEscalonado(config, tps, before, production) = SumFunction(f)
  BY DEF ConsultorEscalonado
<1> HIDE DEF P, T
<1>3. \A j \in DOMAIN T : T[j].min \in Int /\ T[j].max \in Int
  <2>1. \A j \in DOMAIN T : T[j] \in FaixaTps
    BY <1>1
  <2> QED  BY <2>1 DEF FaixaTps
<1>4. \E j \in DOMAIN T : Contem(T[j], tps)
  <2>1. Len(T) \in Nat \ {0} /\ DOMAIN T = 1..Len(T)
    BY <1>1 DEF Continuas
  <2> QED  BY <1>1, <1>3, <2>1, RangeOf
<1>5. column \in DOMAIN T
  BY <1>4
<1> HIDE DEF column
<1>6. ASSUME NEW i \in DOMAIN P PROVE f[i] \in Nat
  <2>1. P[i] \in FaixaProducao
    BY <1>1
  <2>2. P[i].min \in Int /\ P[i].max \in Int /\ P[i].percentages \in Seq(0..100)
    BY <2>1 DEF FaixaProducao
  <2>3. P[i].percentages[column] \in 0..100
    <3> DEFINE s == P[i].percentages
               R == 0..100
    <3>1. s \in Seq(R) /\ column \in DOMAIN s
      BY <1>1, <1>5, <2>2
    <3> HIDE DEF s, R
    <3>2. s \in [1..Len(s) -> R] /\ DOMAIN s = 1..Len(s)
      BY <3>1
    <3>3. s[column] \in R
      BY <3>1, <3>2
    <3> QED  BY <3>3 DEF s, R
  <2>4. P[i].percentages[column] \in Nat
    BY <2>3
  <2>5. before + production \in Nat
    OBVIOUS
  <2>6. Parcela(P[i], before, before + production) \in Nat
    BY <2>2, <2>5, PartIsNatural
  <2>7. Percent(Parcela(P[i], before, before + production), tps) \in Nat
    BY <2>6, PercentRounds
  <2>8. Percent(Percent(Parcela(P[i], before, before + production), tps), P[i].percentages[column]) \in Nat
    BY <2>4, <2>7, PercentRounds
  <2> QED  BY <2>8
<1>7. IsFiniteSet(DOMAIN f) /\ DOMAIN f = DOMAIN P
  <2>1. DOMAIN P = 1..Len(P) /\ Len(P) \in Nat
    BY <1>1
  <2>2. IsFiniteSet(1..Len(P))
    BY <2>1, FS_Interval
  <2> QED  BY <2>1, <2>2
<1> HIDE DEF f
<1>8. Numbers(f, DOMAIN f)
  BY <1>6, <1>7 DEF Numbers
<1> QED  BY <1>2, <1>7, <1>8, SumFunctionIn, SumInt

LEMMA ProducedIsNatural ==
    ASSUME NEW recs, RecordsOK(recs), NEW r \in Receipts
    PROVE  Producao(recs, r) \in Nat
<1> DEFINE p == recs[r].proposal
           n == Operation[p] * Elegivel(recs, r)
<1>1. p \in Proposals
  BY DEF RecordsOK, ReceiptRow
<1>2. Operation[p] \in Nat /\ Commission[p] \in Nat \ {0}
  BY <1>1, ProposalsAssumption
<1>3. Elegivel(recs, r) \in Nat
  BY Eligible
<1>4. n \in Nat
  BY <1>2, <1>3
<1>5. Producao(recs, r) = Quantize(n, Commission[p])
  BY DEF Producao
<1> HIDE DEF n, p
<1> QED  BY <1>2, <1>4, <1>5, QuantizeRounds

\* Sums over receipts of natural numbers.
LEMMA ReceiptsSum ==
    ASSUME NEW f, DOMAIN f \subseteq Receipts, \A r \in DOMAIN f : f[r] \in Int
    PROVE  /\ SumFunction(f) \in Int
           /\ (\A r \in DOMAIN f : f[r] \in Nat) => SumFunction(f) \in Nat
<1>1. IsFiniteSet(DOMAIN f)
  BY ReceiptsAssumption, FS_Subset
<1>2. Numbers(f, DOMAIN f)
  BY DEF Numbers
<1>3. SumFunction(f) = SumIn(f, DOMAIN f) /\ SumIn(f, DOMAIN f) \in Int
  BY <1>1, <1>2, SumFunctionIn, SumInt
<1>4. (\A r \in DOMAIN f : f[r] \in Nat) => 0 <= SumIn(f, DOMAIN f)
  BY <1>1, SumOfPart
<1> QED  BY <1>3, <1>4

LEMMA MonthIsInteger ==
    ASSUME NEW recs, RecordsOK(recs), NEW c, NEW m
    PROVE  /\ \A r \in Receipts : ScaledShare(recs, r) \in Int
           /\ ScaledRight(recs, c, m) \in Int
<1>1. ASSUME NEW r \in Receipts PROVE ScaledShare(recs, r) \in Int
  <2> DEFINE d == ConsultantOf(recs, r)
             earlier == {s \in Mes(recs, d, Month(recs[r].date)) : Earlier(recs, s, r)}
             f == [s \in earlier |-> Producao(recs, s)]
             before == SumFunction(f)
  <2>1. earlier \subseteq Receipts
    BY DEF Mes, Liquidos, Approved
  <2>2. before \in Nat
    <3>1. DOMAIN f \subseteq Receipts /\ \A s \in DOMAIN f : f[s] \in Nat
      BY <2>1, ProducedIsNatural
    <3> HIDE DEF f
    <3> QED  BY <3>1, ReceiptsSum
  <2>3. recs[r].proposal \in Proposals /\ recs[r].date \in CalendarDays
    BY DEF RecordsOK, ReceiptRow
  <2>4. ValidScaled(ConfigOf(recs, r).scaled)
    BY <2>3, ConfigAssumption DEF ConfigOf, ValidConfig
  <2>5. Tps(recs[r].proposal) \in Nat /\ Producao(recs, r) \in Nat
    BY <2>3, TpsIsNatural, ProducedIsNatural
  <2>6. ScaledShare(recs, r) = IF PolicyOf(recs, r).excluded THEN 0
                               ELSE ConsultorEscalonado(ConfigOf(recs, r).scaled, Tps(recs[r].proposal),
                                        before, Producao(recs, r))
    BY DEF ScaledShare
  <2> HIDE DEF before
  <2>7. ConsultorEscalonado(ConfigOf(recs, r).scaled, Tps(recs[r].proposal), before, Producao(recs, r)) \in Int
    BY <2>2, <2>4, <2>5, ScaledIsInteger
  <2> QED  BY <2>6, <2>7
<1>2. ScaledRight(recs, c, m) \in Int
  <2> DEFINE f == [r \in Mes(recs, c, m) |-> ScaledShare(recs, r)]
  <2>1. DOMAIN f \subseteq Receipts /\ \A r \in DOMAIN f : f[r] \in Int
    BY <1>1 DEF Mes, Liquidos, Approved
  <2>2. ScaledRight(recs, c, m) = SumFunction(f)
    BY DEF ScaledRight
  <2> HIDE DEF f
  <2> QED  BY <2>1, <2>2, ReceiptsSum
<1> QED  BY <1>1, <1>2
-----------------------------------------------------------------------------
\* What a reversal of a scaled consultant settles.

\* b is a with more of it recognised and reversed.
Grown(a, b) ==
    \A r \in Receipts :
        /\ b[r].proposal = a[r].proposal /\ b[r].date = a[r].date /\ b[r].amount = a[r].amount
        /\ a[r].status = "APPROVED" => b[r].status = "APPROVED"
        /\ a[r].reversed <= b[r].reversed

ScaledLine(recs, e) ==
    /\ e \in Entry
    /\ e.beneficiary = ConsultantOf(recs, e.receipt)
    /\ e.reversal <= recs[e.receipt].reversed

\* A receipt of a scaled consultant has its credit.
Credited(recs, book, r) ==
    RoleOf(recs, r) = Scaled => CreditsOf(book, r, {"SCALED_CONSULTANT"}) # {}

Within(recs, p) == GrossOf(recs, p) <= Commission[p]

\* The month of c nets what its receipts are worth.
MonthSettled(recs, book, c, month) ==
    ScaledRight(recs, c, month)
        = Net(book, "SCALED_CONSULTANT", c, {q \in Receipts : Month(recs[q].date) = month})

BookScaled(recs, book) ==
    /\ IsFiniteSet(book)
    /\ \A e \in book : e.strategy = "SCALED_CONSULTANT" => ScaledLine(recs, e)
    /\ \A p \in Proposals : Within(recs, p) => \A r \in Of(recs, p) : Credited(recs, book, r)

\* What the request t of p leaves when it commits.
RecogniseScaled(recs, t, p) ==
    /\ t.holds = Consultant[p]
    /\ Within(After(recs, t.row), p) => \A r \in DOMAIN t.row : Credited(recs, t.adds, r)

ReverseScaled(recs, book, t, p) ==
    /\ \A r \in DOMAIN t.row : recs[r].status = "APPROVED"
    /\ t.holds # Consultant[p] /\ Within(recs, p) =>
           \A r \in DOMAIN t.row : RoleOf(recs, r) # Scaled
    /\ t.holds = Consultant[p] /\ (\A q \in Proposals : Consultant[q] = Consultant[p] => Within(recs, q)) =>
           \A r \in DOMAIN t.row :
               MonthSettled(After(recs, t.row), book \union t.adds, Consultant[p], Month(recs[r].date))

TxScaled(recs, book, t, p) ==
    /\ IsFiniteSet(t.adds)
    /\ Grown(recs, After(recs, t.row))
    /\ \A e \in t.adds : e.strategy = "SCALED_CONSULTANT" =>
           ScaledLine(After(recs, t.row), e) /\ e.beneficiary = t.holds
    /\ t.kind \in {"recognise", "reverse"}
    /\ t.kind = "recognise" => RecogniseScaled(recs, t, p)
    /\ t.kind = "reverse" => ReverseScaled(recs, book, t, p)

SInv ==
    /\ BookScaled(receipts, entries)
    /\ \A p \in Proposals : tx[p] # Idle => TxScaled(receipts, entries, tx[p], p)

LEMMA GrownLine ==
    ASSUME NEW a, RecordsOK(a), NEW b, RecordsOK(b), Grown(a, b), NEW e, ScaledLine(a, e)
    PROVE  ScaledLine(b, e)
<1>1. e \in Entry /\ e.beneficiary = ConsultantOf(a, e.receipt) /\ e.reversal <= a[e.receipt].reversed
  BY DEF ScaledLine
<1>2. e.receipt \in Receipts /\ e.reversal \in Nat
  BY <1>1 DEF Entry
<1>3. /\ b[e.receipt].proposal = a[e.receipt].proposal
      /\ a[e.receipt].reversed <= b[e.receipt].reversed
      /\ a[e.receipt].reversed \in Nat /\ b[e.receipt].reversed \in Nat
  BY <1>2 DEF Grown, RecordsOK, ReceiptRow
<1> QED  BY <1>1, <1>2, <1>3 DEF ScaledLine, ConsultantOf

LEMMA GrownRoles ==
    ASSUME NEW a, NEW b, Grown(a, b), NEW r \in Receipts
    PROVE  RoleOf(b, r) = RoleOf(a, r) /\ ConsultantOf(b, r) = ConsultantOf(a, r)
BY DEF Grown, RoleOf, ConsultantOf

LEMMA GrownWithin ==
    ASSUME NEW a, RecordsOK(a), NEW b, RecordsOK(b), Grown(a, b), NEW p \in Proposals, Within(b, p)
    PROVE  Within(a, p)
<1>1. Of(a, p) \subseteq Of(b, p)
  BY DEF Grown, Of, Approved
<1>2. \A r \in Receipts : b[r].amount = a[r].amount
  BY DEF Grown
<1>3. GrossOf(a, p) <= GrossOf(b, p)
  BY <1>1, <1>2, GrossGrows
<1>4. GrossOf(a, p) \in Nat /\ GrossOf(b, p) \in Nat /\ Commission[p] \in Nat
  BY GrossFacts, ProposalsAssumption
<1> QED  BY <1>3, <1>4 DEF Within

\* No recognition in between: what is within the commission stays so.
LEMMA SameWithin ==
    ASSUME NEW a, NEW b, Grown(a, b), NEW p, Within(a, p),
           \A r \in Receipts : b[r].status = "APPROVED" => a[r].status = "APPROVED"
    PROVE  Within(b, p)
<1>1. Of(a, p) = Of(b, p)
  BY DEF Grown, Of, Approved
<1>2. [r \in Of(a, p) |-> a[r].amount] = [r \in Of(b, p) |-> b[r].amount]
  BY <1>1 DEF Grown, Of, Approved
<1> QED  BY <1>2 DEF Within, GrossOf

LEMMA WithinInFull ==
    ASSUME NEW recs, RecordsOK(recs), NEW p \in Proposals, Within(recs, p), NEW r \in Of(recs, p)
    PROVE  Elegivel(recs, r) = Liquido(recs[r])
<1>1. Total(recs, Of(recs, p)) <= GrossOf(recs, p) /\ GrossOf(recs, p) \in Nat
  BY GrossFacts
<1>2. Total(recs, Of(recs, p)) \in Nat /\ Commission[p] \in Nat
  BY Totals, OfIsFinite, ProposalsAssumption
<1>3. Total(recs, Of(recs, p)) <= Commission[p]
  BY <1>1, <1>2 DEF Within
<1> QED  BY <1>3, EligibleInFull

\* The month of a consultant goes by his own receipts.
LEMMA MonthSame ==
    ASSUME NEW a, NEW b, NEW c, NEW m,
           \A r \in Receipts : b[r].proposal = a[r].proposal /\ b[r].date = a[r].date,
           \A r \in Receipts : ConsultantOf(a, r) = c /\ RoleOf(a, r) = Scaled =>
               /\ a[r].status = "APPROVED" <=> b[r].status = "APPROVED"
               /\ a[r].status = "APPROVED" => Elegivel(a, r) = Elegivel(b, r)
    PROVE  ScaledRight(a, c, m) = ScaledRight(b, c, m)
<1>1. \A r \in Receipts : /\ b[r].proposal = a[r].proposal /\ b[r].date = a[r].date
                          /\ RoleOf(b, r) = RoleOf(a, r) /\ ConsultantOf(b, r) = ConsultantOf(a, r)
                          /\ PolicyOf(b, r) = PolicyOf(a, r) /\ ConfigOf(b, r) = ConfigOf(a, r)
  BY DEF RoleOf, ConsultantOf, PolicyOf, ConfigOf
<1>2. \A n : Mes(b, c, n) = Mes(a, c, n)
  BY <1>1 DEF Mes, Liquidos, Approved
<1>3. \A n : \A r \in Mes(a, c, n) :
          /\ r \in Receipts /\ ConsultantOf(a, r) = c /\ Elegivel(b, r) = Elegivel(a, r)
          /\ Producao(b, r) = Producao(a, r)
  BY <1>1 DEF Mes, Liquidos, Approved, Producao
<1>4. \A r, s \in Receipts : Earlier(b, r, s) <=> Earlier(a, r, s)
  BY <1>1 DEF Earlier
<1>5. ASSUME NEW r \in Mes(a, c, m) PROVE ScaledShare(b, r) = ScaledShare(a, r)
  <2> DEFINE n == Month(a[r].date)
             x == {s \in Mes(a, c, n) : Earlier(a, s, r)}
             y == {s \in Mes(b, c, n) : Earlier(b, s, r)}
             f == SumFunction([s \in x |-> Producao(a, s)])
             g == SumFunction([s \in y |-> Producao(b, s)])
  <2>1. r \in Receipts /\ ConsultantOf(a, r) = c /\ ConsultantOf(b, r) = c
    BY <1>1, <1>3
  <2>2. x = y
    BY <1>2, <1>3, <1>4, <2>1
  <2>3. \A s \in x : Producao(a, s) = Producao(b, s)
    BY <1>3
  <2> HIDE DEF x, y
  <2>4. [s \in x |-> Producao(a, s)] = [s \in y |-> Producao(b, s)]
    BY <2>2, <2>3
  <2>5. f = g
    BY <2>4
  <2>6. ScaledShare(a, r) = IF PolicyOf(a, r).excluded THEN 0
                            ELSE ConsultorEscalonado(ConfigOf(a, r).scaled, Tps(a[r].proposal), f, Producao(a, r))
    BY <2>1 DEF ScaledShare, x
  <2>7. ScaledShare(b, r) = IF PolicyOf(b, r).excluded THEN 0
                            ELSE ConsultorEscalonado(ConfigOf(b, r).scaled, Tps(b[r].proposal), g, Producao(b, r))
    BY <1>1, <2>1 DEF ScaledShare, y
  <2> HIDE DEF f, g
  <2> QED  BY <1>1, <1>3, <2>1, <2>5, <2>6, <2>7
<1>6. [r \in Mes(a, c, m) |-> ScaledShare(a, r)] = [r \in Mes(b, c, m) |-> ScaledShare(b, r)]
  BY <1>2, <1>5
<1> QED  BY <1>6 DEF ScaledRight

-----------------------------------------------------------------------------
\* What the scaled engine writes.

LEMMA ImageIsFinite ==
    ASSUME NEW f, IsFiniteSet(DOMAIN f)
    PROVE  IsFiniteSet({f[x] : x \in DOMAIN f})
<1> DEFINE S == DOMAIN f
           T == {f[x] : x \in DOMAIN f}
           g == [x \in S |-> f[x]]
<1>1. g \in [S -> T]
  OBVIOUS
<1>2. \A y \in T : \E x \in S : g[x] = y
  OBVIOUS
<1>3. g \in Surjection(S, T)
  BY <1>1, <1>2 DEF Surjection
<1> HIDE DEF g, T, S
<1>4. IsFiniteSet(S)
  BY DEF S
<1>5. IsFiniteSet(T)
  BY <1>3, <1>4, FS_Surjection
<1> QED  BY <1>5 DEF T

LEMMA CreditsAreFinite ==
    ASSUME NEW recs, NEW book, NEW p
    PROVE  IsFiniteSet(NewCredits(recs, book, p))
<1> DEFINE c == Consultant[p]
           M == UNION {Mes(recs, c, month) : month \in {Month(recs[r].date) : r \in Of(recs, p)}}
           G == {q \in (Of(recs, p) \intersect Liquidos(recs)) \X Groups : Earns(recs, q[2], q[1])}
           D == {s \in Of(recs, p) \intersect Liquidos(recs) : RoleOf(recs, s) # Scaled}
           m == [r \in M |-> NewCredit(recs, r, "SCALED_CONSULTANT", c, ScaledShare(recs, r))]
           g == [q \in G |-> NewCredit(recs, q[1], q[2], Beneficiary(recs, q[2], q[1]),
                                 GroupShare(recs, q[2], q[1], Beneficiary(recs, q[2], q[1])))]
           d == [r \in D |-> NewCredit(recs, r, "STANDARD_CONSULTANT", c, StandardShare(recs, r))]
<1>1. M \subseteq Receipts /\ D \subseteq Receipts /\ G \subseteq Receipts \X Groups
  BY DEF Mes, Of, Liquidos, Approved
<1>2. IsFiniteSet(Groups)
  <2>1. Groups = (({"COMMERCIAL_LEADER"} \union {"GENERAL_MEI_LEADER"}) \union {"FINALIZER"})
                     \union {"FINALIZATION_LEADER"}
    BY DEF Groups
  <2>2. IsFiniteSet({"COMMERCIAL_LEADER"})
    BY FS_Singleton
  <2> QED  BY <2>1, <2>2, FS_AddElement
<1>3. IsFiniteSet(Receipts \X Groups)
  BY <1>2, ReceiptsAssumption, FS_Product
<1>4. IsFiniteSet(M) /\ IsFiniteSet(D) /\ IsFiniteSet(G)
  <2> HIDE DEF M, D, G
  <2> QED  BY <1>1, <1>3, ReceiptsAssumption, FS_Subset
<1>5. /\ ScaledCredits(recs, p) = {m[x] : x \in DOMAIN m} /\ DOMAIN m = M
      /\ GroupCredits(recs, p) = {g[x] : x \in DOMAIN g} /\ DOMAIN g = G
      /\ StandardCredits(recs, p) = {d[x] : x \in DOMAIN d} /\ DOMAIN d = D
  BY DEF ScaledCredits, GroupCredits, StandardCredits
<1> HIDE DEF m, g, d, M, G, D
<1>6. IsFiniteSet(ScaledCredits(recs, p)) /\ IsFiniteSet(GroupCredits(recs, p))
      /\ IsFiniteSet(StandardCredits(recs, p))
  BY <1>4, <1>5, ImageIsFinite
<1>7. IsFiniteSet(ScaledCredits(recs, p) \union GroupCredits(recs, p) \union StandardCredits(recs, p))
  BY <1>6, FS_Union
<1>8. NewCredits(recs, book, p)
          \subseteq ScaledCredits(recs, p) \union GroupCredits(recs, p) \union StandardCredits(recs, p)
  BY DEF NewCredits
<1> QED  BY <1>7, <1>8, FS_Subset

LEMMA DebitsAreFinite ==
    ASSUME NEW recs, NEW book, IsFiniteSet(book), NEW r, NEW reversal, NEW amount
    PROVE  IsFiniteSet(NewDebits(recs, book, r, reversal, amount))
<1> DEFINE G == {f \in CreditsOf(book, r, Groups) : GroupDifference(recs, book, f) < 0}
           D == CreditsOf(book, r, {"STANDARD_CONSULTANT"})
           M == CreditsOf(book, r, {"SCALED_CONSULTANT"})
           g == [e \in G |-> NewDebit(e, reversal, GroupDifference(recs, book, e))]
           d == [e \in D |-> NewDebit(e, reversal,
                     -Percent(Reduction(recs, recs[r].proposal, amount), PercentualDe(recs, r)))]
           m == [e \in M |-> NewDebit(e, reversal, ScaledDifference(recs, book, r))]
<1>1. G \subseteq book /\ D \subseteq book /\ M \subseteq book
  BY DEF CreditsOf
<1>2. /\ GroupDebits(recs, book, r, reversal) = {g[x] : x \in DOMAIN g} /\ DOMAIN g = G
      /\ StandardDebits(recs, book, r, reversal, amount) = {d[x] : x \in DOMAIN d} /\ DOMAIN d = D
      /\ ScaledDebits(recs, book, r, reversal) = {m[x] : x \in DOMAIN m} /\ DOMAIN m = M
  BY DEF GroupDebits, StandardDebits, ScaledDebits
<1> HIDE DEF g, d, m, G, D, M
<1>3. IsFiniteSet(G) /\ IsFiniteSet(D) /\ IsFiniteSet(M)
  BY <1>1, FS_Subset
<1>4. /\ IsFiniteSet(GroupDebits(recs, book, r, reversal))
      /\ IsFiniteSet(StandardDebits(recs, book, r, reversal, amount))
      /\ IsFiniteSet(ScaledDebits(recs, book, r, reversal))
  BY <1>2, <1>3, ImageIsFinite
<1>5. CASE IsScaled(book, r)
  <2>1. NewDebits(recs, book, r, reversal, amount)
            = GroupDebits(recs, book, r, reversal) \union ScaledDebits(recs, book, r, reversal)
    BY <1>5 DEF NewDebits
  <2> QED  BY <1>4, <2>1, FS_Union
<1>6. CASE ~IsScaled(book, r)
  <2>1. NewDebits(recs, book, r, reversal, amount)
            = GroupDebits(recs, book, r, reversal) \union StandardDebits(recs, book, r, reversal, amount)
    BY <1>6 DEF NewDebits
  <2> QED  BY <1>4, <2>1, FS_Union
<1> QED  BY <1>5, <1>6

LEMMA ScaledCreditsAre ==
    ASSUME NEW recs, RecordsOK(recs), NEW book, NEW p \in Proposals,
           NEW e \in NewCredits(recs, book, p), e.strategy = "SCALED_CONSULTANT"
    PROVE  ScaledLine(recs, e) /\ e.beneficiary = Consultant[p]
<1>1. ~(e \in GroupCredits(recs, p)) /\ ~(e \in StandardCredits(recs, p))
  BY DEF GroupCredits, StandardCredits, NewCredit, Groups
<1>2. PICK r \in UNION {Mes(recs, Consultant[p], month) : month \in {Month(recs[q].date) : q \in Of(recs, p)}} :
          e = NewCredit(recs, r, "SCALED_CONSULTANT", Consultant[p], ScaledShare(recs, r))
  BY <1>1 DEF NewCredits, ScaledCredits
<1>3. r \in Receipts /\ ConsultantOf(recs, r) = Consultant[p]
  BY DEF Mes, Liquidos, Approved
<1>4. Consultant[p] \in People /\ Elegivel(recs, r) \in Nat /\ ScaledShare(recs, r) \in Int
      /\ recs[r].reversed \in Nat
  BY <1>3, ProposalsAssumption, Eligible, MonthIsInteger DEF RecordsOK, ReceiptRow
<1>5. e = [receipt |-> r, beneficiary |-> Consultant[p], strategy |-> "SCALED_CONSULTANT",
           eligible |-> Elegivel(recs, r), amount |-> ScaledShare(recs, r), reversal |-> 0]
  BY <1>2 DEF NewCredit
<1>6. e \in Entry
  BY <1>3, <1>4, <1>5 DEF Entry, Strategies
<1> QED  BY <1>3, <1>4, <1>5, <1>6 DEF ScaledLine

LEMMA ScaledIsCredited ==
    ASSUME NEW recs, RecordsOK(recs), NEW p \in Proposals, NEW r \in Of(recs, p), Elegivel(recs, r) > 0,
           NEW book, \A f \in book : f.receipt # r
    PROVE  Credited(recs, NewCredits(recs, book, p), r)
<1> SUFFICES ASSUME RoleOf(recs, r) = Scaled
             PROVE  CreditsOf(NewCredits(recs, book, p), r, {"SCALED_CONSULTANT"}) # {}
  BY DEF Credited
<1> DEFINE c == Consultant[p]
           e == NewCredit(recs, r, "SCALED_CONSULTANT", c, ScaledShare(recs, r))
<1>1. r \in Mes(recs, c, Month(recs[r].date))
  BY DEF Of, Mes, Liquidos, Approved, ConsultantOf
<1>2. e \in ScaledCredits(recs, p)
  BY <1>1 DEF ScaledCredits
<1>3. e.receipt = r /\ e.reversal = 0 /\ e.strategy = "SCALED_CONSULTANT"
  BY DEF NewCredit
<1> HIDE DEF e
<1>4. e \in NewCredits(recs, book, p)
  BY <1>2, <1>3 DEF NewCredits, SameOrigin
<1>5. e \in CreditsOf(NewCredits(recs, book, p), r, {"SCALED_CONSULTANT"})
  BY <1>3, <1>4 DEF CreditsOf, IsCredit
<1> QED  BY <1>5

LEMMA ScaledDebitsAre ==
    ASSUME NEW recs, RecordsOK(recs), NEW book, \A e \in book : EntryOK(recs, e),
           NEW r \in Receipts, NEW reversal, NEW amount,
           NEW e \in NewDebits(recs, book, r, reversal, amount), e.strategy = "SCALED_CONSULTANT"
    PROVE  /\ IsScaled(book, r)
           /\ e \in ScaledDebits(recs, book, r, reversal)
<1>1. ASSUME NEW f \in book, NEW value, NEW d, d = NewDebit(f, reversal, value)
      PROVE  d.strategy = f.strategy
  BY <1>1 DEF NewDebit, EntryOK
<1>2. ~(e \in GroupDebits(recs, book, r, reversal))
  <2> SUFFICES ASSUME e \in GroupDebits(recs, book, r, reversal) PROVE FALSE
    OBVIOUS
  <2>1. PICK f \in book : f.strategy \in Groups /\ e = NewDebit(f, reversal, GroupDifference(recs, book, f))
    BY DEF GroupDebits, CreditsOf
  <2> QED  BY <1>1, <2>1 DEF Groups
<1>3. ~(e \in StandardDebits(recs, book, r, reversal, amount))
  <2> SUFFICES ASSUME e \in StandardDebits(recs, book, r, reversal, amount) PROVE FALSE
    OBVIOUS
  <2>1. PICK f \in book : /\ f.strategy = "STANDARD_CONSULTANT"
                          /\ \E value : e = NewDebit(f, reversal, value)
    BY DEF StandardDebits, CreditsOf
  <2> QED  BY <1>1, <2>1
<1> QED  BY <1>2, <1>3 DEF NewDebits

\* A reversal of r debits the one credit r has.
LEMMA OneDebit ==
    ASSUME NEW recs, NEW book, NEW r \in Receipts, NEW reversal,
           \A e \in book : e.strategy = "SCALED_CONSULTANT" => e \in Entry /\ e.beneficiary = ConsultantOf(recs, e.receipt),
           \A e, f \in book : IsCredit(e) /\ IsCredit(f) /\ SameOrigin(e, f) => e = f,
           IsScaled(book, r)
    PROVE  \E f \in book : /\ f \in Entry /\ f.strategy = "SCALED_CONSULTANT" /\ f.receipt = r
                           /\ f.beneficiary = ConsultantOf(recs, r)
                           /\ ScaledDebits(recs, book, r, reversal)
                                  = {NewDebit(f, reversal, ScaledDifference(recs, book, r))}
<1>1. PICK f \in CreditsOf(book, r, {"SCALED_CONSULTANT"}) : TRUE
  BY DEF IsScaled
<1>2. f \in book /\ IsCredit(f) /\ f.receipt = r /\ f.strategy = "SCALED_CONSULTANT"
  BY <1>1 DEF CreditsOf
<1>3. \A g \in CreditsOf(book, r, {"SCALED_CONSULTANT"}) : g = f
  <2> TAKE g \in CreditsOf(book, r, {"SCALED_CONSULTANT"})
  <2>1. g \in book /\ IsCredit(g) /\ g.receipt = r /\ g.strategy = "SCALED_CONSULTANT"
    BY DEF CreditsOf
  <2>2. SameOrigin(g, f)
    BY <1>2, <2>1 DEF SameOrigin
  <2> QED  BY <1>2, <2>1, <2>2
<1>4. CreditsOf(book, r, {"SCALED_CONSULTANT"}) = {f}
  BY <1>1, <1>3
<1>5. ScaledDebits(recs, book, r, reversal) = {NewDebit(f, reversal, ScaledDifference(recs, book, r))}
  BY <1>4 DEF ScaledDebits
<1> QED  BY <1>2, <1>5

LEMMA ReversalSettles ==
    ASSUME NEW recs, RecordsOK(recs), NEW book, IsFiniteSet(book), \A e \in book : EntryOK(recs, e),
           \A e \in book : e.strategy = "SCALED_CONSULTANT" => e \in Entry /\ e.beneficiary = ConsultantOf(recs, e.receipt),
           \A e, f \in book : IsCredit(e) /\ IsCredit(f) /\ SameOrigin(e, f) => e = f,
           NEW r \in Receipts, IsScaled(book, r), NEW reversal \in Nat, NEW amount,
           \A e \in book : e.strategy = "SCALED_CONSULTANT" /\ e.receipt = r => e.reversal # reversal
    PROVE  /\ \A d \in NewDebits(recs, book, r, reversal, amount) : d.strategy = "SCALED_CONSULTANT" =>
                  /\ d \in Entry /\ d.receipt = r /\ d.beneficiary = ConsultantOf(recs, r)
                  /\ d.reversal = reversal
           /\ MonthSettled(recs, book \union NewDebits(recs, book, r, reversal, amount),
                           ConsultantOf(recs, r), Month(recs[r].date))
<1> DEFINE c == ConsultantOf(recs, r)
           m == Month(recs[r].date)
           Q == {q \in Receipts : Month(recs[q].date) = m}
           adds == NewDebits(recs, book, r, reversal, amount)
           Mine(B) == {e \in B : e.strategy = "SCALED_CONSULTANT" /\ e.beneficiary = c /\ e.receipt \in Q}
           right == ScaledRight(recs, c, m)
           net == NetOf(Mine(book))
           value == ScaledDifference(recs, book, r)
<1>1. PICK f \in book : /\ f \in Entry /\ f.strategy = "SCALED_CONSULTANT" /\ f.receipt = r
                        /\ f.beneficiary = c
                        /\ ScaledDebits(recs, book, r, reversal) = {NewDebit(f, reversal, value)}
  BY OneDebit
<1> DEFINE d == NewDebit(f, reversal, value)
<1>2. \A B : Net(B, "SCALED_CONSULTANT", c, Q) = NetOf(Mine(B))
  BY DEF Net
<1>3. right \in Int /\ net \in Int /\ IsFiniteSet(Mine(book)) /\ \A e \in Mine(book) : e.amount \in Int
  <2>1. \A e \in Mine(book) : e \in Entry
    OBVIOUS
  <2>2. \A e \in Mine(book) : e.amount \in Int
    BY <2>1 DEF Entry
  <2>3. Mine(book) \subseteq book
    OBVIOUS
  <2> HIDE DEF Mine
  <2>4. IsFiniteSet(Mine(book))
    BY <2>3, FS_Subset
  <2> QED  BY <2>2, <2>4, NetGrows, MonthIsInteger
<1>4. value = right - net
  BY <1>2 DEF ScaledDifference
<1> HIDE DEF right, net, value
<1>5. value \in Int
  BY <1>3, <1>4
<1>6. /\ d \in Entry /\ d.strategy = "SCALED_CONSULTANT" /\ d.receipt = r /\ d.beneficiary = c
      /\ d.reversal = reversal /\ d.amount = value
  <2>1. d = [f EXCEPT !.reversal = reversal, !.amount = value]
    BY DEF NewDebit
  <2> HIDE DEF d
  <2> QED  BY <1>1, <1>5, <2>1 DEF Entry
<1>7. d \in adds
  BY <1>1 DEF NewDebits
<1> HIDE DEF d
<1>8. \A e \in adds : e.strategy = "SCALED_CONSULTANT" => e = d
  <2>1. ScaledDebits(recs, book, r, reversal) = {d}
    BY <1>1 DEF d
  <2> QED  BY <2>1, ScaledDebitsAre
<1> HIDE DEF adds
<1>9. d \notin book
  BY <1>6
<1>10. Mine(book \union adds) = Mine(book) \union {d}
  <2>1. r \in Q
    OBVIOUS
  <2> QED  BY <1>6, <1>7, <1>8, <2>1
<1>11. NetOf(Mine(book) \union {d}) = net + value
  <2>1. d \notin Mine(book)
    BY <1>9
  <2> HIDE DEF Mine
  <2> QED  BY <1>3, <1>5, <1>6, <2>1, NetGrows DEF net
<1>12. MonthSettled(recs, book \union adds, c, m)
  <2>1. net + value = right
    BY <1>3, <1>4
  <2>2. Net(book \union adds, "SCALED_CONSULTANT", c, Q) = right
    BY <1>2, <1>10, <1>11, <2>1
  <2> QED  BY <2>2 DEF MonthSettled, right
<1> QED  BY <1>6, <1>8, <1>12 DEF adds

-----------------------------------------------------------------------------
\* The invariant is kept.

LEMMA SInvBegins ==
    ASSUME MInv, SInv, NEW p \in Proposals, NEW request, tx' = [tx EXCEPT ![p] = request],
           UNCHANGED <<receipts, entries>>, TxScaled(receipts, entries, request, p)
    PROVE  SInv'
<1>1. \A q \in Proposals : tx'[q] = IF q = p THEN request ELSE tx[q]
  BY DEF MInv
<1>2. receipts' = receipts /\ entries' = entries
  OBVIOUS
<1>3. \A q \in Proposals : tx'[q] # Idle => TxScaled(receipts, entries, tx'[q], q)
  BY <1>1 DEF SInv
<1>4. BookScaled(receipts, entries)
  BY DEF SInv
<1> QED  BY <1>2, <1>3, <1>4 DEF SInv

LEMMA SInvRecognises ==
    ASSUME MInv, MInv', GInv, SInv, NEW p \in Proposals, NEW S \in SUBSET Receipts, BeginRecognise(p, S)
    PROVE  SInv'
<1> DEFINE recs == [r \in Receipts |->
                       IF r \in S THEN [receipts[r] EXCEPT !.status = "APPROVED"] ELSE receipts[r]]
           adds == NewCredits(recs, entries, p)
           row == [r \in S |-> recs[r]]
           request == Request("recognise", Consultant[p], row, adds)
<1>1. /\ tx' = [tx EXCEPT ![p] = request] /\ UNCHANGED <<receipts, entries>>
      /\ \A r \in S : receipts[r].proposal = p /\ receipts[r].status = "SUBMITTED"
  BY DEF BeginRecognise
<1>2. RecordsOK(receipts) /\ Untouched(receipts)
  BY DEF MInv, BookMoney
<1>3. \A r \in Receipts : /\ SameReceipt(receipts[r], recs[r])
                          /\ recs[r].status = IF r \in S THEN "APPROVED" ELSE receipts[r].status
  BY <1>2 DEF RecordsOK, ReceiptRow, SameReceipt
<1>4. /\ request.row = row /\ request.adds = adds /\ request.kind = "recognise"
      /\ request.holds = Consultant[p] /\ request # Idle
      /\ DOMAIN row = S /\ After(receipts, row) = recs
  BY DEF Request, After, Idle
<1> HIDE DEF recs, row, request
<1>5. RecordsOK(recs)
  <2>1. tx'[p] = request
    BY <1>1 DEF MInv
  <2>2. TxMoney(receipts, entries, request, p)
    BY <1>1, <1>4, <2>1 DEF MInv
  <2> QED  BY <1>4, <2>2 DEF TxMoney
<1>6. Grown(receipts, recs)
  <2>1. \A r \in Receipts : receipts[r].reversed \in Nat
    BY <1>2 DEF RecordsOK, ReceiptRow
  <2> QED  BY <1>3, <2>1 DEF Grown, SameReceipt
<1>7. IsFiniteSet(adds)
  BY CreditsAreFinite
<1>8. \A e \in adds : e.strategy = "SCALED_CONSULTANT" =>
          ScaledLine(recs, e) /\ e.beneficiary = Consultant[p]
  BY <1>5, ScaledCreditsAre
<1>9. ASSUME Within(recs, p), NEW r \in S PROVE Credited(receipts, adds, r)
  <2>1. r \in Of(recs, p)
    BY <1>1, <1>3 DEF Of, Approved, SameReceipt
  <2>2. Elegivel(recs, r) = Liquido(recs[r])
    BY <1>5, <1>9, <2>1, WithinInFull
  <2>3. Liquido(recs[r]) > 0
    <3>1. receipts[r].reversed = 0 /\ receipts[r].amount > 0
      BY <1>1, <1>2 DEF Untouched
    <3>2. recs[r].reversed = 0 /\ recs[r].amount > 0
      BY <1>3, <3>1 DEF SameReceipt
    <3>3. Liquido(recs[r]) = recs[r].amount - recs[r].reversed /\ recs[r].amount \in Nat
      BY <1>5, KeptIsNatural
    <3> QED  BY <3>2, <3>3
  <2>4. \A f \in entries : f.receipt # r
    BY <1>1 DEF GInv, BookGranted
  <2>5. Credited(recs, adds, r)
    BY <1>5, <2>1, <2>2, <2>3, <2>4, ScaledIsCredited
  <2>6. RoleOf(recs, r) = RoleOf(receipts, r)
    BY <1>6, GrownRoles
  <2> QED  BY <2>5, <2>6 DEF Credited
<1> HIDE DEF adds
<1>10. RecogniseScaled(receipts, request, p)
  BY <1>4, <1>9 DEF RecogniseScaled
<1>11. TxScaled(receipts, entries, request, p)
  BY <1>4, <1>6, <1>7, <1>8, <1>10 DEF TxScaled
<1> QED  BY <1>1, <1>11, SInvBegins

LEMMA SInvReverses ==
    ASSUME LInv, MInv, MInv', GInv, SInv, NEW r \in Receipts, NEW x \in Int, BeginReverse(r, x),
           NEW p \in Proposals, p = receipts[r].proposal
    PROVE  SInv'
<1> DEFINE recs == Reversed(r, x)
           adds == NewDebits(recs, entries, r, recs[r].reversed, x)
           row == [q \in {r} |-> recs[q]]
           c == Consultant[p]
           request == Request("reverse", IF IsScaled(entries, r) THEN c ELSE NoOne, row, adds)
<1>1. /\ tx' = [tx EXCEPT ![p] = request] /\ UNCHANGED <<receipts, entries>>
      /\ receipts[r].status = "APPROVED" /\ 0 < x
  BY DEF BeginReverse
<1>2. RecordsOK(receipts) /\ \A e \in entries : EntryOK(receipts, e)
  BY DEF MInv, BookMoney
<1>3. /\ \A q \in Receipts : q # r => recs[q] = receipts[q]
      /\ \A q \in Receipts : recs[q].proposal = receipts[q].proposal /\ recs[q].date = receipts[q].date
             /\ recs[q].amount = receipts[q].amount /\ recs[q].status = receipts[q].status
      /\ recs[r].reversed = receipts[r].reversed + x
  BY <1>2 DEF Reversed, RecordsOK, ReceiptRow
<1>4. /\ request.row = row /\ request.adds = adds /\ request.kind = "reverse"
      /\ request.holds = (IF IsScaled(entries, r) THEN c ELSE NoOne) /\ request # Idle
      /\ DOMAIN row = {r} /\ row[r] = recs[r]
  BY DEF Request, Idle
<1>5. After(receipts, row) = recs
  <2>1. recs = [q \in Receipts |-> recs[q]]
    BY <1>2 DEF Reversed, RecordsOK
  <2> HIDE DEF recs, row
  <2> QED  BY <1>3, <1>4, <2>1 DEF After
<1> HIDE DEF recs, row, request
<1>6. RecordsOK(recs)
  <2>1. tx'[p] = request
    BY <1>1 DEF MInv
  <2>2. TxMoney(receipts, entries, request, p)
    BY <1>1, <1>4, <2>1 DEF MInv
  <2> QED  BY <1>4, <1>5, <2>2 DEF TxMoney
<1>7. Grown(receipts, recs) /\ recs[r].reversed \in Nat /\ receipts[r].reversed < recs[r].reversed
  <2>1. \A q \in Receipts : receipts[q].reversed \in Nat /\ recs[q].reversed \in Nat
    BY <1>2, <1>6 DEF RecordsOK, ReceiptRow
  <2>2. \A q \in Receipts : receipts[q].reversed <= recs[q].reversed
    BY <1>1, <1>3, <2>1
  <2> QED  BY <1>1, <1>3, <2>1, <2>2 DEF Grown
<1>8. IsFiniteSet(entries) /\ \A e \in entries : e.strategy = "SCALED_CONSULTANT" => ScaledLine(receipts, e)
  BY DEF SInv, BookScaled
<1>9. IsFiniteSet(adds)
  BY <1>8, DebitsAreFinite
<1>10. \A q \in Receipts : RoleOf(recs, q) = RoleOf(receipts, q) /\ ConsultantOf(recs, q) = ConsultantOf(receipts, q)
  BY <1>7, GrownRoles
<1>11. ConsultantOf(recs, r) = c /\ c \in People /\ NoOne # c
  BY <1>3, ProposalsAssumption, NoOneAssumption DEF ConsultantOf
<1>12. \A e \in entries : EntryOK(recs, e)
  BY <1>2, <1>10 DEF EntryOK
<1>13. ASSUME ~IsScaled(entries, r), NEW e \in adds PROVE e.strategy # "SCALED_CONSULTANT"
  BY <1>6, <1>12, <1>13, ScaledDebitsAre
<1>14. ASSUME ~IsScaled(entries, r), Within(receipts, p) PROVE RoleOf(receipts, r) # Scaled
  <2>1. r \in Of(receipts, p)
    BY <1>1 DEF Of, Approved
  <2>2. Credited(receipts, entries, r)
    BY <1>14, <2>1 DEF SInv, BookScaled
  <2> QED  BY <1>14, <2>2 DEF Credited, IsScaled
<1>15. ASSUME IsScaled(entries, r)
       PROVE  /\ \A d \in adds : d.strategy = "SCALED_CONSULTANT" => ScaledLine(recs, d) /\ d.beneficiary = c
              /\ MonthSettled(recs, entries \union adds, c, Month(receipts[r].date))
  <2>1. \A e \in entries : e.strategy = "SCALED_CONSULTANT" =>
            e \in Entry /\ e.beneficiary = ConsultantOf(recs, e.receipt)
    BY <1>8, <1>10 DEF ScaledLine, Entry
  <2>2. \A e, f \in entries : IsCredit(e) /\ IsCredit(f) /\ SameOrigin(e, f) => e = f
    BY DEF LInv, OneCredit
  <2>3. \A e \in entries : e.strategy = "SCALED_CONSULTANT" /\ e.receipt = r => e.reversal # recs[r].reversed
    <3> SUFFICES ASSUME NEW e \in entries, e.strategy = "SCALED_CONSULTANT", e.receipt = r
                 PROVE  e.reversal # recs[r].reversed
      OBVIOUS
    <3>1. e.reversal <= receipts[r].reversed /\ e.reversal \in Nat
      BY <1>8 DEF ScaledLine, Entry
    <3>2. receipts[r].reversed \in Nat
      BY <1>2 DEF RecordsOK, ReceiptRow
    <3> QED  BY <1>7, <3>1, <3>2
  <2>4. /\ \A d \in adds : d.strategy = "SCALED_CONSULTANT" =>
               /\ d \in Entry /\ d.receipt = r /\ d.beneficiary = ConsultantOf(recs, r)
               /\ d.reversal = recs[r].reversed
        /\ MonthSettled(recs, entries \union adds, ConsultantOf(recs, r), Month(recs[r].date))
    BY <1>6, <1>7, <1>8, <1>12, <1>15, <2>1, <2>2, <2>3, ReversalSettles
  <2> HIDE DEF adds
  <2> QED  BY <1>3, <1>7, <1>11, <2>4 DEF ScaledLine
<1> HIDE DEF adds, c
<1>16. ReverseScaled(receipts, entries, request, p)
  BY <1>1, <1>4, <1>5, <1>11, <1>14, <1>15 DEF ReverseScaled, c
<1>17. \A e \in adds : e.strategy = "SCALED_CONSULTANT" => ScaledLine(recs, e) /\ e.beneficiary = request.holds
  BY <1>4, <1>13, <1>15
<1>18. TxScaled(receipts, entries, request, p)
  BY <1>4, <1>5, <1>7, <1>9, <1>16, <1>17 DEF TxScaled
<1> QED  BY <1>1, <1>18, SInvBegins

\* The month stays settled while others commit: nobody else writes for the
\* consultant, and what is reversed without his lock was never scaled.
LEMMA MonthStays ==
    ASSUME NEW a, RecordsOK(a), NEW b, RecordsOK(b), Grown(a, b), NEW c \in People,
           \A p \in Proposals : Consultant[p] = c => Within(a, p) /\ Within(b, p),
           \A r \in Receipts : ConsultantOf(a, r) = c /\ RoleOf(a, r) = Scaled => a[r] = b[r],
           NEW book, NEW more,
           \A e \in more : ~(e.strategy = "SCALED_CONSULTANT" /\ e.beneficiary = c),
           NEW month, MonthSettled(a, book, c, month)
    PROVE  MonthSettled(b, book \union more, c, month)
<1>1. \A r \in Receipts : /\ b[r].proposal = a[r].proposal /\ b[r].date = a[r].date
                          /\ RoleOf(b, r) = RoleOf(a, r) /\ ConsultantOf(b, r) = ConsultantOf(a, r)
  BY GrownRoles DEF Grown
<1>2. ASSUME NEW r \in Receipts, ConsultantOf(a, r) = c, RoleOf(a, r) = Scaled
      PROVE  /\ a[r].status = "APPROVED" <=> b[r].status = "APPROVED"
             /\ a[r].status = "APPROVED" => Elegivel(a, r) = Elegivel(b, r)
  <2> DEFINE p == a[r].proposal
  <2>1. a[r] = b[r] /\ p \in Proposals /\ Consultant[p] = c
    BY <1>2 DEF RecordsOK, ReceiptRow, ConsultantOf
  <2>2. Within(a, p) /\ Within(b, p)
    BY <2>1
  <2>3. ASSUME a[r].status = "APPROVED" PROVE Elegivel(a, r) = Elegivel(b, r)
    <3>1. r \in Of(a, p) /\ r \in Of(b, p)
      BY <2>1, <2>3 DEF Of, Approved
    <3> HIDE DEF p
    <3>2. Elegivel(a, r) = Liquido(a[r]) /\ Elegivel(b, r) = Liquido(b[r])
      BY <2>1, <2>2, <3>1, WithinInFull
    <3> QED  BY <2>1, <3>2
  <2> QED  BY <2>1, <2>3
<1>3. ScaledRight(a, c, month) = ScaledRight(b, c, month)
  <2>1. \A r \in Receipts : b[r].proposal = a[r].proposal /\ b[r].date = a[r].date
    BY <1>1
  <2>2. \A r \in Receipts : ConsultantOf(a, r) = c /\ RoleOf(a, r) = Scaled =>
            /\ a[r].status = "APPROVED" <=> b[r].status = "APPROVED"
            /\ a[r].status = "APPROVED" => Elegivel(a, r) = Elegivel(b, r)
    BY <1>2
  <2> QED  BY <2>1, <2>2, MonthSame
<1> DEFINE Q == {q \in Receipts : Month(a[q].date) = month}
           R == {q \in Receipts : Month(b[q].date) = month}
<1>4. Q = R
  BY <1>1
<1>5. {e \in book \union more : e.strategy = "SCALED_CONSULTANT" /\ e.beneficiary = c /\ e.receipt \in R}
        = {e \in book : e.strategy = "SCALED_CONSULTANT" /\ e.beneficiary = c /\ e.receipt \in Q}
  BY <1>4
<1>6. Net(book \union more, "SCALED_CONSULTANT", c, R) = Net(book, "SCALED_CONSULTANT", c, Q)
  BY <1>5 DEF Net
<1>7. ScaledRight(a, c, month) = Net(book, "SCALED_CONSULTANT", c, Q)
  BY DEF MonthSettled
<1> HIDE DEF Q
<1>8. ScaledRight(b, c, month) = Net(book \union more, "SCALED_CONSULTANT", c, R)
  BY <1>3, <1>6, <1>7
<1> QED  BY <1>8 DEF MonthSettled

LEMMA BookScaledCommits ==
    ASSUME MInv, SInv, NEW p \in Proposals, tx[p] # Idle
    PROVE  BookScaled(After(receipts, tx[p].row), entries \union tx[p].adds)
<1> DEFINE t == tx[p]
           recs == After(receipts, t.row)
           book == entries \union t.adds
<1>1. BookScaled(receipts, entries) /\ TxScaled(receipts, entries, t, p) /\ TxMoney(receipts, entries, t, p)
  BY DEF SInv, MInv
<1>2. RecordsOK(receipts) /\ RecordsOK(recs) /\ Grown(receipts, recs)
  BY <1>1 DEF MInv, BookMoney, TxMoney, TxScaled
<1>3. \A r \in DOMAIN t.row : r \in Receipts /\ receipts[r].proposal = p
  BY <1>1 DEF TxMoney
<1>4. \A r \in Receipts : r \notin DOMAIN t.row => recs[r] = receipts[r]
  BY DEF After
<1> HIDE DEF recs, t
<1>5. IsFiniteSet(book)
  BY <1>1, FS_Union DEF BookScaled, TxScaled
<1>6. \A e \in book : e.strategy = "SCALED_CONSULTANT" => ScaledLine(recs, e)
  <2>1. \A e \in entries : e.strategy = "SCALED_CONSULTANT" => ScaledLine(recs, e)
    BY <1>1, <1>2, GrownLine DEF BookScaled
  <2>2. \A e \in t.adds : e.strategy = "SCALED_CONSULTANT" => ScaledLine(recs, e)
    BY <1>1 DEF TxScaled, recs
  <2> QED  BY <2>1, <2>2
<1>7. ASSUME NEW q \in Proposals, Within(recs, q), NEW r \in Of(recs, q)
      PROVE  Credited(recs, book, r)
  <2>1. r \in Receipts /\ recs[r].proposal = q /\ recs[r].status = "APPROVED"
        /\ receipts[r].proposal = q /\ RoleOf(recs, r) = RoleOf(receipts, r)
    BY <1>2, <1>7, GrownRoles DEF Of, Approved, Grown
  <2>2. CASE receipts[r].status = "APPROVED"
    <3>1. r \in Of(receipts, q)
      BY <2>1, <2>2 DEF Of, Approved
    <3>2. Within(receipts, q)
      BY <1>2, <1>7, GrownWithin
    <3>3. Credited(receipts, entries, r)
      BY <1>1, <3>1, <3>2 DEF BookScaled
    <3> QED  BY <2>1, <3>3 DEF Credited, CreditsOf
  <2>3. CASE receipts[r].status # "APPROVED"
    <3>1. r \in DOMAIN t.row /\ q = p
      BY <1>3, <1>4, <2>1, <2>3
    <3>2. t.kind = "recognise"
      BY <1>1, <2>3, <3>1 DEF TxScaled, ReverseScaled
    <3>3. Credited(receipts, t.adds, r)
      BY <1>1, <1>7, <3>1, <3>2 DEF TxScaled, RecogniseScaled, recs
    <3> QED  BY <2>1, <3>3 DEF Credited, CreditsOf
  <2> QED  BY <2>2, <2>3
<1>8. BookScaled(recs, book)
  BY <1>5, <1>6, <1>7 DEF BookScaled
<1> QED  BY <1>8 DEF recs, t

\* Another request commits: what the request of q computed stays good.
LEMMA TxScaledStays ==
    ASSUME LInv, MInv, SInv, NEW p \in Proposals, tx[p] # Idle, NEW q \in Proposals, q # p, tx[q] # Idle,
           NEW recs, recs = After(receipts, tx[p].row), NEW book, book = entries \union tx[p].adds,
           RecordsOK(After(recs, tx[q].row))
    PROVE  TxScaled(recs, book, tx[q], q)
<1> DEFINE t == tx[p]
           u == tx[q]
           x == After(receipts, u.row)
           y == After(recs, u.row)
<1>1. TxScaled(receipts, entries, t, p) /\ TxScaled(receipts, entries, u, q)
      /\ TxMoney(receipts, entries, t, p) /\ TxMoney(receipts, entries, u, q)
  BY DEF SInv, MInv
<1>2. RecordsOK(receipts) /\ RecordsOK(recs) /\ RecordsOK(x) /\ RecordsOK(y)
  BY <1>1 DEF MInv, BookMoney, TxMoney
<1>3. Grown(receipts, recs) /\ Grown(receipts, x)
  BY <1>1 DEF TxScaled
<1>4. /\ \A r \in DOMAIN t.row : r \in Receipts /\ receipts[r].proposal = p
      /\ \A r \in DOMAIN u.row : r \in Receipts /\ receipts[r].proposal = q
  BY <1>1 DEF TxMoney
<1>5. \A r \in Receipts : /\ r \notin DOMAIN t.row => recs[r] = receipts[r]
                          /\ x[r] = (IF r \in DOMAIN u.row THEN u.row[r] ELSE receipts[r])
                          /\ y[r] = (IF r \in DOMAIN u.row THEN u.row[r] ELSE recs[r])
  BY DEF After
<1> HIDE DEF t, u, x, y
<1>6. \A r \in DOMAIN u.row : r \in Receipts /\ recs[r] = receipts[r] /\ y[r] = x[r]
  BY <1>4, <1>5
<1>7. \A r \in Receipts : r \notin DOMAIN u.row => x[r] = receipts[r] /\ y[r] = recs[r]
  BY <1>5
<1>8. Grown(recs, y)
  <2> SUFFICES ASSUME NEW r \in Receipts
               PROVE  /\ y[r].proposal = recs[r].proposal /\ y[r].date = recs[r].date
                      /\ y[r].amount = recs[r].amount
                      /\ recs[r].status = "APPROVED" => y[r].status = "APPROVED"
                      /\ recs[r].reversed <= y[r].reversed
    BY DEF Grown
  <2>1. CASE r \in DOMAIN u.row
    BY <1>3, <1>6, <2>1 DEF Grown
  <2>2. CASE r \notin DOMAIN u.row
    <3>1. recs[r].reversed \in Nat
      BY <1>2 DEF RecordsOK, ReceiptRow
    <3> QED  BY <1>7, <2>2, <3>1
  <2> QED  BY <2>1, <2>2
<1>9. Grown(x, y)
  <2> SUFFICES ASSUME NEW r \in Receipts
               PROVE  /\ y[r].proposal = x[r].proposal /\ y[r].date = x[r].date
                      /\ y[r].amount = x[r].amount
                      /\ x[r].status = "APPROVED" => y[r].status = "APPROVED"
                      /\ x[r].reversed <= y[r].reversed
    BY DEF Grown
  <2>1. CASE r \in DOMAIN u.row
    <3>1. x[r].reversed \in Nat
      BY <1>2 DEF RecordsOK, ReceiptRow
    <3> QED  BY <1>6, <2>1, <3>1
  <2>2. CASE r \notin DOMAIN u.row
    BY <1>3, <1>7, <2>2 DEF Grown
  <2> QED  BY <2>1, <2>2
<1>10. \A e \in u.adds : e.strategy = "SCALED_CONSULTANT" => ScaledLine(y, e) /\ e.beneficiary = u.holds
  <2>1. \A e \in u.adds : e.strategy = "SCALED_CONSULTANT" => ScaledLine(x, e) /\ e.beneficiary = u.holds
    BY <1>1 DEF TxScaled, x
  <2> QED  BY <1>2, <1>9, <2>1, GrownLine
<1>11. \A r \in Receipts : RoleOf(recs, r) = RoleOf(receipts, r)
  BY <1>3, GrownRoles
<1>12. ASSUME u.kind = "recognise" PROVE RecogniseScaled(recs, u, q)
  <2>1. RecogniseScaled(receipts, u, q)
    BY <1>1, <1>12 DEF TxScaled
  <2>2. Within(y, q) => Within(x, q)
    BY <1>2, <1>9, GrownWithin
  <2> QED  BY <1>6, <1>11, <2>1, <2>2 DEF RecogniseScaled, Credited, x, y
<1>13. ASSUME u.kind = "reverse" PROVE ReverseScaled(recs, book, u, q)
  <2>1. ReverseScaled(receipts, entries, u, q)
    BY <1>1, <1>13 DEF TxScaled
  <2>2. \A v \in Proposals : Within(recs, v) => Within(receipts, v)
    BY <1>2, <1>3, GrownWithin
  <2>3. \A r \in DOMAIN u.row : recs[r].status = "APPROVED"
    BY <1>6, <2>1 DEF ReverseScaled
  <2>4. u.holds # Consultant[q] /\ Within(recs, q) => \A r \in DOMAIN u.row : RoleOf(recs, r) # Scaled
    BY <1>6, <1>11, <2>1, <2>2 DEF ReverseScaled
  <2>5. ASSUME u.holds = Consultant[q], \A v \in Proposals : Consultant[v] = Consultant[q] => Within(recs, v),
               NEW r \in DOMAIN u.row
        PROVE  MonthSettled(y, book \union u.adds, Consultant[q], Month(recs[r].date))
    <3> DEFINE c == Consultant[q]
               m == Month(receipts[r].date)
    <3>1. c \in People /\ t.holds # c
      <4>1. c \in People
        BY ProposalsAssumption
      <4> QED  BY <2>5, <4>1 DEF LInv, LocksHeld, t, u
    <3>2. MonthSettled(x, entries \union u.adds, c, m)
      BY <2>1, <2>2, <2>5 DEF ReverseScaled, x
    <3>3. \A v \in Proposals : Consultant[v] = c => Within(x, v) /\ Within(y, v)
      <4> SUFFICES ASSUME NEW v \in Proposals, Consultant[v] = c PROVE Within(x, v) /\ Within(y, v)
        OBVIOUS
      <4>1. Within(recs, v) /\ Within(receipts, v)
        BY <2>2, <2>5
      <4>2. \A s \in Receipts : x[s].status = "APPROVED" => receipts[s].status = "APPROVED"
        BY <1>7, <2>1 DEF ReverseScaled
      <4>3. \A s \in Receipts : y[s].status = "APPROVED" => recs[s].status = "APPROVED"
        BY <1>7, <2>3
      <4> QED  BY <1>3, <1>8, <4>1, <4>2, <4>3, SameWithin
    <3>4. ASSUME NEW s \in Receipts, ConsultantOf(x, s) = c, RoleOf(x, s) = Scaled PROVE x[s] = y[s]
      <4>1. ConsultantOf(receipts, s) = c /\ RoleOf(receipts, s) = Scaled
        BY <1>3, <3>4, GrownRoles
      <4>2. s \notin DOMAIN t.row
        <5> SUFFICES ASSUME s \in DOMAIN t.row PROVE FALSE
          OBVIOUS
        <5>1. Consultant[p] = c
          BY <1>4, <4>1 DEF ConsultantOf
        <5>2. t.kind # "recognise"
          BY <1>1, <3>1, <5>1 DEF TxScaled, RecogniseScaled
        <5>3. ReverseScaled(receipts, entries, t, p)
          BY <1>1, <5>2 DEF TxScaled
        <5>4. Within(receipts, p)
          BY <2>2, <2>5, <5>1
        <5> QED  BY <3>1, <4>1, <5>1, <5>3, <5>4 DEF ReverseScaled
      <4> QED  BY <1>5, <4>2
    <3>5. \A e \in t.adds : ~(e.strategy = "SCALED_CONSULTANT" /\ e.beneficiary = c)
      BY <1>1, <3>1 DEF TxScaled
    <3> HIDE DEF c, m
    <3>6. MonthSettled(y, (entries \union u.adds) \union t.adds, c, m)
      BY <1>2, <1>9, <3>1, <3>2, <3>3, <3>4, <3>5, MonthStays
    <3>7. (entries \union u.adds) \union t.adds = book \union u.adds
      BY DEF t
    <3>8. recs[r].date = receipts[r].date
      BY <1>6, <2>5
    <3> QED  BY <3>6, <3>7, <3>8 DEF c, m
  <2> QED  BY <2>3, <2>4, <2>5 DEF ReverseScaled, y
<1>14. IsFiniteSet(u.adds) /\ u.kind \in {"recognise", "reverse"}
  BY <1>1 DEF TxScaled
<1>15. TxScaled(recs, book, u, q)
  BY <1>8, <1>10, <1>12, <1>13, <1>14 DEF TxScaled, y
<1> QED  BY <1>15 DEF u

LEMMA SInvCommits ==
    ASSUME LInv, MInv, MInv', SInv, NEW p \in Proposals, Commit(p)
    PROVE  SInv'
<1> DEFINE recs == After(receipts, tx[p].row)
           book == entries \union tx[p].adds
<1>1. tx[p] # Idle /\ receipts' = recs /\ entries' = book /\ tx' = [tx EXCEPT ![p] = Idle]
  BY DEF Commit, After
<1>2. \A q \in Proposals : tx'[q] = IF q = p THEN Idle ELSE tx[q]
  BY <1>1 DEF MInv
<1>3. BookScaled(recs, book)
  BY <1>1, BookScaledCommits
<1>4. ASSUME NEW q \in Proposals, tx'[q] # Idle PROVE TxScaled(recs, book, tx'[q], q)
  <2>1. q # p /\ tx'[q] = tx[q] /\ tx[q] # Idle
    BY <1>2, <1>4
  <2>2. TxMoney(receipts', entries', tx'[q], q)
    BY <1>4 DEF MInv
  <2>3. RecordsOK(After(recs, tx[q].row))
    BY <1>1, <2>1, <2>2 DEF TxMoney
  <2> HIDE DEF recs, book
  <2>4. TxScaled(recs, book, tx[q], q)
    BY <1>1, <2>1, <2>3, TxScaledStays DEF recs, book
  <2> QED  BY <2>1, <2>4
<1> HIDE DEF recs, book
<1> QED  BY <1>1, <1>3, <1>4 DEF SInv

LEMMA SInvInitially == LedgerInit => SInv
<1> SUFFICES ASSUME LedgerInit PROVE SInv
  OBVIOUS
<1>1. entries = {} /\ tx = [p \in Proposals |-> Idle]
  BY DEF LedgerInit
<1>2. Approved(receipts) = {}
  <2>1. PICK f \in Declarations :
            receipts = [r \in Receipts |->
                [proposal |-> f[r].proposal, amount |-> f[r].amount, date |-> f[r].date,
                 status |-> f[r].status, reversed |-> 0]]
    BY DEF LedgerInit
  <2>2. \A r \in Receipts : f[r].status \in {"SUBMITTED", "REJECTED"}
    BY DeclarationsAssumption
  <2> QED  BY <2>1, <2>2 DEF Approved
<1>3. IsFiniteSet(entries)
  BY <1>1, FS_EmptySet
<1>4. \A p \in Proposals : Of(receipts, p) = {}
  BY <1>2 DEF Of
<1>5. BookScaled(receipts, entries)
  BY <1>1, <1>3, <1>4 DEF BookScaled
<1> QED  BY <1>1, <1>5 DEF SInv

LEMMA SInvKept ==
    LInv /\ MInv /\ MInv' /\ GInv /\ SInv /\ [LedgerNext]_ledgerVars => SInv'
<1> SUFFICES ASSUME LInv, MInv, MInv', GInv, SInv, [LedgerNext]_ledgerVars PROVE SInv'
  OBVIOUS
<1>1. CASE UNCHANGED <<receipts, entries, tx>>
  BY <1>1 DEF SInv
<1>2. ASSUME NEW p \in Proposals, NEW S \in SUBSET Receipts, BeginRecognise(p, S) PROVE SInv'
  BY <1>2, SInvRecognises
<1>3. ASSUME NEW r \in Receipts, NEW total \in Levels[r] \union {receipts[r].amount},
             BeginReverse(r, total - receipts[r].reversed)
      PROVE  SInv'
  <2>1. receipts[r].reversed \in Nat /\ total \in Nat /\ receipts[r].proposal \in Proposals
    BY DeclarationsAssumption DEF MInv, BookMoney, RecordsOK, ReceiptRow
  <2> QED  BY <1>3, <2>1, SInvReverses
<1>4. ASSUME NEW p \in Proposals, Commit(p) PROVE SInv'
  BY <1>4, SInvCommits
<1>5. CASE UNCHANGED ledgerVars
  BY <1>1, <1>5 DEF ledgerVars
<1> QED  BY <1>1, <1>2, <1>3, <1>4, <1>5 DEF LedgerNext, CloseLedgerPeriod, ReopenPeriod

MonthSettledBy(p, r) ==
    Ends(p, "reverse") /\ tx[p].holds = Consultant[p] /\ NotOverpaid(Consultant[p])
        => ScaledRight(receipts', Consultant[p], Month(receipts[r].date))
              = Net(entries', "SCALED_CONSULTANT", Consultant[p],
                    {q \in Receipts : Month(receipts[q].date) = Month(receipts[r].date)})

LEMMA CommitSettles ==
    ASSUME MInv, SInv, NEW p \in Proposals, tx[p] # Idle,
           receipts' = After(receipts, tx[p].row), entries' = entries \union tx[p].adds,
           NEW r \in DOMAIN tx[p].row
    PROVE  MonthSettledBy(p, r)
<1> SUFFICES ASSUME Ends(p, "reverse"), tx[p].holds = Consultant[p], NotOverpaid(Consultant[p])
             PROVE  ScaledRight(receipts', Consultant[p], Month(receipts[r].date))
                       = Net(entries', "SCALED_CONSULTANT", Consultant[p],
                             {q \in Receipts : Month(receipts[q].date) = Month(receipts[r].date)})
  BY DEF MonthSettledBy
<1> DEFINE a == After(receipts, tx[p].row)
           c == Consultant[p]
           m == Month(receipts[r].date)
<1>1. TxScaled(receipts, entries, tx[p], p)
  BY DEF SInv
<1>2. \A q \in Proposals : Consultant[q] = c => Within(receipts, q)
  BY DEF NotOverpaid, Within, Gross, GrossOf
<1>3. MonthSettled(a, entries', c, m)
  BY <1>1, <1>2 DEF TxScaled, ReverseScaled, Ends
<1>4. \A q \in Receipts : a[q].date = receipts[q].date
  BY <1>1 DEF TxScaled, Grown
<1>5. {q \in Receipts : Month(a[q].date) = m} = {q \in Receipts : Month(receipts[q].date) = m}
  BY <1>4
<1> HIDE DEF m, c
<1>6. ScaledRight(receipts', c, m)
          = Net(entries', "SCALED_CONSULTANT", c, {q \in Receipts : Month(receipts[q].date) = m})
  BY <1>3, <1>5 DEF MonthSettled
<1> QED  BY <1>6 DEF m, c

LEMMA MonthSettledStep ==
    MInv /\ SInv /\ [LedgerNext]_ledgerVars
        => \A p \in Proposals : \A r \in DOMAIN tx[p].row : MonthSettledBy(p, r)
<1> SUFFICES ASSUME MInv, SInv, [LedgerNext]_ledgerVars, NEW p \in Proposals, NEW r \in DOMAIN tx[p].row,
                    Ends(p, "reverse")
             PROVE  MonthSettledBy(p, r)
  BY DEF MonthSettledBy
<1>1. tx[p] # Idle /\ tx'[p] = Idle
  BY DEF Ends, Idle
<1>2. ASSUME NEW q \in Proposals, Commit(q) PROVE MonthSettledBy(p, r)
  <2>1. receipts' = After(receipts, tx[q].row) /\ entries' = entries \union tx[q].adds
        /\ tx' = [tx EXCEPT ![q] = Idle]
    BY <1>2 DEF Commit, After
  <2>2. p = q
    BY <1>1, <2>1
  <2> QED  BY <1>1, <2>1, <2>2, CommitSettles
<1>3. ASSUME NEW q, NEW request, tx' = [tx EXCEPT ![q] = request], request # Idle PROVE FALSE
  <2>1. tx'[p] = tx[p] \/ tx'[p] = request
    BY <1>3 DEF MInv
  <2> QED  BY <1>1, <1>3, <2>1
<1>4. \A kind \in {"recognise", "reverse"} : \A holds, row, adds : Request(kind, holds, row, adds) # Idle
  BY DEF Request, Idle
<1>5. ASSUME NEW q \in Proposals, NEW S \in SUBSET Receipts, BeginRecognise(q, S) PROVE FALSE
  <2>1. PICK holds, row, adds : tx' = [tx EXCEPT ![q] = Request("recognise", holds, row, adds)]
    BY <1>5 DEF BeginRecognise
  <2>2. Request("recognise", holds, row, adds) # Idle
    BY <1>4
  <2> QED  BY <1>3, <2>1, <2>2
<1>6. ASSUME NEW s \in Receipts, NEW x, BeginReverse(s, x) PROVE FALSE
  <2>1. PICK q, holds, row, adds : tx' = [tx EXCEPT ![q] = Request("reverse", holds, row, adds)]
    BY <1>6 DEF BeginReverse
  <2>2. Request("reverse", holds, row, adds) # Idle
    BY <1>4
  <2> QED  BY <1>3, <2>1, <2>2
<1>7. ~UNCHANGED tx
  BY <1>1
<1> QED  BY <1>2, <1>5, <1>6, <1>7 DEF LedgerNext, CloseLedgerPeriod, ReopenPeriod, ledgerVars

\* When the reversal of a receipt of a scaled consultant commits, his month has
\* what its receipts are worth, for any rules, receipts and requests of his and of
\* others in between, as long as none of his proposals is overpaid
\* (ScaledCommissionEngine.estornar and its lock on the consultant).
THEOREM MonthsAreSettled == LedgerSpec => ReversalSettlesMonth
<1>1. LedgerSpec => [](LInv /\ MInv /\ GInv /\ SInv)
  BY InitInv, NextInv, MInvInitially, MInvKept, GInvInitially, GInvKept, SInvInitially, SInvKept,
     PTL DEF LedgerSpec
<1>2. MInv /\ SInv /\ [LedgerNext]_ledgerVars
          => [\A p \in Proposals : \A r \in DOMAIN tx[p].row : MonthSettledBy(p, r)]_ledgerVars
  BY MonthSettledStep
<1>3. [\A p \in Proposals : \A r \in DOMAIN tx[p].row : MonthSettledBy(p, r)]_ledgerVars
          <=> [\A p \in Proposals : \A r \in DOMAIN tx[p].row :
                  LET c == Consultant[p]
                      month == Month(receipts[r].date)
                  IN  Ends(p, "reverse") /\ tx[p].holds = c /\ NotOverpaid(c)
                          => ScaledRight(receipts', c, month)
                                = Net(entries', "SCALED_CONSULTANT", c,
                                      {q \in Receipts : Month(receipts[q].date) = month})]_ledgerVars
  BY DEF MonthSettledBy
<1> QED  BY <1>1, <1>2, <1>3, PTL DEF LedgerSpec, ReversalSettlesMonth

-----------------------------------------------------------------------------
\* What a commercial leader earns by the receipts of a proposal.

LeaderOf(recs, r) == Beneficiary(recs, "COMMERCIAL_LEADER", r)

LeaderBook(book, r, b) ==
    {e \in book : e.strategy = "COMMERCIAL_LEADER" /\ e.receipt = r /\ e.beneficiary = b}

LEMMA PercentMonotone ==
    ASSUME NEW a \in Nat, NEW b \in Nat, a <= b, NEW k \in Nat
    PROVE  Percent(a, k) <= Percent(b, k)
<1> DEFINE x == a * k
           y == b * k
<1>1. x \in Nat /\ y \in Nat
  OBVIOUS
<1>2. x <= y
  <2>1. k * a <= k * b
    BY NatTimes
  <2> QED  BY <2>1
<1>3. Percent(a, k) = (2 * x + 100) \div (2 * 100) /\ Percent(b, k) = (2 * y + 100) \div (2 * 100)
  BY DEF Percent, Quantize
<1> HIDE DEF x, y
<1> QED  BY <1>1, <1>2, <1>3

LeaderRate(recs, r, b) ==
    IF Regime[b] = "MEI" /\ Tps(recs[r].proposal) < ConfigOf(recs, r).commercial.minTps THEN 0
    ELSE ShareOf(ConfigOf(recs, r).commercial, Regime[b])

LEMMA CommercialShareIs ==
    ASSUME NEW recs, RecordsOK(recs), NEW r \in Receipts, NEW b
    PROVE  /\ CommercialShare(recs, r, b) = Percent(Elegivel(recs, r), LeaderRate(recs, r, b))
           /\ LeaderRate(recs, r, b) \in Nat
           /\ CommercialShare(recs, r, b) \in Nat
           /\ Elegivel(recs, r) = 0 => CommercialShare(recs, r, b) = 0
<1>1. recs[r].date \in CalendarDays
  BY DEF RecordsOK, ReceiptRow
<1>2. ValidConfig(ConfigOf(recs, r))
  BY <1>1, ConfigAssumption DEF ConfigOf
<1>3. LeaderRate(recs, r, b) \in Nat
  BY <1>2 DEF LeaderRate, ShareOf, ValidConfig, ValidShares
<1>4. CommercialShare(recs, r, b) = Percent(Elegivel(recs, r), LeaderRate(recs, r, b))
  BY DEF CommercialShare, ComissaoLiderComercial, LeaderRate
<1>5. Elegivel(recs, r) \in Nat
  BY Eligible
<1>6. Percent(Elegivel(recs, r), LeaderRate(recs, r, b)) \in Nat
  BY <1>3, <1>5, PercentRounds
<1>7. Percent(0, LeaderRate(recs, r, b)) = 0
  BY <1>3 DEF Percent, Quantize
<1> QED  BY <1>3, <1>4, <1>6, <1>7

\* The share goes by the eligible part, the day and the proposal.
LEMMA CommercialShareSame ==
    ASSUME NEW a, NEW b, NEW r, b[r].proposal = a[r].proposal, b[r].date = a[r].date,
           Elegivel(b, r) = Elegivel(a, r), NEW leader
    PROVE  CommercialShare(b, r, leader) = CommercialShare(a, r, leader)
BY DEF CommercialShare, ConfigOf

LEMMA FirstReceipt ==
    ASSUME NEW recs, RecordsOK(recs), NEW D \in SUBSET Receipts, D # {}
    PROVE  \E x \in D : \A y \in D \ {x} : Earlier(recs, x, y)
<1> DEFINE P == {A \in SUBSET D : A = {} \/ \E x \in A : \A y \in A \ {x} : Earlier(recs, x, y)}
<1>1. P \in SUBSET SUBSET D /\ {} \in P /\ IsFiniteSet(D)
  BY ReceiptsAssumption, FS_Subset
<1>2. ASSUME NEW A \in P, NEW z \in D \ A PROVE A \union {z} \in P
  <2>1. CASE A = {}
    BY <2>1
  <2>2. CASE A # {}
    <3>1. PICK x \in A : \A y \in A \ {x} : Earlier(recs, x, y)
      BY <2>2
    <3>2. x # z /\ A \subseteq Receipts /\ x \in Receipts /\ z \in Receipts
      OBVIOUS
    <3>3. CASE Earlier(recs, z, x)
      <4>1. \A y \in (A \union {z}) \ {z} : Earlier(recs, z, y)
        BY <3>1, <3>2, <3>3, EarlierIsAnOrder
      <4> QED  BY <4>1
    <3>4. CASE Earlier(recs, x, z)
      <4>1. \A y \in (A \union {z}) \ {x} : Earlier(recs, x, y)
        BY <3>1, <3>4
      <4> QED  BY <4>1
    <3> QED  BY <3>2, <3>3, <3>4, EarlierIsAnOrder
  <2> QED  BY <2>1, <2>2
<1>3. D \in P
  <2> HIDE DEF P
  <2> QED  BY <1>1, <1>2, SetInduction
<1> QED  BY <1>3

\* A proposal that was paid has one first payment.
LEMMA FirstIs ==
    ASSUME NEW recs, RecordsOK(recs), NEW p, Of(recs, p) # {}
    PROVE  /\ First(recs, p) \in Of(recs, p)
           /\ \A x \in Of(recs, p) :
                  (\A y \in Of(recs, p) \ {x} : Earlier(recs, x, y)) => x = First(recs, p)
<1> DEFINE D == Of(recs, p)
<1>1. D \in SUBSET Receipts
  BY OfIsFinite
<1>2. First(recs, p) = CHOOSE x \in D : \A y \in D \ {x} : Earlier(recs, x, y)
  BY DEF First
<1> HIDE DEF D
<1>3. \E x \in D : \A y \in D \ {x} : Earlier(recs, x, y)
  <2>1. D # {}
    BY DEF D
  <2> QED  BY <1>1, <2>1, FirstReceipt
<1>4. First(recs, p) \in D /\ \A y \in D \ {First(recs, p)} : Earlier(recs, First(recs, p), y)
  BY <1>2, <1>3
<1>5. ASSUME NEW x \in D, \A y \in D \ {x} : Earlier(recs, x, y), x # First(recs, p) PROVE FALSE
  <2>1. Earlier(recs, x, First(recs, p)) /\ Earlier(recs, First(recs, p), x)
    BY <1>4, <1>5
  <2> QED  BY <1>1, <1>4, <2>1, EarlierIsAnOrder
<1> QED  BY <1>4, <1>5 DEF D

\* The leader goes by the days of what was paid.
LEMMA LeaderSame ==
    ASSUME NEW a, RecordsOK(a), NEW b, RecordsOK(b), NEW p, Of(a, p) = Of(b, p),
           \A r \in Receipts : b[r].proposal = a[r].proposal /\ b[r].date = a[r].date,
           NEW r \in Of(a, p)
    PROVE  LeaderOf(b, r) = LeaderOf(a, r)
<1> DEFINE D == Of(a, p)
           x == First(a, p)
           y == First(b, p)
<1>1. D \in SUBSET Receipts /\ D # {} /\ a[r].proposal = p /\ b[r].proposal = p
  BY DEF Of, Approved
<1>2. x \in D /\ y \in D
  BY <1>1, FirstIs
<1>3. \A s, t \in Receipts : Earlier(b, s, t) <=> Earlier(a, s, t)
  BY DEF Earlier
<1>4. \A t \in D \ {x} : Earlier(a, x, t)
  <2>1. PICK z \in D : \A t \in D \ {z} : Earlier(a, z, t)
    BY <1>1, FirstReceipt
  <2>2. z = x
    BY <1>1, <2>1, FirstIs
  <2> QED  BY <2>1, <2>2
<1>5. \A t \in D \ {x} : Earlier(b, x, t)
  BY <1>1, <1>2, <1>3, <1>4
<1>6. x = y
  BY <1>1, <1>2, <1>5, FirstIs
<1>7. b[y].date = a[x].date
  BY <1>1, <1>2, <1>6
<1> HIDE DEF x, y, D
<1>8. /\ LeaderOf(a, r) = Leader["COMERCIAL"][Consultant[p]][a[x].date]
      /\ LeaderOf(b, r) = Leader["COMERCIAL"][Consultant[p]][b[y].date]
  BY <1>1 DEF LeaderOf, Beneficiary, x, y
<1> QED  BY <1>7, <1>8

LEMMA LeaderIsSomebody ==
    ASSUME NEW recs, RecordsOK(recs), NEW p \in Proposals, NEW r \in Of(recs, p)
    PROVE  LeaderOf(recs, r) \in People \union {NoOne}
<1> DEFINE d == recs[First(recs, p)].date
<1>1. First(recs, p) \in Receipts /\ recs[r].proposal = p
  BY FirstIs DEF Of, Approved
<1>2. d \in CalendarDays /\ Consultant[p] \in People
  BY <1>1, ProposalsAssumption DEF RecordsOK, ReceiptRow
<1>3. LeaderOf(recs, r) = Leader["COMERCIAL"][Consultant[p]][d]
  BY <1>1 DEF LeaderOf, Beneficiary
<1> HIDE DEF d
<1> QED  BY <1>2, <1>3, PeopleAssumption

-----------------------------------------------------------------------------
\* What the group engine writes for a commercial leader.

LeaderCredit(recs, r, b) ==
    NewCredit(recs, r, "COMMERCIAL_LEADER", b, CommercialShare(recs, r, b))

LEMMA LeaderCreditsAre ==
    ASSUME NEW recs, RecordsOK(recs), NEW book, NEW p \in Proposals,
           NEW e \in NewCredits(recs, book, p), e.strategy = "COMMERCIAL_LEADER"
    PROVE  /\ e \in Entry /\ e.reversal = 0
           /\ e.receipt \in Of(recs, p) \intersect Liquidos(recs)
           /\ e.beneficiary = LeaderOf(recs, e.receipt) /\ e.beneficiary \in People
           /\ e = LeaderCredit(recs, e.receipt, e.beneficiary)
<1>1. ~(e \in ScaledCredits(recs, p)) /\ ~(e \in StandardCredits(recs, p))
  BY DEF ScaledCredits, StandardCredits, NewCredit
<1>2. e \in GroupCredits(recs, p)
  BY <1>1 DEF NewCredits
<1>3. PICK q \in (Of(recs, p) \intersect Liquidos(recs)) \X Groups :
          /\ Earns(recs, q[2], q[1])
          /\ e = NewCredit(recs, q[1], q[2], Beneficiary(recs, q[2], q[1]),
                     GroupShare(recs, q[2], q[1], Beneficiary(recs, q[2], q[1])))
  BY <1>2 DEF GroupCredits
<1> DEFINE r == q[1]
           b == LeaderOf(recs, r)
<1>4. q[2] = "COMMERCIAL_LEADER" /\ r \in Of(recs, p) \intersect Liquidos(recs)
  BY <1>3 DEF NewCredit
<1> HIDE DEF r
<1>5. b # NoOne /\ b \in People \union {NoOne}
  BY <1>3, <1>4, LeaderIsSomebody DEF Earns, LeaderOf, r
<1>6. GroupShare(recs, "COMMERCIAL_LEADER", r, b) = CommercialShare(recs, r, b)
  BY DEF GroupShare
<1>7. e = NewCredit(recs, r, "COMMERCIAL_LEADER", b, CommercialShare(recs, r, b))
  BY <1>3, <1>4, <1>6 DEF LeaderOf, r
<1>8. r \in Receipts
  BY <1>4 DEF Of, Approved
<1>9. Elegivel(recs, r) \in Nat /\ CommercialShare(recs, r, b) \in Int
  BY <1>8, Eligible, CommercialShareIs
<1>10. e = [receipt |-> r, beneficiary |-> b, strategy |-> "COMMERCIAL_LEADER",
            eligible |-> Elegivel(recs, r), amount |-> CommercialShare(recs, r, b), reversal |-> 0]
  BY <1>7 DEF NewCredit
<1>11. e.receipt = r /\ e.beneficiary = b /\ e.reversal = 0
  BY <1>10
<1>12. e \in Entry
  BY <1>5, <1>8, <1>9, <1>10 DEF Entry, Strategies, Groups
<1>13. e.beneficiary = LeaderOf(recs, e.receipt)
  BY <1>11
<1> HIDE DEF b
<1> QED  BY <1>4, <1>5, <1>7, <1>11, <1>12, <1>13 DEF LeaderCredit

LEMMA LeaderIsCredited ==
    ASSUME NEW recs, NEW book, NEW p, NEW r \in Of(recs, p) \intersect Liquidos(recs),
           NEW b \in People, b = LeaderOf(recs, r), LeaderBook(book, r, b) = {}
    PROVE  LeaderCredit(recs, r, b) \in NewCredits(recs, book, p)
<1> DEFINE e == LeaderCredit(recs, r, b)
           q == <<r, "COMMERCIAL_LEADER">>
<1>1. q \in (Of(recs, p) \intersect Liquidos(recs)) \X Groups /\ Earns(recs, q[2], q[1])
  BY NoOneAssumption DEF Groups, Earns, LeaderOf
<1>2. e = NewCredit(recs, q[1], q[2], Beneficiary(recs, q[2], q[1]),
                GroupShare(recs, q[2], q[1], Beneficiary(recs, q[2], q[1])))
  BY DEF LeaderCredit, GroupShare, LeaderOf
<1> HIDE DEF q
<1>3. e \in GroupCredits(recs, p)
  BY <1>1, <1>2 DEF GroupCredits
<1>4. e.receipt = r /\ e.beneficiary = b /\ e.strategy = "COMMERCIAL_LEADER"
  BY DEF LeaderCredit, NewCredit
<1> HIDE DEF e
<1>5. \A f \in book : ~SameOrigin(e, f)
  BY <1>4 DEF SameOrigin, LeaderBook
<1> QED  BY <1>3, <1>5 DEF NewCredits, e

\* A receipt is credited to its leader when it has no line of his yet.
LEMMA LeaderCredits ==
    ASSUME NEW recs, RecordsOK(recs), NEW book, NEW p \in Proposals, NEW r \in Of(recs, p), NEW b \in People
    PROVE  LeaderBook(NewCredits(recs, book, p), r, b)
               = IF r \in Liquidos(recs) /\ b = LeaderOf(recs, r) /\ LeaderBook(book, r, b) = {}
                 THEN {LeaderCredit(recs, r, b)} ELSE {}
<1> DEFINE new == LeaderBook(NewCredits(recs, book, p), r, b)
<1>1. ASSUME NEW e \in new
      PROVE  /\ r \in Liquidos(recs) /\ b = LeaderOf(recs, r) /\ LeaderBook(book, r, b) = {}
             /\ e = LeaderCredit(recs, r, b)
  <2>1. /\ e \in NewCredits(recs, book, p) /\ e.strategy = "COMMERCIAL_LEADER" /\ e.receipt = r
        /\ e.beneficiary = b
    BY DEF LeaderBook
  <2>2. \A f \in book : ~SameOrigin(e, f)
    BY <2>1 DEF NewCredits
  <2>3. LeaderBook(book, r, b) = {}
    BY <2>1, <2>2 DEF LeaderBook, SameOrigin
  <2> QED  BY <2>1, <2>3, LeaderCreditsAre
<1>2. ASSUME r \in Liquidos(recs), b = LeaderOf(recs, r), LeaderBook(book, r, b) = {}
      PROVE  LeaderCredit(recs, r, b) \in new
  <2>1. LeaderCredit(recs, r, b) \in NewCredits(recs, book, p)
    BY <1>2, LeaderIsCredited
  <2> QED  BY <2>1 DEF LeaderBook, LeaderCredit, NewCredit
<1> HIDE DEF new
<1>3. new = IF r \in Liquidos(recs) /\ b = LeaderOf(recs, r) /\ LeaderBook(book, r, b) = {}
            THEN {LeaderCredit(recs, r, b)} ELSE {}
  BY <1>1, <1>2
<1> QED  BY <1>3 DEF new

LEMMA LeaderDebitsAre ==
    ASSUME NEW recs, NEW book, NEW r, NEW reversal, NEW amount,
           \A f \in book : "strategy" \in DOMAIN f,
           NEW e \in NewDebits(recs, book, r, reversal, amount), e.strategy = "COMMERCIAL_LEADER"
    PROVE  \E f \in book : /\ IsCredit(f) /\ f.receipt = r /\ f.strategy = "COMMERCIAL_LEADER"
                           /\ GroupDifference(recs, book, f) < 0
                           /\ e = NewDebit(f, reversal, GroupDifference(recs, book, f))
<1>1. ASSUME NEW f \in book, NEW value, NEW d, d = NewDebit(f, reversal, value)
      PROVE  d.strategy = f.strategy
  BY <1>1 DEF NewDebit
<1>2. ~(e \in ScaledDebits(recs, book, r, reversal))
  <2> SUFFICES ASSUME e \in ScaledDebits(recs, book, r, reversal) PROVE FALSE
    OBVIOUS
  <2>1. PICK f \in book : f.strategy = "SCALED_CONSULTANT" /\ \E value : e = NewDebit(f, reversal, value)
    BY DEF ScaledDebits, CreditsOf
  <2> QED  BY <1>1, <2>1
<1>3. ~(e \in StandardDebits(recs, book, r, reversal, amount))
  <2> SUFFICES ASSUME e \in StandardDebits(recs, book, r, reversal, amount) PROVE FALSE
    OBVIOUS
  <2>1. PICK f \in book : f.strategy = "STANDARD_CONSULTANT" /\ \E value : e = NewDebit(f, reversal, value)
    BY DEF StandardDebits, CreditsOf
  <2> QED  BY <1>1, <2>1
<1>4. e \in GroupDebits(recs, book, r, reversal)
  BY <1>2, <1>3 DEF NewDebits
<1>5. PICK f \in CreditsOf(book, r, Groups) :
          /\ GroupDifference(recs, book, f) < 0
          /\ e = NewDebit(f, reversal, GroupDifference(recs, book, f))
  BY <1>4 DEF GroupDebits
<1>6. f \in book /\ IsCredit(f) /\ f.receipt = r
  BY DEF CreditsOf
<1> QED  BY <1>1, <1>5, <1>6

-----------------------------------------------------------------------------
\* The difference a reversal makes to a commercial leader.

LEMMA SumOfOthers ==
    ASSUME NEW f, NEW D, IsFiniteSet(D), Numbers(f, D), NEW A \in SUBSET D, \A x \in D \ A : f[x] = 0
    PROVE  SumIn(f, A) = SumIn(f, D)
<1> DEFINE C == D \ A
<1>1. IsFiniteSet(A) /\ IsFiniteSet(C) /\ A \intersect C = {} /\ A \union C = D
      /\ Numbers(f, A) /\ Numbers(f, C)
  BY FS_Subset DEF Numbers
<1>2. \A x \in C : f[x] = 0
  OBVIOUS
<1> HIDE DEF C
<1>3. SumIn(f, C) = 0 * Cardinality(C) /\ Cardinality(C) \in Nat
  BY <1>1, <1>2, SumConstant, FS_CardinalityType
<1>4. SumIn(f, C) = 0 /\ SumIn(f, A) \in Int
  BY <1>1, <1>3, SumInt
<1>5. SumIn(f, A \union C) = SumIn(f, A) + SumIn(f, C)
  BY <1>1, SumUnion
<1> QED  BY <1>1, <1>4, <1>5

LEMMA LeaderNetIs ==
    ASSUME NEW book, IsFiniteSet(book), \A e \in book : e.strategy = "COMMERCIAL_LEADER" => e \in Entry,
           NEW b, NEW paid \in SUBSET Receipts,
           NEW g, \A q \in paid : g[q] = NetOf(LeaderBook(book, q, b))
    PROVE  Net(book, "COMMERCIAL_LEADER", b, paid) = SumIn(g, paid)
<1> DEFINE E == {e \in book : e.strategy = "COMMERCIAL_LEADER" /\ e.beneficiary = b /\ e.receipt \in paid}
           f == [e \in E |-> e.amount]
           m == [e \in E |-> e.receipt]
<1>1. IsFiniteSet(E) /\ IsFiniteSet(paid)
  <2>1. E \subseteq book
    OBVIOUS
  <2> HIDE DEF E
  <2> QED  BY <2>1, ReceiptsAssumption, FS_Subset
<1>2. \A e \in E : f[e] = e.amount /\ f[e] \in Int /\ m[e] = e.receipt /\ m[e] \in paid
  <2>1. \A e \in E : e.amount \in Int
    <3>1. \A e \in E : e \in Entry
      OBVIOUS
    <3> QED  BY <3>1 DEF Entry
  <2> QED  BY <2>1
<1>3. DOMAIN f = E /\ NetOf(E) = SumFunction(f)
  BY DEF NetOf
<1>4. \A q \in paid : LeaderBook(book, q, b) = {e \in E : e.receipt = q}
  BY DEF LeaderBook
<1>5. Net(book, "COMMERCIAL_LEADER", b, paid) = NetOf(E)
  BY DEF Net
<1> HIDE DEF f, m, E
<1>6. NetOf(E) = SumIn(f, E)
  BY <1>3, SumFunctionIn
<1>7. ASSUME NEW q \in paid PROVE g[q] = SumIn(f, PartAt(E, m, q))
  <2> DEFINE A == PartAt(E, m, q)
             h == [e \in A |-> e.amount]
  <2>1. A = LeaderBook(book, q, b) /\ A \subseteq E
    BY <1>2, <1>4 DEF PartAt
  <2>2. DOMAIN h = A /\ NetOf(A) = SumFunction(h)
    BY DEF NetOf
  <2>3. \A e \in A : h[e] = f[e]
    BY <1>2, <2>1
  <2> HIDE DEF h, A
  <2>4. IsFiniteSet(A)
    BY <1>1, <2>1, FS_Subset
  <2>5. SumFunction(h) = SumIn(f, A)
    BY <2>2, <2>3, <2>4, SumOver
  <2> QED  BY <2>1, <2>2, <2>5 DEF A
<1>8. SumIn(g, paid) = SumIn(f, E)
  BY <1>1, <1>2, <1>7, SumOfParts DEF Numbers
<1> QED  BY <1>5, <1>6, <1>8

\* The receipts of the proposal of r that were credited to b.
PaidTo(recs, book, r, b) ==
    {e.receipt : e \in {f \in book : IsCredit(f) /\ f.strategy = "COMMERCIAL_LEADER" /\ f.beneficiary = b
                            /\ recs[f.receipt].proposal = recs[r].proposal}}

LEMMA LeaderDifference ==
    ASSUME NEW old, RecordsOK(old), NEW recs, RecordsOK(recs), NEW book, IsFiniteSet(book),
           \A e \in book : e.strategy = "COMMERCIAL_LEADER" => e \in Entry,
           NEW credit, credit.strategy = "COMMERCIAL_LEADER",
           NEW r, r = credit.receipt, NEW b, b = credit.beneficiary,
           NEW paid, paid = PaidTo(recs, book, r, b), r \in paid, paid \subseteq Approved(recs),
           \A q \in paid : NetOf(LeaderBook(book, q, b)) = CommercialShare(old, q, b),
           \A q \in paid \ {r} : CommercialShare(recs, q, b) = CommercialShare(old, q, b)
    PROVE  GroupDifference(recs, book, credit) = CommercialShare(recs, r, b) - CommercialShare(old, r, b)
<1> DEFINE live == paid \intersect Liquidos(recs)
           right == [q \in live |-> CommercialShare(recs, q, b)]
           f == [q \in Receipts |-> CommercialShare(recs, q, b)]
           g == [q \in Receipts |-> CommercialShare(old, q, b)]
           net == Net(book, "COMMERCIAL_LEADER", b, paid)
<1>1. GroupDifference(recs, book, credit) = SumFunction(right) - net
  BY DEF GroupDifference, PaidTo
<1>2. paid \in SUBSET Receipts /\ IsFiniteSet(paid) /\ live \in SUBSET paid /\ DOMAIN right = live
      /\ IsFiniteSet(live)
  <2>1. paid \in SUBSET Receipts
    BY DEF Approved
  <2>2. live \in SUBSET paid /\ DOMAIN right = live
    OBVIOUS
  <2> HIDE DEF live, right
  <2> QED  BY <2>1, <2>2, ReceiptsAssumption, FS_Subset
<1>3. \A q \in Receipts : /\ f[q] = CommercialShare(recs, q, b) /\ f[q] \in Int
                          /\ g[q] = CommercialShare(old, q, b) /\ g[q] \in Int
  BY CommercialShareIs
<1>4. \A q \in live : right[q] = f[q]
  BY <1>2, <1>3
<1>5. \A q \in paid \ live : f[q] = 0
  <2> SUFFICES ASSUME NEW q \in paid \ live PROVE f[q] = 0
    OBVIOUS
  <2>1. q \in Receipts /\ q \notin Liquidos(recs) /\ q \in Approved(recs)
    BY <1>2
  <2>2. Elegivel(recs, q) \in Nat /\ ~(Elegivel(recs, q) > 0)
    BY <2>1, Eligible DEF Liquidos
  <2>3. Elegivel(recs, q) = 0
    BY <2>2
  <2> QED  BY <1>3, <2>1, <2>3, CommercialShareIs
<1> HIDE DEF right, f, g, live, net
<1>6. Numbers(f, paid) /\ Numbers(g, paid) /\ Numbers(f, paid \ {r}) /\ Numbers(g, paid \ {r})
  BY <1>2, <1>3 DEF Numbers
<1>7. SumFunction(right) = SumIn(f, paid)
  <2>1. SumFunction(right) = SumIn(f, live)
    BY <1>2, <1>4, SumOver
  <2> QED  BY <1>2, <1>5, <1>6, <2>1, SumOfOthers
<1>8. net = SumIn(g, paid)
  <2>1. \A q \in paid : g[q] = NetOf(LeaderBook(book, q, b))
    BY <1>2, <1>3
  <2> QED  BY <1>2, <2>1, LeaderNetIs DEF net
<1>9. SumIn(f, paid \ {r}) = SumIn(g, paid \ {r}) /\ SumIn(g, paid \ {r}) \in Int
  <2>1. IsFiniteSet(paid \ {r}) /\ \A q \in paid \ {r} : f[q] = g[q]
    BY <1>2, <1>3, FS_Subset
  <2> QED  BY <1>6, <2>1, SumSame, SumInt
<1>10. SumIn(f, paid) = f[r] + SumIn(f, paid \ {r}) /\ SumIn(g, paid) = g[r] + SumIn(g, paid \ {r})
  BY <1>2, <1>6, SumAny
<1>11. f[r] \in Int /\ g[r] \in Int
  BY <1>2, <1>3
<1>12. SumFunction(right) - net = f[r] - g[r]
  BY <1>7, <1>8, <1>9, <1>10, <1>11
<1> QED  BY <1>1, <1>2, <1>3, <1>12

-----------------------------------------------------------------------------
\* What a proposal that is not overpaid pays its commercial leaders: whoever
\* leads it has a line for each receipt, and whoever has lines for a receipt
\* keeps his share of it.

LeaderPaid(recs, lines, r, b) ==
    IF lines = {} THEN r \notin Liquidos(recs) \/ b # LeaderOf(recs, r)
    ELSE (\E c \in lines : IsCredit(c)) /\ NetOf(lines) = CommercialShare(recs, r, b)

Led(recs, book, p) ==
    Within(recs, p) =>
        \A r \in Of(recs, p), b \in People : LeaderPaid(recs, LeaderBook(book, r, b), r, b)

LeaderLine(recs, e) == e \in Entry /\ e.reversal <= recs[e.receipt].reversed

BookLed(recs, book) ==
    /\ \A e \in book : e.strategy = "COMMERCIAL_LEADER" => LeaderLine(recs, e)
    /\ \A p \in Proposals : Led(recs, book, p)

TxLed(recs, book, t, p) ==
    /\ \A e \in t.adds : e.strategy = "COMMERCIAL_LEADER" =>
           LeaderLine(After(recs, t.row), e) /\ recs[e.receipt].proposal = p
    /\ Led(After(recs, t.row), book \union t.adds, p)

CInv ==
    /\ BookLed(receipts, entries)
    /\ \A p \in Proposals : tx[p] # Idle => TxLed(receipts, entries, tx[p], p)

LEMMA GrownLeaderLine ==
    ASSUME NEW a, RecordsOK(a), NEW b, RecordsOK(b), Grown(a, b), NEW e, LeaderLine(a, e)
    PROVE  LeaderLine(b, e)
<1>1. e \in Entry /\ e.reversal <= a[e.receipt].reversed
  BY DEF LeaderLine
<1>2. e.receipt \in Receipts /\ e.reversal \in Nat
  BY <1>1 DEF Entry
<1>3. a[e.receipt].reversed <= b[e.receipt].reversed
      /\ a[e.receipt].reversed \in Nat /\ b[e.receipt].reversed \in Nat
  BY <1>2 DEF Grown, RecordsOK, ReceiptRow
<1> QED  BY <1>1, <1>2, <1>3 DEF LeaderLine

\* As long as it is not overpaid, a receipt goes by what is left of it.
LEMMA LeaderPaidSame ==
    ASSUME NEW a, RecordsOK(a), NEW b, RecordsOK(b), NEW p \in Proposals, Within(a, p), Within(b, p),
           Of(a, p) = Of(b, p),
           \A r \in Receipts : b[r].proposal = a[r].proposal /\ b[r].date = a[r].date,
           NEW r \in Of(a, p), Liquido(a[r]) = Liquido(b[r]),
           NEW lines, NEW c, LeaderPaid(a, lines, r, c)
    PROVE  LeaderPaid(b, lines, r, c)
<1>1. r \in Receipts /\ r \in Of(b, p) /\ r \in Approved(a) /\ r \in Approved(b)
  BY DEF Of, Approved
<1>2. Elegivel(a, r) = Liquido(a[r]) /\ Elegivel(b, r) = Liquido(b[r])
  BY <1>1, WithinInFull
<1>3. r \in Liquidos(a) <=> r \in Liquidos(b)
  BY <1>1, <1>2 DEF Liquidos
<1>4. CommercialShare(b, r, c) = CommercialShare(a, r, c)
  BY <1>1, <1>2, CommercialShareSame
<1>5. LeaderOf(b, r) = LeaderOf(a, r)
  BY LeaderSame
<1> QED  BY <1>3, <1>4, <1>5 DEF LeaderPaid

\* What others do to their proposals changes nothing.
LEMMA LedSame ==
    ASSUME NEW a, RecordsOK(a), NEW b, RecordsOK(b), NEW p \in Proposals,
           \A r \in Receipts : b[r].proposal = a[r].proposal /\ b[r].date = a[r].date,
           \A r \in Receipts : a[r].proposal = p => a[r] = b[r],
           NEW x, NEW y,
           \A r \in Receipts : a[r].proposal = p =>
               \A c \in People : LeaderBook(x, r, c) = LeaderBook(y, r, c),
           Led(a, x, p)
    PROVE  Led(b, y, p)
<1>1. Of(a, p) = Of(b, p) /\ \A r \in Of(a, p) : r \in Receipts /\ a[r].proposal = p /\ a[r] = b[r]
  BY DEF Of, Approved
<1>2. [r \in Of(a, p) |-> a[r].amount] = [r \in Of(b, p) |-> b[r].amount]
  BY <1>1
<1>3. Within(b, p) => Within(a, p)
  BY <1>2 DEF Within, GrossOf
<1> SUFFICES ASSUME Within(b, p), NEW r \in Of(b, p), NEW c \in People
             PROVE  LeaderPaid(b, LeaderBook(y, r, c), r, c)
  BY DEF Led
<1>4. LeaderPaid(a, LeaderBook(x, r, c), r, c)
  BY <1>1, <1>3 DEF Led
<1>5. LeaderBook(x, r, c) = LeaderBook(y, r, c) /\ Liquido(a[r]) = Liquido(b[r])
  BY <1>1
<1>6. LeaderPaid(b, LeaderBook(x, r, c), r, c)
  BY <1>1, <1>3, <1>4, <1>5, LeaderPaidSame
<1> QED  BY <1>5, <1>6

LEMMA RecogniseLed ==
    ASSUME NEW old, RecordsOK(old), NEW recs, RecordsOK(recs), Grown(old, recs), NEW p \in Proposals,
           NEW S, \A r \in Of(recs, p) \ S : r \in Of(old, p),
           \A r \in Receipts : Liquido(recs[r]) = Liquido(old[r]),
           NEW book, \A e \in book : e.receipt \notin S,
           Led(old, book, p)
    PROVE  Led(recs, book \union NewCredits(recs, book, p), p)
<1> DEFINE adds == NewCredits(recs, book, p)
<1> SUFFICES ASSUME Within(recs, p), NEW r \in Of(recs, p), NEW b \in People
             PROVE  LeaderPaid(recs, LeaderBook(book \union adds, r, b), r, b)
  BY DEF Led
<1> DEFINE lines == LeaderBook(book, r, b)
           new == LeaderBook(adds, r, b)
           credit == LeaderCredit(recs, r, b)
<1>1. r \in Receipts /\ Within(old, p)
  BY GrownWithin DEF Of, Approved
<1>2. LeaderBook(book \union adds, r, b) = lines \union new
  BY DEF LeaderBook
<1>3. new = IF r \in Liquidos(recs) /\ b = LeaderOf(recs, r) /\ lines = {} THEN {credit} ELSE {}
  BY LeaderCredits
<1>4. IsCredit(credit) /\ credit.amount = CommercialShare(recs, r, b) /\ CommercialShare(recs, r, b) \in Int
  BY <1>1, CommercialShareIs DEF LeaderCredit, NewCredit, IsCredit
<1>5. NetOf({credit}) = CommercialShare(recs, r, b)
  <2> HIDE DEF credit
  <2>1. NetOf({} \union {credit}) = NetOf({}) + credit.amount
    BY <1>4, NetGrows, FS_EmptySet
  <2>2. {} \union {credit} = {credit}
    OBVIOUS
  <2> QED  BY <1>4, <2>1, <2>2, NetOfNone
<1>6. ASSUME lines # {} PROVE LeaderPaid(recs, lines, r, b)
  <2>1. r \notin S
    BY <1>6 DEF LeaderBook
  <2>2. r \in Of(old, p)
    BY <2>1
  <2>3. LeaderPaid(old, lines, r, b)
    BY <1>1, <2>2 DEF Led
  <2>4. Elegivel(old, r) = Liquido(old[r]) /\ Elegivel(recs, r) = Liquido(recs[r])
    BY <1>1, <2>2, WithinInFull
  <2>5. Elegivel(old, r) = Elegivel(recs, r)
    BY <1>1, <2>4
  <2>6. recs[r].proposal = old[r].proposal /\ recs[r].date = old[r].date
    BY <1>1 DEF Grown
  <2>7. CommercialShare(recs, r, b) = CommercialShare(old, r, b)
    BY <2>5, <2>6, CommercialShareSame
  <2> HIDE DEF lines
  <2> QED  BY <1>6, <2>3, <2>7 DEF LeaderPaid
<1> HIDE DEF adds, lines, new, credit
<1>7. CASE lines # {}
  BY <1>2, <1>3, <1>6, <1>7
<1>8. CASE lines = {}
  BY <1>2, <1>3, <1>4, <1>5, <1>8 DEF LeaderPaid
<1> QED  BY <1>7, <1>8

LEMMA DifferenceOfOrigin ==
    ASSUME NEW recs, NEW book, NEW e, NEW f,
           e.receipt = f.receipt, e.beneficiary = f.beneficiary, e.strategy = f.strategy
    PROVE  GroupDifference(recs, book, e) = GroupDifference(recs, book, f)
  BY Zenon DEF GroupDifference

LEMMA LeaderDifferenceInteger ==
    ASSUME NEW recs, RecordsOK(recs), NEW book, IsFiniteSet(book),
           \A e \in book : e.strategy = "COMMERCIAL_LEADER" => e \in Entry,
           NEW credit, credit.strategy = "COMMERCIAL_LEADER"
    PROVE  GroupDifference(recs, book, credit) \in Int
<1> DEFINE r == credit.receipt
           b == credit.beneficiary
           paid == PaidTo(recs, book, r, b)
           right == [q \in paid \intersect Liquidos(recs) |-> CommercialShare(recs, q, b)]
           E == {e \in book : e.strategy = "COMMERCIAL_LEADER" /\ e.beneficiary = b /\ e.receipt \in paid}
<1>1. GroupDifference(recs, book, credit) = SumFunction(right) - NetOf(E)
  BY DEF GroupDifference, PaidTo, Net
<1>2. DOMAIN right \subseteq Receipts /\ \A q \in DOMAIN right : right[q] \in Int
  BY CommercialShareIs DEF Liquidos, Approved
<1>3. E \subseteq book /\ \A e \in E : e.amount \in Int
  <2>1. \A e \in E : e \in Entry
    OBVIOUS
  <2> QED  BY <2>1 DEF Entry
<1> HIDE DEF right, E
<1>4. SumFunction(right) \in Int
  BY <1>2, ReceiptsSum
<1>5. NetOf(E) \in Int
  BY <1>3, FS_Subset, NetGrows
<1> QED  BY <1>1, <1>4, <1>5

-----------------------------------------------------------------------------
\* Credits of one book are told apart by their origin.
OneCreditIn(book) == \A e, f \in book : IsCredit(e) /\ IsCredit(f) /\ SameOrigin(e, f) => e = f

\* A reversal of r with what the rows old and the book said before it.
LeaderReversal(old, recs, book, r) ==
    /\ RecordsOK(old) /\ RecordsOK(recs) /\ Grown(old, recs)
    /\ \A q \in Receipts : recs[q].status = old[q].status /\ (q # r => recs[q] = old[q])
    /\ old[r].reversed < recs[r].reversed
    /\ IsFiniteSet(book) /\ OneCreditIn(book) /\ BookGranted(old, book)
    /\ \A e \in book : /\ "strategy" \in DOMAIN e
                       /\ e.strategy = "COMMERCIAL_LEADER" => LeaderLine(old, e)

LEMMA LeaderDebitLines ==
    ASSUME NEW r \in Receipts, NEW old, NEW recs, NEW book, LeaderReversal(old, recs, book, r),
           NEW reversal, reversal = recs[r].reversed, NEW amount,
           NEW e \in NewDebits(recs, book, r, reversal, amount), e.strategy = "COMMERCIAL_LEADER"
    PROVE  /\ LeaderLine(recs, e) /\ e.receipt = r /\ e \notin book
           /\ \E f \in LeaderBook(book, r, e.beneficiary) :
                 /\ IsCredit(f) /\ GroupDifference(recs, book, f) < 0
                 /\ e = NewDebit(f, reversal, GroupDifference(recs, book, f))
           /\ e.amount = GroupDifference(recs, book, e)
<1>1. PICK f \in book : /\ IsCredit(f) /\ f.receipt = r /\ f.strategy = "COMMERCIAL_LEADER"
                        /\ GroupDifference(recs, book, f) < 0
                        /\ e = NewDebit(f, reversal, GroupDifference(recs, book, f))
  BY LeaderDebitsAre DEF LeaderReversal
<1> DEFINE value == GroupDifference(recs, book, f)
<1>2. \A g \in book : g.strategy = "COMMERCIAL_LEADER" => g \in Entry
  BY DEF LeaderReversal, LeaderLine
<1>3. value \in Int
  BY <1>1, <1>2, LeaderDifferenceInteger DEF LeaderReversal
<1>4. f \in Entry /\ recs[r].reversed \in Nat /\ old[r].reversed \in Nat
  BY <1>1, <1>2 DEF LeaderReversal, RecordsOK, ReceiptRow
<1>5. e = [f EXCEPT !.reversal = reversal, !.amount = value]
  BY <1>1 DEF NewDebit
<1> HIDE DEF value
<1>6. e \in Entry /\ e.receipt = r /\ e.reversal = reversal /\ e.beneficiary = f.beneficiary /\ e.amount = value
  BY <1>1, <1>3, <1>4, <1>5 DEF Entry
<1>7. e \notin book
  <2>1. ASSUME e \in book PROVE e.reversal <= old[r].reversed
    BY <1>6, <2>1 DEF LeaderReversal, LeaderLine
  <2> QED  BY <1>4, <1>6, <2>1 DEF LeaderReversal
<1>8. LeaderLine(recs, e)
  BY <1>4, <1>6 DEF LeaderLine
<1>9. f \in LeaderBook(book, r, e.beneficiary)
  BY <1>1, <1>6 DEF LeaderBook
<1>10. GroupDifference(recs, book, e) = value
  <2>1. e.receipt = f.receipt /\ e.beneficiary = f.beneficiary /\ e.strategy = f.strategy
    BY <1>1, <1>6
  <2> QED  BY <2>1, DifferenceOfOrigin DEF value
<1> QED  BY <1>1, <1>6, <1>7, <1>8, <1>9, <1>10

LEMMA ReverseLed ==
    ASSUME NEW p \in Proposals, NEW old, NEW r \in Of(old, p), NEW recs, NEW book,
           LeaderReversal(old, recs, book, r), Led(old, book, p),
           NEW reversal, reversal = recs[r].reversed, NEW amount
    PROVE  Led(recs, book \union NewDebits(recs, book, r, reversal, amount), p)
<1> DEFINE adds == NewDebits(recs, book, r, reversal, amount)
<1>1. r \in Receipts /\ r \in Approved(old) /\ old[r].proposal = p
  BY DEF Of, Approved
<1>2. RecordsOK(old) /\ RecordsOK(recs) /\ Grown(old, recs) /\ IsFiniteSet(book)
      /\ \A q \in Receipts : recs[q].proposal = old[q].proposal /\ recs[q].date = old[q].date
  BY DEF LeaderReversal, Grown
<1>3. Of(recs, p) = Of(old, p) /\ Approved(recs) = Approved(old)
  BY <1>2 DEF LeaderReversal, Of, Approved
<1> SUFFICES ASSUME Within(recs, p), NEW q \in Of(recs, p), NEW b \in People
             PROVE  LeaderPaid(recs, LeaderBook(book \union adds, q, b), q, b)
  BY DEF Led
<1>4. q \in Receipts /\ q \in Of(old, p) /\ Within(old, p)
  BY <1>2, <1>3, GrownWithin DEF Of, Approved
<1> DEFINE lines == LeaderBook(book, q, b)
           new == LeaderBook(adds, q, b)
<1>5. LeaderBook(book \union adds, q, b) = lines \union new
  BY DEF LeaderBook
<1>6. LeaderPaid(old, lines, q, b)
  BY <1>4 DEF Led
<1>7. \A e \in new : /\ e \in adds /\ e.strategy = "COMMERCIAL_LEADER" /\ e.beneficiary = b
                     /\ e.receipt = q
  BY DEF LeaderBook
<1>8. CASE q # r
  <2>1. new = {}
    BY <1>1, <1>7, <1>8, LeaderDebitLines
  <2>2. Liquido(old[q]) = Liquido(recs[q])
    BY <1>4, <1>8 DEF LeaderReversal
  <2> HIDE DEF lines, new
  <2>3. LeaderPaid(recs, lines, q, b)
    BY <1>2, <1>3, <1>4, <1>6, <2>2, LeaderPaidSame
  <2>4. lines \union new = lines
    BY <2>1
  <2> QED  BY <1>5, <2>3, <2>4
<1>9. Elegivel(old, q) = Liquido(old[q]) /\ Elegivel(recs, q) = Liquido(recs[q])
  BY <1>2, <1>4, WithinInFull
<1>10. CASE q = r /\ lines = {}
  <2>1. new = {}
    BY <1>1, <1>7, <1>10, LeaderDebitLines
  <2>2. q \in Liquidos(old)
    <3>1. Liquido(old[r]) = old[r].amount - old[r].reversed /\ Liquido(recs[r]) = recs[r].amount - recs[r].reversed
      BY <1>1, <1>2, KeptIsNatural
    <3>2. Liquido(recs[r]) \in Nat /\ recs[r].amount = old[r].amount
          /\ old[r].amount \in Nat /\ old[r].reversed \in Nat /\ recs[r].reversed \in Nat
      BY <1>1, <1>2, KeptIsNatural DEF Grown
    <3>3. Liquido(old[r]) > 0
      BY <3>1, <3>2 DEF LeaderReversal
    <3> QED  BY <1>1, <1>9, <1>10, <3>3 DEF Liquidos
  <2>3. b # LeaderOf(old, q)
    BY <1>6, <1>10, <2>2 DEF LeaderPaid
  <2>4. LeaderOf(recs, q) = LeaderOf(old, q)
    BY <1>2, <1>3, <1>4, LeaderSame
  <2> HIDE DEF lines, new
  <2>5. LeaderPaid(recs, lines \union new, q, b)
    BY <1>10, <2>1, <2>3, <2>4 DEF LeaderPaid
  <2> QED  BY <1>5, <2>5
<1>11. CASE q = r /\ lines # {}
  <2>1. PICK f \in lines : IsCredit(f)
    BY <1>6, <1>11 DEF LeaderPaid
  <2>2. f \in book /\ f.strategy = "COMMERCIAL_LEADER" /\ f.receipt = r /\ f.beneficiary = b
    BY <1>11, <2>1 DEF LeaderBook
  <2> DEFINE paid == PaidTo(recs, book, r, b)
             before == CommercialShare(old, r, b)
             after == CommercialShare(recs, r, b)
             value == GroupDifference(recs, book, f)
  <2>3. r \in paid /\ \A s \in paid : s \in Approved(old) /\ s \in Of(old, p) /\ LeaderBook(book, s, b) # {}
    <3>1. r \in paid
      BY <2>1, <2>2 DEF PaidTo
    <3>2. ASSUME NEW s \in paid PROVE s \in Approved(old) /\ s \in Of(old, p) /\ LeaderBook(book, s, b) # {}
      <4>1. PICK e \in book : /\ e.strategy = "COMMERCIAL_LEADER" /\ e.beneficiary = b /\ e.receipt = s
                              /\ recs[s].proposal = recs[r].proposal
        BY DEF PaidTo
      <4>2. s \in Receipts /\ old[s].status = "APPROVED"
        BY <4>1 DEF LeaderReversal, BookGranted
      <4>3. e \in LeaderBook(book, s, b)
        BY <4>1 DEF LeaderBook
      <4>4. old[s].proposal = p
        BY <1>1, <1>2, <4>1, <4>2
      <4> QED  BY <4>2, <4>3, <4>4 DEF Of, Approved
    <3> QED  BY <3>1, <3>2
  <2> HIDE DEF paid
  <2>4. \A s \in paid : NetOf(LeaderBook(book, s, b)) = CommercialShare(old, s, b)
    BY <1>4, <2>3 DEF Led, LeaderPaid
  <2>5. ASSUME NEW s \in paid \ {r} PROVE CommercialShare(recs, s, b) = CommercialShare(old, s, b)
    <3>1. s \in Receipts /\ s \in Of(old, p) /\ s \in Of(recs, p) /\ recs[s] = old[s]
      BY <1>3, <2>3 DEF LeaderReversal, Approved
    <3>2. Elegivel(old, s) = Liquido(old[s]) /\ Elegivel(recs, s) = Liquido(recs[s])
      BY <1>2, <1>4, <3>1, WithinInFull
    <3> QED  BY <3>1, <3>2, CommercialShareSame
  <2>6. value = after - before
    <3>1. \A e \in book : e.strategy = "COMMERCIAL_LEADER" => e \in Entry
      BY DEF LeaderReversal, LeaderLine
    <3>2. paid \subseteq Approved(recs) /\ paid = PaidTo(recs, book, r, b)
      BY <1>3, <2>3 DEF paid
    <3> QED  BY <1>2, <2>2, <2>3, <2>4, <2>5, <3>1, <3>2, LeaderDifference
  <2>7. after \in Nat /\ before \in Nat /\ after <= before
    <3>1. /\ after = Percent(Liquido(recs[r]), LeaderRate(recs, r, b))
          /\ before = Percent(Liquido(old[r]), LeaderRate(old, r, b))
          /\ after \in Nat /\ before \in Nat /\ LeaderRate(old, r, b) \in Nat
      BY <1>1, <1>2, <1>9, <1>11, CommercialShareIs
    <3>2. LeaderRate(recs, r, b) = LeaderRate(old, r, b)
      BY <1>1, <1>2 DEF LeaderRate, ConfigOf
    <3>3. Liquido(recs[r]) \in Nat /\ Liquido(old[r]) \in Nat /\ Liquido(recs[r]) <= Liquido(old[r])
      <4>1. /\ Liquido(old[r]) = old[r].amount - old[r].reversed /\ Liquido(old[r]) \in Nat
            /\ Liquido(recs[r]) = recs[r].amount - recs[r].reversed /\ Liquido(recs[r]) \in Nat
            /\ old[r].amount \in Nat /\ old[r].reversed \in Nat /\ recs[r].reversed \in Nat
        BY <1>1, <1>2, KeptIsNatural
      <4>2. recs[r].amount = old[r].amount /\ old[r].reversed < recs[r].reversed
        BY <1>1 DEF LeaderReversal, Grown
      <4> QED  BY <4>1, <4>2
    <3> QED  BY <3>1, <3>2, <3>3, PercentMonotone
  <2> DEFINE d == NewDebit(f, reversal, value)
  <2>8. \A g \in book : IsCredit(g) /\ g \in lines => g = f
    BY <2>1, <2>2 DEF LeaderReversal, OneCreditIn, SameOrigin, LeaderBook
  <2>9. ASSUME NEW e \in new PROVE e = d /\ value < 0 /\ e \notin book /\ e.amount = value
    <3>1. /\ e \notin book
          /\ \E g \in LeaderBook(book, r, e.beneficiary) :
                 /\ IsCredit(g) /\ GroupDifference(recs, book, g) < 0
                 /\ e = NewDebit(g, reversal, GroupDifference(recs, book, g))
          /\ e.amount = GroupDifference(recs, book, e)
      BY <1>1, <1>7, LeaderDebitLines
    <3>2. PICK g \in lines : /\ IsCredit(g) /\ GroupDifference(recs, book, g) < 0
                             /\ e = NewDebit(g, reversal, GroupDifference(recs, book, g))
      BY <1>7, <1>11, <3>1
    <3>3. g = f
      BY <2>8, <3>2 DEF LeaderBook
    <3>4. GroupDifference(recs, book, e) = value
      BY <1>7, <1>11, <2>2 DEF GroupDifference
    <3> QED  BY <3>1, <3>2, <3>3, <3>4
  <2>10. ASSUME value < 0 PROVE d \in new
    <3>1. d \in GroupDebits(recs, book, r, reversal)
      <4>1. f \in CreditsOf(book, r, Groups)
        BY <2>1, <2>2 DEF CreditsOf, Groups
      <4> QED  BY <2>10, <4>1 DEF GroupDebits
    <3>2. d \in adds
      BY <3>1 DEF NewDebits
    <3>3. f \in Entry
      BY <2>2 DEF LeaderReversal, LeaderLine
    <3>4. d.strategy = "COMMERCIAL_LEADER" /\ d.receipt = q /\ d.beneficiary = b
      BY <1>11, <2>2, <3>3 DEF NewDebit, Entry
    <3> HIDE DEF d
    <3> QED  BY <3>2, <3>4 DEF LeaderBook
  <2>11. NetOf(lines) = before
    BY <1>6, <1>11 DEF LeaderPaid
  <2>12. IsFiniteSet(lines) /\ \A e \in lines : e.amount \in Int
    <3>1. lines \subseteq book /\ \A e \in lines : e \in Entry
      BY DEF LeaderBook, LeaderReversal, LeaderLine
    <3>2. IsFiniteSet(lines)
      BY <1>2, <3>1, FS_Subset
    <3> QED  BY <3>1, <3>2 DEF Entry
  <2>13. lines \subseteq book
    BY DEF LeaderBook
  <2> HIDE DEF lines, new, d, value, before, after, adds
  <2>14. NetOf(lines \union new) = after
    <3>1. CASE value < 0
      <4>1. new = {d} /\ d \notin lines /\ d.amount = value
        BY <2>9, <2>10, <2>13, <3>1
      <4>2. value \in Int
        BY <2>6, <2>7
      <4>3. NetOf(lines \union {d}) = NetOf(lines) + value
        BY <2>12, <4>1, <4>2, NetGrows
      <4> QED  BY <2>6, <2>7, <2>11, <4>1, <4>3
    <3>2. CASE ~(value < 0)
      <4>1. new = {}
        BY <2>9, <3>2
      <4>2. after = before /\ lines \union new = lines
        BY <2>6, <2>7, <3>2, <4>1
      <4> QED  BY <2>11, <4>2
    <3> QED  BY <3>1, <3>2
  <2>15. NetOf(lines \union new) = CommercialShare(recs, q, b)
    BY <1>11, <2>14 DEF after
  <2>16. LeaderPaid(recs, lines \union new, q, b)
    BY <2>1, <2>15 DEF LeaderPaid
  <2> QED  BY <1>5, <2>16 DEF lines, new, adds
<1> QED  BY <1>8, <1>10, <1>11

-----------------------------------------------------------------------------
\* The invariant is kept.

LEMMA CInvBegins ==
    ASSUME MInv, CInv, NEW p \in Proposals, NEW request, tx' = [tx EXCEPT ![p] = request],
           UNCHANGED <<receipts, entries>>, TxLed(receipts, entries, request, p)
    PROVE  CInv'
<1>1. \A q \in Proposals : tx'[q] = IF q = p THEN request ELSE tx[q]
  BY DEF MInv
<1>2. receipts' = receipts /\ entries' = entries
  OBVIOUS
<1>3. \A q \in Proposals : tx'[q] # Idle => TxLed(receipts, entries, tx'[q], q)
  BY <1>1 DEF CInv
<1>4. BookLed(receipts, entries)
  BY DEF CInv
<1> QED  BY <1>2, <1>3, <1>4 DEF CInv

LEMMA CInvRecognises ==
    ASSUME MInv, MInv', GInv, SInv', CInv, NEW p \in Proposals, NEW S \in SUBSET Receipts,
           BeginRecognise(p, S)
    PROVE  CInv'
<1> DEFINE recs == [r \in Receipts |->
                       IF r \in S THEN [receipts[r] EXCEPT !.status = "APPROVED"] ELSE receipts[r]]
           adds == NewCredits(recs, entries, p)
           row == [r \in S |-> recs[r]]
           request == Request("recognise", Consultant[p], row, adds)
<1>1. /\ tx' = [tx EXCEPT ![p] = request] /\ UNCHANGED <<receipts, entries>>
      /\ \A r \in S : receipts[r].proposal = p /\ receipts[r].status = "SUBMITTED"
  BY DEF BeginRecognise
<1>2. RecordsOK(receipts)
  BY DEF MInv, BookMoney
<1>3. \A r \in Receipts : /\ SameReceipt(receipts[r], recs[r])
                          /\ r \notin S => recs[r] = receipts[r]
  BY <1>2 DEF RecordsOK, ReceiptRow, SameReceipt
<1>4. /\ request.row = row /\ request.adds = adds /\ request # Idle
      /\ DOMAIN row = S /\ After(receipts, row) = recs
  BY DEF Request, After, Idle
<1> HIDE DEF recs, row, request
<1>5. RecordsOK(recs) /\ Grown(receipts, recs)
  <2>1. tx'[p] = request
    BY <1>1 DEF MInv
  <2>2. TxMoney(receipts, entries, request, p) /\ TxScaled(receipts, entries, request, p)
    BY <1>1, <1>4, <2>1 DEF MInv, SInv
  <2> QED  BY <1>4, <2>2 DEF TxMoney, TxScaled
<1>6. \A r \in Of(recs, p) \ S : r \in Of(receipts, p)
  BY <1>3 DEF Of, Approved
<1>7. \A r \in Receipts : Liquido(recs[r]) = Liquido(receipts[r])
  BY <1>3 DEF SameReceipt, Liquido
<1>8. \A e \in entries : e.receipt \notin S
  BY <1>1 DEF GInv, BookGranted
<1>9. Led(receipts, entries, p)
  BY DEF CInv, BookLed
<1>10. Led(recs, entries \union adds, p)
  BY <1>2, <1>5, <1>6, <1>7, <1>8, <1>9, RecogniseLed
<1>11. ASSUME NEW e \in adds, e.strategy = "COMMERCIAL_LEADER"
       PROVE  LeaderLine(recs, e) /\ receipts[e.receipt].proposal = p
  <2>1. e \in Entry /\ e.reversal = 0 /\ e.receipt \in Of(recs, p)
    BY <1>5, <1>11, LeaderCreditsAre
  <2>2. e.receipt \in Receipts /\ recs[e.receipt].proposal = p
    BY <2>1 DEF Of, Approved
  <2>3. recs[e.receipt].reversed \in Nat
    BY <1>5, <2>2 DEF RecordsOK, ReceiptRow
  <2> QED  BY <1>3, <2>1, <2>2, <2>3 DEF LeaderLine, SameReceipt
<1> HIDE DEF adds
<1>12. TxLed(receipts, entries, request, p)
  BY <1>4, <1>10, <1>11 DEF TxLed
<1> QED  BY <1>1, <1>12, CInvBegins

LEMMA CInvReverses ==
    ASSUME LInv, MInv, MInv', GInv, SInv, SInv', CInv, NEW r \in Receipts, NEW x \in Int, BeginReverse(r, x),
           NEW p \in Proposals, p = receipts[r].proposal
    PROVE  CInv'
<1> DEFINE recs == Reversed(r, x)
           adds == NewDebits(recs, entries, r, recs[r].reversed, x)
           row == [q \in {r} |-> recs[q]]
           request == Request("reverse", IF IsScaled(entries, r) THEN Consultant[p] ELSE NoOne, row, adds)
<1>1. /\ tx' = [tx EXCEPT ![p] = request] /\ UNCHANGED <<receipts, entries>>
      /\ receipts[r].status = "APPROVED" /\ 0 < x
  BY DEF BeginReverse
<1>2. RecordsOK(receipts) /\ \A e \in entries : EntryOK(receipts, e)
  BY DEF MInv, BookMoney
<1>3. /\ \A q \in Receipts : recs[q].status = receipts[q].status /\ (q # r => recs[q] = receipts[q])
      /\ recs[r].reversed = receipts[r].reversed + x /\ receipts[r].reversed \in Nat
      /\ recs = [q \in Receipts |-> recs[q]]
  BY <1>2 DEF Reversed, RecordsOK, ReceiptRow
<1>4. request.row = row /\ request.adds = adds /\ request # Idle /\ DOMAIN row = {r} /\ row[r] = recs[r]
  BY DEF Request, Idle
<1> HIDE DEF recs, row, request
<1>5. After(receipts, row) = recs
  BY <1>3, <1>4 DEF After
<1>6. RecordsOK(recs) /\ Grown(receipts, recs)
  <2>1. tx'[p] = request
    BY <1>1 DEF MInv
  <2>2. TxMoney(receipts, entries, request, p) /\ TxScaled(receipts, entries, request, p)
    BY <1>1, <1>4, <2>1 DEF MInv, SInv
  <2> QED  BY <1>4, <1>5, <2>2 DEF TxMoney, TxScaled
<1>7. LeaderReversal(receipts, recs, entries, r)
  <2>1. receipts[r].reversed < recs[r].reversed
    BY <1>1, <1>3
  <2>2. IsFiniteSet(entries) /\ OneCreditIn(entries) /\ BookGranted(receipts, entries)
    BY DEF SInv, BookScaled, LInv, OneCredit, OneCreditIn, GInv
  <2>3. \A e \in entries : /\ "strategy" \in DOMAIN e
                           /\ e.strategy = "COMMERCIAL_LEADER" => LeaderLine(receipts, e)
    BY <1>2 DEF EntryOK, CInv, BookLed
  <2> QED  BY <1>2, <1>3, <1>6, <2>1, <2>2, <2>3 DEF LeaderReversal
<1>8. r \in Of(receipts, p) /\ Led(receipts, entries, p)
  BY <1>1 DEF Of, Approved, CInv, BookLed
<1>9. Led(recs, entries \union adds, p)
  BY <1>7, <1>8, ReverseLed
<1>10. \A e \in adds : e.strategy = "COMMERCIAL_LEADER" =>
           LeaderLine(recs, e) /\ receipts[e.receipt].proposal = p
  BY <1>7, LeaderDebitLines
<1> HIDE DEF adds
<1>11. TxLed(receipts, entries, request, p)
  BY <1>4, <1>5, <1>9, <1>10 DEF TxLed
<1> QED  BY <1>1, <1>11, CInvBegins

LEMMA CInvCommits ==
    ASSUME MInv, MInv', SInv, CInv, NEW p \in Proposals, Commit(p)
    PROVE  CInv'
<1> DEFINE t == tx[p]
           recs == After(receipts, t.row)
           book == entries \union t.adds
<1>1. t # Idle /\ receipts' = recs /\ entries' = book /\ tx' = [tx EXCEPT ![p] = Idle]
  BY DEF Commit, After
<1>2. \A q \in Proposals : tx'[q] = IF q = p THEN Idle ELSE tx[q]
  BY <1>1 DEF MInv
<1>3. /\ TxMoney(receipts, entries, t, p) /\ TxScaled(receipts, entries, t, p) /\ TxLed(receipts, entries, t, p)
      /\ BookLed(receipts, entries) /\ RecordsOK(receipts)
  BY <1>1 DEF MInv, BookMoney, SInv, CInv
<1>4. RecordsOK(recs) /\ Grown(receipts, recs)
  BY <1>3 DEF TxMoney, TxScaled
<1>5. \A r \in Receipts : /\ recs[r].proposal = receipts[r].proposal /\ recs[r].date = receipts[r].date
                          /\ receipts[r].proposal # p => recs[r] = receipts[r]
  BY <1>3 DEF TxMoney, After
<1>6. \A e \in t.adds : e.strategy = "COMMERCIAL_LEADER" =>
          LeaderLine(recs, e) /\ receipts[e.receipt].proposal = p
  BY <1>3 DEF TxLed
<1>7. Led(recs, book, p)
  BY <1>3 DEF TxLed
<1> HIDE DEF t, recs
<1>8. \A e \in book : e.strategy = "COMMERCIAL_LEADER" => LeaderLine(recs, e)
  BY <1>3, <1>4, <1>6, GrownLeaderLine DEF BookLed
<1>9. ASSUME NEW q \in Proposals, q # p, NEW r \in Receipts, receipts[r].proposal = q, NEW c, NEW more
      PROVE  LeaderBook(book \union more, r, c) = LeaderBook(entries \union more, r, c)
  <2>1. \A e \in t.adds : ~(e.strategy = "COMMERCIAL_LEADER" /\ e.receipt = r)
    BY <1>6, <1>9
  <2> QED  BY <2>1 DEF LeaderBook
<1> HIDE DEF book
<1>10. ASSUME NEW q \in Proposals, q # p PROVE Led(recs, book, q)
  <2>1. \A r \in Receipts : receipts[r].proposal = q => \A c \in People : LeaderBook(entries, r, c) = LeaderBook(book, r, c)
    <3>1. entries \union {} = entries /\ book \union {} = book
      OBVIOUS
    <3>2. \A r \in Receipts : receipts[r].proposal = q =>
              \A c \in People : LeaderBook(entries \union {}, r, c) = LeaderBook(book \union {}, r, c)
      BY <1>9, <1>10
    <3> QED  BY <3>1, <3>2
  <2>2. Led(receipts, entries, q)
    BY <1>3 DEF BookLed
  <2>3. \A r \in Receipts : receipts[r].proposal = q => receipts[r] = recs[r]
    BY <1>5, <1>10
  <2>4. \A r \in Receipts : recs[r].proposal = receipts[r].proposal /\ recs[r].date = receipts[r].date
    BY <1>5
  <2> QED  BY <1>3, <1>4, <2>1, <2>2, <2>3, <2>4, LedSame
<1>11. BookLed(recs, book)
  BY <1>7, <1>8, <1>10 DEF BookLed
<1>12. ASSUME NEW q \in Proposals, tx'[q] # Idle PROVE TxLed(recs, book, tx'[q], q)
  <2> DEFINE u == tx[q]
             a == After(receipts, u.row)
             b == After(recs, u.row)
             x == entries \union u.adds
             y == book \union u.adds
  <2>1. q # p /\ tx'[q] = u /\ u # Idle
    BY <1>2, <1>12
  <2>2. TxMoney(receipts, entries, u, q) /\ TxLed(receipts, entries, u, q)
    BY <2>1 DEF MInv, CInv
  <2>3. TxMoney(recs, book, u, q)
    BY <1>1, <1>12, <2>1 DEF MInv
  <2>4. RecordsOK(a) /\ RecordsOK(b)
    BY <2>2, <2>3 DEF TxMoney
  <2>5. \A r \in DOMAIN u.row : /\ r \in Receipts /\ receipts[r].proposal = q
                                /\ u.row[r].proposal = q /\ u.row[r].date = receipts[r].date
    BY <2>2 DEF TxMoney
  <2>6. \A r \in Receipts : /\ a[r] = (IF r \in DOMAIN u.row THEN u.row[r] ELSE receipts[r])
                            /\ b[r] = (IF r \in DOMAIN u.row THEN u.row[r] ELSE recs[r])
    BY DEF After
  <2>7. /\ Led(a, x, q)
        /\ \A e \in u.adds : e.strategy = "COMMERCIAL_LEADER" => LeaderLine(a, e) /\ receipts[e.receipt].proposal = q
    BY <2>2 DEF TxLed
  <2> HIDE DEF u, a, b
  <2>8. \A r \in Receipts : /\ b[r].proposal = a[r].proposal /\ b[r].date = a[r].date
                            /\ a[r].proposal = receipts[r].proposal
                            /\ a[r].proposal = q => a[r] = b[r]
    <3> SUFFICES ASSUME NEW r \in Receipts
                 PROVE  /\ b[r].proposal = a[r].proposal /\ b[r].date = a[r].date
                        /\ a[r].proposal = receipts[r].proposal
                        /\ a[r].proposal = q => a[r] = b[r]
      OBVIOUS
    <3>1. CASE r \in DOMAIN u.row
      BY <2>5, <2>6, <3>1
    <3>2. CASE r \notin DOMAIN u.row
      BY <1>5, <2>1, <2>6, <3>2
    <3> QED  BY <3>1, <3>2
  <2>9. \A r \in Receipts : a[r].proposal = q => \A c \in People : LeaderBook(x, r, c) = LeaderBook(y, r, c)
    BY <1>9, <2>1, <2>8
  <2> HIDE DEF x, y
  <2>10. Led(b, y, q)
    BY <2>4, <2>7, <2>8, <2>9, LedSame
  <2>11. ASSUME NEW e \in u.adds, e.strategy = "COMMERCIAL_LEADER"
         PROVE  LeaderLine(b, e) /\ recs[e.receipt].proposal = q
    <3>1. LeaderLine(a, e) /\ receipts[e.receipt].proposal = q
      BY <2>7, <2>11
    <3>2. e.receipt \in Receipts
      BY <3>1 DEF LeaderLine, Entry
    <3>3. a[e.receipt] = b[e.receipt]
      BY <2>8, <3>1, <3>2
    <3> QED  BY <1>5, <3>1, <3>2, <3>3 DEF LeaderLine
  <2>12. TxLed(recs, book, u, q)
    BY <2>10, <2>11 DEF TxLed, b, y
  <2> QED  BY <2>1, <2>12
<1> QED  BY <1>1, <1>11, <1>12 DEF CInv

LEMMA CInvInitially == LedgerInit => CInv
<1> SUFFICES ASSUME LedgerInit PROVE CInv
  OBVIOUS
<1>1. entries = {} /\ tx = [p \in Proposals |-> Idle]
  BY DEF LedgerInit
<1>2. \A r \in Receipts : receipts[r].status # "APPROVED"
  <2>1. PICK f \in Declarations :
            receipts = [r \in Receipts |->
                [proposal |-> f[r].proposal, amount |-> f[r].amount, date |-> f[r].date,
                 status |-> f[r].status, reversed |-> 0]]
    BY DEF LedgerInit
  <2>2. \A r \in Receipts : f[r].status \in {"SUBMITTED", "REJECTED"}
    BY DeclarationsAssumption
  <2> QED  BY <2>1, <2>2
<1>3. \A p \in Proposals : Of(receipts, p) = {}
  BY <1>2 DEF Of, Approved
<1>4. BookLed(receipts, entries)
  BY <1>1, <1>3 DEF BookLed, Led
<1> QED  BY <1>1, <1>4 DEF CInv

LEMMA CInvKept ==
    LInv /\ MInv /\ MInv' /\ GInv /\ SInv /\ SInv' /\ CInv /\ [LedgerNext]_ledgerVars => CInv'
<1> SUFFICES ASSUME LInv, MInv, MInv', GInv, SInv, SInv', CInv, [LedgerNext]_ledgerVars PROVE CInv'
  OBVIOUS
<1>1. CASE UNCHANGED <<receipts, entries, tx>>
  BY <1>1 DEF CInv
<1>2. ASSUME NEW p \in Proposals, NEW S \in SUBSET Receipts, BeginRecognise(p, S) PROVE CInv'
  BY <1>2, CInvRecognises
<1>3. ASSUME NEW r \in Receipts, NEW total \in Levels[r] \union {receipts[r].amount},
             BeginReverse(r, total - receipts[r].reversed)
      PROVE  CInv'
  <2>1. receipts[r].reversed \in Nat /\ total \in Nat /\ receipts[r].proposal \in Proposals
    BY DeclarationsAssumption DEF MInv, BookMoney, RecordsOK, ReceiptRow
  <2> QED  BY <1>3, <2>1, CInvReverses
<1>4. ASSUME NEW p \in Proposals, Commit(p) PROVE CInv'
  BY <1>4, CInvCommits
<1>5. CASE UNCHANGED ledgerVars
  BY <1>1, <1>5 DEF ledgerVars
<1> QED  BY <1>1, <1>2, <1>3, <1>4, <1>5 DEF LedgerNext, CloseLedgerPeriod, ReopenPeriod

LEMMA LeadersArePaid == MInv /\ CInv => LeaderFollowsMoney
<1> SUFFICES ASSUME MInv, CInv, NEW r \in Approved(receipts), NEW b \in People,
                    ~Overpaid(receipts[r].proposal)
             PROVE  IF LeaderLines(r, b) = {}
                    THEN r \notin Liquidos(receipts) \/ b # Beneficiary(receipts, "COMMERCIAL_LEADER", r)
                    ELSE NetOf(LeaderLines(r, b)) = CommercialShare(receipts, r, b)
  BY DEF LeaderFollowsMoney
<1> DEFINE p == receipts[r].proposal
<1>1. p \in Proposals /\ r \in Of(receipts, p)
  BY DEF MInv, BookMoney, RecordsOK, ReceiptRow, Approved, Of
<1>2. Gross(p) \in Nat /\ Commission[p] \in Nat /\ Gross(p) = GrossOf(receipts, p)
  BY <1>1, GrossFacts, ProposalsAssumption DEF MInv, BookMoney, Gross, GrossOf
<1>3. Within(receipts, p)
  BY <1>2 DEF Overpaid, Within
<1>4. LeaderPaid(receipts, LeaderBook(entries, r, b), r, b)
  BY <1>1, <1>3 DEF CInv, BookLed, Led
<1>5. LeaderBook(entries, r, b) = LeaderLines(r, b)
  BY DEF LeaderBook, LeaderLines
<1> QED  BY <1>4, <1>5 DEF LeaderPaid, LeaderOf

\* Whoever has lines for a receipt as its commercial leader keeps his share of
\* what is left of it, and whoever leads the proposal has them, for any
\* receipts, parameters and interleaving of requests, as long as the proposal is
\* not overpaid (GroupCommissionEngine.gerar and _diferenca_lider_comercial).
THEOREM LeadersFollowMoney == LedgerSpec => []LeaderFollowsMoney
<1>1. LedgerSpec => [](LInv /\ MInv /\ GInv /\ SInv)
  BY InitInv, NextInv, MInvInitially, MInvKept, GInvInitially, GInvKept, SInvInitially, SInvKept,
     PTL DEF LedgerSpec
<1>2. LedgerSpec => []CInv
  BY <1>1, CInvInitially, CInvKept, PTL DEF LedgerSpec
<1> QED  BY <1>1, <1>2, LeadersArePaid, PTL
=============================================================================
