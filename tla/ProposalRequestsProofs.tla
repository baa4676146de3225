----------------------- MODULE ProposalRequestsProofs -----------------------
(***************************************************************************)
(* Proofs about ProposalRequests, for any number of requests in flight and *)
(* every set of proposals, receipts, users and amounts: the interleaved    *)
(* transactions implement the atomic handlers, and what the atomic         *)
(* handlers keep is kept under them.                                       *)
(***************************************************************************)
EXTENDS ProposalRequests, ProposalLifecycleProofs

-----------------------------------------------------------------------------
(***************************************************************************)
(* The invariant.  What is said of a request t is said of its memory and   *)
(* of the committed tables props, recs and vers.                           *)
(***************************************************************************)

\* The locks a transaction has at each point of its handler.
Exclusive(t) ==
    \/ t.op \in ProposalFirst /\ t.pc \in {"marking", "writing"}
    \/ t.op \in {"confirm", "return", "reverse"} /\ t.pc = "writing"

Shared(t) == t.op = "reverse" /\ t.pc \in {"locking", "writing"}

HasReceipt(t) == t.op \in ReceiptFirst /\ t.pc \in {"checking", "inserting", "locking", "writing"}

Holds(t, r) ==
    \/ HasReceipt(t) /\ t.r = r
    \/ t.op = "approve" /\ t.pc = "writing" /\ r \in t.marked

NamedBy(t) == IF t.op \in Versioned THEN t.seen.declared ELSE {t.r}

\* What a transaction has in memory.
Memory == {"op", "p", "r", "user", "arg", "pc", "seen", "row", "marked", "total"}

\* Where each handler can be, and the arguments it came with.
ShapeOK(t) ==
    /\ DOMAIN t = Memory /\ t = [f \in Memory |-> t[f]]
    /\ t.op \in ProposalFirst \union ReceiptFirst
    /\ t.op \in ProposalFirst => t.pc \in {"start", "marking", "writing"}
    /\ t.pc = "marking" => t.op = "approve"
    /\ t.op \in ReceiptFirst => t.pc \in {"start", "checking", "inserting", "locking", "writing"}
    /\ t.pc = "checking" => t.op # "reverse"
    /\ t.pc = "inserting" => t.op = "reverse"
    /\ t.pc = "locking" => t.op # "remove"
    /\ t.user \in Users
    /\ t.op = "update" => t.arg \in Commissions
    /\ t.op = "create" => t.arg \in Amounts
    /\ t.op = "reverse" => t.arg \in Nat \ {0}
    /\ t.op \in ReceiptFirst \union {"create"} => t.r \in Receipts

\* The rows a request names are where it left them, or gone.
NamesOK(t, props, recs) ==
    /\ t.p \in DOMAIN props
    /\ t.op = "create" => t.r \notin DOMAIN recs
    /\ t.op \in ReceiptFirst /\ t.r \in DOMAIN recs => recs[t.r].proposal = t.p

\* What the handler found on the proposal it locked.
AllowedRow(t) ==
    /\ t.op = "update" => PodeAlterarOperacao(t.row)
    /\ t.op = "submit" => PodeEnviar(t.row, 1)
    /\ t.op = "approve" => PodeDecidir(t.row, "APPROVED")
    /\ t.op = "reject" => PodeDecidir(t.row, "REJECTED")
    /\ t.op = "cancel" => PodeCancelar(t.row)
    /\ t.op = "create" => AceitaRecebimento(t.row)
    /\ t.op \in {"confirm", "return", "reverse"} => PodeRegistrarTotal(t.row)

\* The receipts after the write of a decision or of a reversal.
Written(t, recs) ==
    IF t.op = "reverse"
    THEN [recs EXCEPT ![t.r].reversed = @ + t.arg]
    ELSE [recs EXCEPT ![t.r].status = IF t.op = "confirm" THEN "APPROVED" ELSE "REJECTED",
                      ![t.r].decidedBy = t.user]

\* Who holds the proposal has its row in memory as it is, and what he counted
\* on it is what is there.
ProposalKept(t, props, recs) ==
    /\ Exclusive(t) => t.row = props[t.p] /\ AllowedRow(t)
    /\ t.op = "approve" /\ Exclusive(t) => ~FoiDeclaradoPor(recs, t.p, t.user)
    /\ t.op = "approve" /\ t.pc = "writing" =>
           /\ t.marked = Declarados(recs, t.p)
           /\ t.total = Total(Reconhecer(recs, t.p, t.user), t.p)
    /\ t.op \in {"confirm", "return", "reverse"} /\ t.pc = "writing" =>
           t.total = Total(Written(t, recs), t.p)

\* Who holds a receipt finds it as he checked it.
ReceiptKept(t, props, recs) ==
    HasReceipt(t) =>
        /\ t.r \in DOMAIN recs
        /\ t.op = "reverse" => recs[t.r].status = "APPROVED" /\ t.arg <= Liquido(recs[t.r])
        /\ t.op # "reverse" => recs[t.r].status = "SUBMITTED"
        /\ t.op \in {"confirm", "return"} /\ t.pc \in {"locking", "writing"} =>
               /\ props[t.p].approval = "APPROVED"
               /\ recs[t.r].createdBy # t.user

\* While the version is the one on the screen, so are the row and, under
\* analysis, the declared receipts, but for those removed since.
ScreenKept(t, props, recs, vers) ==
    t.op \in Versioned =>
        /\ t.seen.version \in Nat /\ t.seen.version <= vers[t.p]
        /\ t.seen.version = vers[t.p] =>
               /\ props[t.p] = t.seen.row
               /\ props[t.p].approval = "SUBMITTED" =>
                      t.seen.declared \intersect DOMAIN recs = Declarados(recs, t.p)

RequestOK(t, props, recs, vers) ==
    /\ ShapeOK(t)
    /\ NamesOK(t, props, recs)
    /\ ProposalKept(t, props, recs)
    /\ ReceiptKept(t, props, recs)
    /\ ScreenKept(t, props, recs, vers)

RequestsOK ==
    \A q \in Requests : Active(q) => RequestOK(request[q], proposals, receipts, version)

\* Nobody else names the receipt a declaration is about to insert.
FreshOK ==
    \A q1, q2 \in Requests :
        q1 # q2 /\ Active(q1) /\ Active(q2) /\ request[q1].op = "create" =>
            request[q1].r \notin NamedBy(request[q2])

\* The lock tables say what the transactions hold.
LocksOK ==
    /\ proposalLock \in [Proposals -> Requests \union {Free}]
    /\ proposalShare \in [Proposals -> SUBSET Requests]
    /\ receiptLock \in [Receipts -> Requests \union {Free}]
    /\ \A p \in Proposals, q \in Requests :
           /\ proposalLock[p] = q <=> Exclusive(request[q]) /\ request[q].p = p
           /\ q \in proposalShare[p] <=> Shared(request[q]) /\ request[q].p = p
           /\ q \in proposalShare[p] => proposalLock[p] \in {Free, q}
    /\ \A r \in Receipts, q \in Requests : receiptLock[r] = q <=> Holds(request[q], r)

TablesOK ==
    /\ TypeOK
    /\ version \in [Proposals -> Nat]
    /\ request = [q \in Requests |-> request[q]]
    /\ \A q \in Requests : request[q].pc = "idle" => request[q] = NoRequest

RInv == TablesOK /\ RequestsOK /\ FreshOK /\ LocksOK

-----------------------------------------------------------------------------
(***************************************************************************)
(* A commit as the other requests see it.                                  *)
(***************************************************************************)

\* A step of the tables that leaves alone what request t holds, names or has
\* on its screen under an unchanged version.
LeavesAlone(t) ==
    /\ \A p \in DOMAIN proposals :
           /\ p \in DOMAIN proposals'
           /\ proposals[p].approval = "APPROVED" => proposals'[p].approval = "APPROVED"
           /\ version'[p] \in Nat /\ version[p] <= version'[p]
           /\ version'[p] = version[p] => proposals'[p] = proposals[p]
           /\ version'[p] = version[p] /\ proposals[p].approval = "SUBMITTED" =>
                  \A r \in DOMAIN receipts' : receipts'[r].proposal = p =>
                      r \in DOMAIN receipts /\ receipts'[r] = receipts[r]
    /\ Exclusive(t) =>
           /\ proposals'[t.p] = proposals[t.p]
           /\ \A r \in DOMAIN receipts' : receipts'[r].proposal = t.p =>
                  r \in DOMAIN receipts /\ receipts'[r] = receipts[r]
           /\ \A r \in DOMAIN receipts :
                  receipts[r].proposal = t.p /\ receipts[r].status # "SUBMITTED" =>
                      r \in DOMAIN receipts'
    /\ \A r \in DOMAIN receipts : Holds(t, r) => r \in DOMAIN receipts' /\ receipts'[r] = receipts[r]
    /\ \A r \in DOMAIN receipts \intersect DOMAIN receipts' :
           receipts'[r].proposal = receipts[r].proposal
    /\ \A r \in DOMAIN receipts' \ DOMAIN receipts : r \notin NamedBy(t)

LEMMA LeftAlone ==
    ASSUME TypeOK, TypeOK', version \in [Proposals -> Nat],
           NEW t, RequestOK(t, proposals, receipts, version), LeavesAlone(t)
    PROVE  RequestOK(t, proposals', receipts', version')
<1> USE DEF RequestOK
<1>1. ShapeOK(t)
  OBVIOUS
<1>2. NamesOK(t, proposals', receipts')
  <2>1. t.p \in DOMAIN proposals'
    BY DEF LeavesAlone, NamesOK
  <2>2. t.op \in ReceiptFirst \union {"create"} => NamedBy(t) = {t.r}
    BY DEF NamedBy, Versioned, ReceiptFirst
  <2>3. t.op = "create" => t.r \notin DOMAIN receipts'
    BY <2>2 DEF LeavesAlone, NamesOK
  <2>4. t.op \in ReceiptFirst /\ t.r \in DOMAIN receipts' => receipts'[t.r].proposal = t.p
    BY <2>2 DEF LeavesAlone, NamesOK
  <2> QED  BY <2>1, <2>3, <2>4 DEF NamesOK
<1>3. ReceiptKept(t, proposals', receipts')
  <2> SUFFICES ASSUME HasReceipt(t) PROVE ReceiptKept(t, proposals', receipts')
    BY DEF ReceiptKept
  <2>1. t.r \in DOMAIN receipts' /\ receipts'[t.r] = receipts[t.r] /\ t.r \in DOMAIN receipts
    BY DEF LeavesAlone, ReceiptKept, Holds
  <2>2. proposals[t.p].approval = "APPROVED" => proposals'[t.p].approval = "APPROVED"
    BY DEF LeavesAlone, NamesOK
  <2> QED  BY <2>1, <2>2 DEF ReceiptKept
<1>4. ScreenKept(t, proposals', receipts', version')
  <2> SUFFICES ASSUME t.op \in Versioned PROVE ScreenKept(t, proposals', receipts', version')
    BY DEF ScreenKept
  <2>1. /\ t.p \in DOMAIN proposals /\ t.seen.version \in Nat /\ t.seen.version <= version[t.p]
        /\ version[t.p] \in Nat /\ version'[t.p] \in Nat /\ version[t.p] <= version'[t.p]
    BY DEF LeavesAlone, NamesOK, ScreenKept, TypeOK
  <2>2. t.seen.version <= version'[t.p]
    BY <2>1
  <2>3. ASSUME t.seen.version = version'[t.p]
        PROVE  /\ proposals'[t.p] = t.seen.row
               /\ proposals'[t.p].approval = "SUBMITTED" =>
                      t.seen.declared \intersect DOMAIN receipts' = Declarados(receipts', t.p)
    <3>1. t.seen.version = version[t.p] /\ version'[t.p] = version[t.p]
      BY <2>1, <2>3
    <3>2. proposals'[t.p] = proposals[t.p] /\ proposals[t.p] = t.seen.row
      BY <2>1, <3>1 DEF LeavesAlone, ScreenKept
    <3>3. ASSUME proposals[t.p].approval = "SUBMITTED"
          PROVE  t.seen.declared \intersect DOMAIN receipts' = Declarados(receipts', t.p)
      <4>1. t.seen.declared \intersect DOMAIN receipts = Declarados(receipts, t.p)
        BY <3>1, <3>3 DEF ScreenKept
      <4>2. \A r \in DOMAIN receipts' : receipts'[r].proposal = t.p =>
                r \in DOMAIN receipts /\ receipts'[r] = receipts[r]
        BY <2>1, <3>1, <3>3 DEF LeavesAlone
      <4>3. NamedBy(t) = t.seen.declared
        BY DEF NamedBy
      <4>4. \A r \in DOMAIN receipts' : r \in t.seen.declared => r \in DOMAIN receipts
        BY <4>3 DEF LeavesAlone
      <4>5. \A r \in DOMAIN receipts' \intersect DOMAIN receipts :
                receipts'[r].proposal = receipts[r].proposal
        BY DEF LeavesAlone
      <4> QED  BY <4>1, <4>2, <4>4, <4>5 DEF Declarados
    <3> QED  BY <3>2, <3>3
  <2> QED  BY <2>1, <2>2, <2>3 DEF ScreenKept
<1>5. ProposalKept(t, proposals', receipts')
  <2>0. CASE ~Exclusive(t)
    <3>1. ~(t.op = "approve" /\ t.pc = "writing")
      BY <2>0 DEF Exclusive, ProposalFirst, Versioned
    <3>2. ~(t.op \in {"confirm", "return", "reverse"} /\ t.pc = "writing")
      BY <2>0 DEF Exclusive
    <3> QED  BY <2>0, <3>1, <3>2 DEF ProposalKept
  <2>1. CASE Exclusive(t)
    <3>1. t.row = proposals'[t.p] /\ AllowedRow(t)
      BY <2>1 DEF LeavesAlone, ProposalKept
    <3>2. \A r \in DOMAIN receipts' : receipts'[r].proposal = t.p =>
              r \in DOMAIN receipts /\ receipts'[r] = receipts[r]
      BY <2>1 DEF LeavesAlone
    <3>3. \A r \in DOMAIN receipts :
              receipts[r].proposal = t.p /\ receipts[r].status # "SUBMITTED" =>
                  r \in DOMAIN receipts' /\ receipts'[r] = receipts[r]
      BY <2>1, <3>2 DEF LeavesAlone
    <3>4. t.op = "approve" => ~FoiDeclaradoPor(receipts', t.p, t.user)
      BY <2>1, <3>2 DEF ProposalKept, FoiDeclaradoPor, Declarados
    <3>5. ASSUME t.op = "approve", t.pc = "writing"
          PROVE  /\ t.marked = Declarados(receipts', t.p)
                 /\ t.total = Total(Reconhecer(receipts', t.p, t.user), t.p)
      <4>1. t.marked = Declarados(receipts, t.p)
        BY <3>5 DEF ProposalKept
      <4>2. \A r \in Declarados(receipts, t.p) : r \in DOMAIN receipts' /\ receipts'[r] = receipts[r]
        BY <3>5, <4>1 DEF LeavesAlone, Holds, Declarados
      <4>3. Declarados(receipts, t.p) = Declarados(receipts', t.p)
        BY <3>2, <4>2 DEF Declarados
      <4> DEFINE old == Reconhecer(receipts, t.p, t.user)
                 new == Reconhecer(receipts', t.p, t.user)
      <4>4. \A r : r \in DOMAIN receipts /\ receipts[r].proposal = t.p <=>
                   r \in DOMAIN receipts' /\ receipts'[r].proposal = t.p
        BY <3>2, <3>3, <4>2 DEF Declarados
      <4>5. /\ DOMAIN old = DOMAIN receipts /\ DOMAIN new = DOMAIN receipts'
            /\ \A r \in DOMAIN receipts : old[r].proposal = receipts[r].proposal
            /\ \A r \in DOMAIN receipts' : new[r].proposal = receipts'[r].proposal
        BY DEF Reconhecer, TypeOK, ReceiptRow
      <4>6. \A r \in DOMAIN receipts : receipts[r].proposal = t.p => old[r] = new[r]
        BY <3>2, <4>3, <4>4 DEF Reconhecer
      <4> HIDE DEF old, new
      <4>7. Reconhecidos(old, t.p) = Reconhecidos(new, t.p)
        BY <4>4, <4>5, <4>6 DEF Reconhecidos
      <4>8. \A r \in Reconhecidos(old, t.p) : old[r] = new[r]
        BY <4>5, <4>6 DEF Reconhecidos
      <4>9. Total(old, t.p) = Total(new, t.p)
        BY <4>7, <4>8, SameTotal
      <4> QED  BY <3>5, <4>1, <4>3, <4>9 DEF ProposalKept, old, new
    <3>6. ASSUME t.op \in {"confirm", "return", "reverse"}, t.pc = "writing"
          PROVE  t.total = Total(Written(t, receipts'), t.p)
      <4> DEFINE old == Written(t, receipts)
                 new == Written(t, receipts')
      <4>1. HasReceipt(t)
        BY <3>6 DEF HasReceipt, ReceiptFirst
      <4>2. t.r \in DOMAIN receipts /\ t.r \in DOMAIN receipts' /\ receipts'[t.r] = receipts[t.r]
        BY <4>1 DEF LeavesAlone, Holds, ReceiptKept
      <4>3. /\ DOMAIN old = DOMAIN receipts /\ DOMAIN new = DOMAIN receipts'
            /\ old[t.r] = new[t.r]
            /\ \A r \in DOMAIN receipts : r # t.r => old[r] = receipts[r]
            /\ \A r \in DOMAIN receipts' : r # t.r => new[r] = receipts'[r]
        BY <4>2 DEF Written, TypeOK
      <4> HIDE DEF old, new
      <4>4. Reconhecidos(old, t.p) = Reconhecidos(new, t.p)
        BY <3>2, <3>3, <4>2, <4>3 DEF Reconhecidos
      <4>5. \A r \in Reconhecidos(old, t.p) : old[r] = new[r]
        BY <3>3, <4>2, <4>3 DEF Reconhecidos
      <4>6. Total(old, t.p) = Total(new, t.p)
        BY <4>4, <4>5, SameTotal
      <4> QED  BY <3>6, <4>6 DEF ProposalKept, old, new
    <3> QED  BY <3>1, <3>4, <3>5, <3>6 DEF ProposalKept
  <2> QED  BY <2>0, <2>1
<1> QED  BY <1>1, <1>2, <1>3, <1>4, <1>5

\* The exception keeps the tables typed too.
LEMMA LateRemovalTypes == TypeOK /\ LateRemoval => TypeOK'
<1> SUFFICES ASSUME TypeOK, LateRemoval PROVE TypeOK'
  OBVIOUS
<1>1. CASE UNCHANGED proposals /\ \E r \in DOMAIN receipts : receipts' = Deleted(receipts, r)
  <2>1. PICK r \in DOMAIN receipts : receipts' = Deleted(receipts, r)
    BY <1>1
  <2>2. /\ DOMAIN receipts' = DOMAIN receipts \ {r}
        /\ receipts' = [x \in DOMAIN receipts' |-> receipts'[x]]
        /\ \A x \in DOMAIN receipts' : receipts'[x] = receipts[x]
    BY <2>1 DEF Deleted
  <2> QED  BY <1>1, <2>2 DEF TypeOK
<1>2. ASSUME NEW p \in DOMAIN proposals, UNCHANGED receipts,
             proposals' = [proposals EXCEPT ![p] = ComAprovacao(@, "SUBMITTED")]
      PROVE  TypeOK'
  <2> DEFINE row == ComAprovacao(proposals[p], "SUBMITTED")
  <2>1. proposals[p] \in ProposalRow({proposals[p].paid})
    BY DEF TypeOK
  <2>2. row \in ProposalRow({proposals[p].paid})
    BY <2>1, RowTypes DEF SituacaoDeAprovacao
  <2>3. row \in ProposalRow({row.paid})
    BY <2>2 DEF ProposalRow
  <2>4. proposals' = [proposals EXCEPT ![p] = row]
    BY <1>2
  <2> HIDE DEF row
  <2>5. /\ DOMAIN proposals' = DOMAIN proposals
        /\ proposals' = [x \in DOMAIN proposals' |-> proposals'[x]]
        /\ \A x \in DOMAIN proposals' : proposals'[x] \in ProposalRow({proposals'[x].paid})
    BY <2>3, <2>4, ProposalWritten
  <2> QED  BY <1>2, <2>5 DEF TypeOK
<1> QED  BY <1>1, <1>2 DEF LateRemoval

\* What the locks keep apart.
LEMMA Apart ==
    ASSUME RInv, NEW q \in Requests, NEW x \in Requests, x # q
    PROVE  /\ request[q].p \in Proposals /\ Exclusive(request[q]) /\ Exclusive(request[x]) =>
                  request[x].p # request[q].p
           /\ \A r \in Receipts : ~(Holds(request[q], r) /\ Holds(request[x], r))
BY DEF RInv, LocksOK

\* A commit that writes the proposal, and receipts of it that it holds.
LEMMA WriteLeavesAlone ==
    ASSUME RInv, TypeOK', NEW q \in Requests, NEW x \in Requests, x # q, Active(q), Active(x),
           Exclusive(request[q]), NEW p, p = request[q].p,
           DOMAIN proposals' = DOMAIN proposals,
           \A y \in DOMAIN proposals : y # p => proposals'[y] = proposals[y],
           proposals[p].approval = "APPROVED" => proposals'[p].approval = "APPROVED",
           version' = [version EXCEPT ![p] = @ + 1],
           DOMAIN receipts' = DOMAIN receipts,
           \A r \in DOMAIN receipts :
               receipts'[r] # receipts[r] => receipts[r].proposal = p /\ Holds(request[q], r),
           \A r \in DOMAIN receipts : receipts'[r].proposal = receipts[r].proposal
    PROVE  LeavesAlone(request[x])
<1> USE DEF RInv, TablesOK
<1>1. p \in DOMAIN proposals /\ p \in Proposals /\ DOMAIN receipts \subseteq Receipts
  BY DEF RequestsOK, RequestOK, NamesOK, TypeOK
<1>2. \A y \in Proposals : /\ version[y] \in Nat /\ version'[y] \in Nat /\ version[y] <= version'[y]
                           /\ version'[y] = version[y] => y # p
  BY <1>1
<1>3. Exclusive(request[x]) => request[x].p # p
  BY <1>1, Apart
<1>4. \A r \in DOMAIN receipts : Holds(request[x], r) => receipts'[r] = receipts[r]
  BY <1>1, Apart
<1>5. \A y \in DOMAIN proposals :
          y # p => \A r \in DOMAIN receipts' : receipts'[r].proposal = y => receipts'[r] = receipts[r]
  BY <1>1
<1>6. \A y \in DOMAIN proposals : y \in Proposals
  BY DEF TypeOK
<1>7. request[x].p \in DOMAIN proposals
  BY DEF RequestsOK, RequestOK, NamesOK
<1> QED  BY <1>2, <1>3, <1>4, <1>5, <1>6, <1>7 DEF LeavesAlone

\* A declaration: one new receipt of a proposal that is not under analysis.
LEMMA CreateLeavesAlone ==
    ASSUME RInv, NEW x \in Requests, Active(x), NEW p, NEW r,
           Exclusive(request[x]) => request[x].p # p,
           r \notin DOMAIN receipts, r \notin NamedBy(request[x]),
           \A y \in DOMAIN proposals : y \in DOMAIN proposals' /\ proposals'[y] = proposals[y],
           \A y \in DOMAIN proposals : version'[y] = version[y],
           p \in DOMAIN proposals => proposals[p].approval # "SUBMITTED",
           DOMAIN receipts' = DOMAIN receipts \union {r},
           receipts'[r].proposal = p,
           \A y \in DOMAIN receipts : receipts'[y] = receipts[y]
    PROVE  LeavesAlone(request[x])
<1> USE DEF RInv, TablesOK
<1>1. \A y \in DOMAIN proposals : version[y] \in Nat /\ version[y] <= version[y]
  BY DEF TypeOK
<1>2. \A y \in DOMAIN proposals : proposals[y].approval = "SUBMITTED" => y # p
  OBVIOUS
<1>3. request[x].p \in DOMAIN proposals
  BY DEF RequestsOK, RequestOK, NamesOK
<1>4. \A y \in DOMAIN receipts' : receipts'[y].proposal # p =>
          y \in DOMAIN receipts /\ receipts'[y] = receipts[y]
  OBVIOUS
<1> QED  BY <1>1, <1>2, <1>3, <1>4 DEF LeavesAlone

\* A removal: one declared receipt goes.
LEMMA RemoveLeavesAlone ==
    ASSUME RInv, NEW x \in Requests, Active(x), NEW r \in DOMAIN receipts,
           receipts[r].status = "SUBMITTED", ~Holds(request[x], r),
           UNCHANGED <<proposals, version>>,
           DOMAIN receipts' = DOMAIN receipts \ {r},
           \A y \in DOMAIN receipts' : receipts'[y] = receipts[y]
    PROVE  LeavesAlone(request[x])
<1> USE DEF RInv, TablesOK
<1>1. \A y \in DOMAIN proposals : version[y] \in Nat /\ version[y] <= version[y]
  BY DEF TypeOK
<1>2. request[x].p \in DOMAIN proposals
  BY DEF RequestsOK, RequestOK, NamesOK
<1>3. \A y \in DOMAIN receipts' : y \in DOMAIN receipts /\ receipts'[y] = receipts[y]
  OBVIOUS
<1> QED  BY <1>1, <1>2, <1>3 DEF LeavesAlone

-----------------------------------------------------------------------------
(***************************************************************************)
(* Each commit is a step of the atomic specification.                      *)
(***************************************************************************)

\* What holds when q commits, unfolded.
LEMMA Committing ==
    ASSUME RInv, NEW q \in Requests, request[q].pc = "writing", NEW t, t = request[q]
    PROVE  /\ Active(q) /\ RequestOK(t, proposals, receipts, version)
           /\ t.p \in DOMAIN proposals /\ t.p \in Proposals /\ t.user \in Users
           /\ t.op \in ProposalFirst \union ReceiptFirst
           /\ t.op # "remove" => Exclusive(t) /\ t.row = proposals[t.p] /\ AllowedRow(t)
           /\ t.op \in ReceiptFirst =>
                  /\ HasReceipt(t) /\ t.r \in DOMAIN receipts /\ receipts[t.r].proposal = t.p
                  /\ Holds(t, t.r)
<1> USE DEF RInv, TablesOK
<1>1. Active(q)
  BY DEF Active
<1>2. RequestOK(t, proposals, receipts, version)
  BY <1>1 DEF RequestsOK
<1>3. /\ t.p \in DOMAIN proposals /\ t.p \in Proposals /\ t.user \in Users
      /\ t.op \in ProposalFirst \union ReceiptFirst
  BY <1>2 DEF RequestOK, NamesOK, ShapeOK, TypeOK
<1>4. t.op # "remove" => Exclusive(t)
  BY <1>3 DEF Exclusive, ReceiptFirst
<1>5. t.op \in ReceiptFirst => HasReceipt(t)
  BY DEF HasReceipt
<1>6. t.op \in ReceiptFirst => t.r \in DOMAIN receipts /\ receipts[t.r].proposal = t.p
  BY <1>2, <1>5 DEF RequestOK, ReceiptKept, NamesOK
<1> QED  BY <1>1, <1>2, <1>3, <1>4, <1>5, <1>6 DEF RequestOK, ProposalKept, Holds

\* What is asked of a commit: it is an atomic step, and the others do not
\* notice.
Implements(q) ==
    /\ Next \/ LateRemoval
    /\ version' \in [Proposals -> Nat]
    /\ \A x \in Requests \ {q} : Active(x) => LeavesAlone(request[x])

LEMMA StepTypes == TypeOK /\ [Next \/ LateRemoval]_vars => TypeOK'
<1>1. TypeOK /\ [Next]_vars => TypeOK'
  BY TypeInductive
<1> QED  BY <1>1, LateRemovalTypes

\* update, submit, reject and cancel write the proposal only.
LEMMA CommitProposal ==
    ASSUME RInv, NEW q \in Requests, request[q].pc = "writing", Commit(q), NEW t, t = request[q],
           version[t.p] = t.seen.version, t.op \in {"update", "submit", "reject", "cancel"}
    PROVE  Implements(q)
<1> DEFINE p == t.p
           row == t.row
           new == OwnProposal(q)
<1>0. /\ Active(q) /\ p \in DOMAIN proposals /\ p \in Proposals
      /\ Exclusive(t) /\ row = proposals[p] /\ AllowedRow(t)
      /\ RequestOK(t, proposals, receipts, version)
  BY Committing
<1>1. /\ receipts' = receipts /\ proposals' = [proposals EXCEPT ![p] = new]
      /\ version' = [version EXCEPT ![p] = @ + 1]
  BY DEF Commit, OwnReceipts, WritesProposal
<1>2. row \in ProposalRow({row.paid})
  BY <1>0 DEF RInv, TablesOK, TypeOK
<1>3. (Next \/ LateRemoval) /\ (row.approval = "APPROVED" => new.approval = "APPROVED")
  <2>1. CASE t.op = "update"
    <3>1. new = AlterarOperacao(row, t.arg) /\ t.arg \in Commissions /\ PodeAlterarOperacao(row)
      BY <1>0, <2>1 DEF OwnProposal, RequestOK, ShapeOK, AllowedRow
    <3>2. UpdateProposal(p, t.arg)
      BY <1>0, <1>1, <3>1 DEF UpdateProposal
    <3>3. new.approval = row.approval
      BY <1>2, <3>1, RowFields
    <3> QED  BY <1>0, <3>1, <3>2, <3>3 DEF Next, NextProposal
  <2>2. CASE t.op = "submit"
    <3>1. new = ComAprovacao(row, "SUBMITTED") /\ PodeEnviar(row, 1)
      BY <1>0, <2>2 DEF OwnProposal, AllowedRow
    <3>2. row.approval # "APPROVED"
      BY <3>1 DEF PodeEnviar, AprovacaoPermite, TransicoesDeAprovacao
    <3>3. CASE Declarados(receipts, p) = {}
      <4>1. LateRemoval
        BY <1>0, <1>1, <3>1, <3>3 DEF LateRemoval
      <4> QED  BY <3>2, <4>1
    <3>4. CASE Declarados(receipts, p) # {}
      <4>1. SubmitProposal(p)
        BY <1>0, <1>1, <3>1, <3>4 DEF SubmitProposal
      <4> QED  BY <1>0, <3>2, <4>1 DEF Next, NextProposal
    <3> QED  BY <3>3, <3>4
  <2>3. CASE t.op = "reject"
    <3>1. new = ComAprovacao(row, "REJECTED") /\ PodeDecidir(row, "REJECTED")
      BY <1>0, <2>3 DEF OwnProposal, AllowedRow
    <3>2. row.approval # "APPROVED"
      BY <3>1 DEF PodeDecidir, AprovacaoPermite, TransicoesDeAprovacao
    <3>3. RejectProposal(p)
      BY <1>0, <1>1, <3>1 DEF RejectProposal
    <3> QED  BY <1>0, <3>2, <3>3 DEF Next, NextProposal
  <2>4. CASE t.op = "cancel"
    <3>1. new = Cancelada(row) /\ PodeCancelar(row)
      BY <1>0, <2>4 DEF OwnProposal, AllowedRow
    <3>2. CancelProposal(p)
      BY <1>0, <1>1, <3>1 DEF CancelProposal
    <3>3. new.approval = row.approval
      BY <1>2, <3>1, RowFields
    <3> QED  BY <1>0, <3>2, <3>3 DEF Next, NextProposal
  <2> QED  BY <2>1, <2>2, <2>3, <2>4
<1> HIDE DEF new
<1>4. TypeOK'
  BY <1>3, StepTypes DEF RInv, TablesOK
<1>5. version' \in [Proposals -> Nat]
  BY <1>0, <1>1 DEF RInv, TablesOK
<1>6. /\ DOMAIN proposals' = DOMAIN proposals
      /\ \A y \in DOMAIN proposals : y # p => proposals'[y] = proposals[y]
      /\ proposals'[p] = new
  BY <1>0, <1>1 DEF RInv, TablesOK, TypeOK
<1>7. \A x \in Requests \ {q} : Active(x) => LeavesAlone(request[x])
  <2> SUFFICES ASSUME NEW x \in Requests \ {q}, Active(x) PROVE LeavesAlone(request[x])
    OBVIOUS
  <2>1. proposals[p].approval = "APPROVED" => proposals'[p].approval = "APPROVED"
    BY <1>0, <1>3, <1>6
  <2>2. /\ DOMAIN receipts' = DOMAIN receipts
        /\ \A r \in DOMAIN receipts : receipts'[r] = receipts[r]
    BY <1>1
  <2> QED  BY <1>0, <1>1, <1>4, <1>6, <2>1, <2>2, WriteLeavesAlone
<1> QED  BY <1>3, <1>5, <1>7 DEF Implements

\* approve writes the proposal and the receipts it marked.
LEMMA CommitApprove ==
    ASSUME RInv, NEW q \in Requests, request[q].pc = "writing", Commit(q), NEW t, t = request[q],
           version[t.p] = t.seen.version, t.op = "approve"
    PROVE  Implements(q)
<1> DEFINE p == t.p
           row == t.row
           new == RegistrarTotalRecebido(ComAprovacao(row, "APPROVED"), t.total)
<1>0. /\ Active(q) /\ p \in DOMAIN proposals /\ p \in Proposals /\ t.user \in Users
      /\ Exclusive(t) /\ row = proposals[p] /\ AllowedRow(t)
      /\ RequestOK(t, proposals, receipts, version)
  BY Committing
<1>1. /\ receipts' = OwnReceipts(q) /\ proposals' = [proposals EXCEPT ![p] = OwnProposal(q)]
      /\ version' = [version EXCEPT ![p] = @ + 1]
  BY DEF Commit, WritesProposal
<1>2. OwnProposal(q) = new
  BY DEF OwnProposal
<1>3. /\ t.marked = Declarados(receipts, p)
      /\ t.total = Total(Reconhecer(receipts, p, t.user), p)
      /\ ~FoiDeclaradoPor(receipts, p, t.user)
  BY <1>0 DEF RequestOK, ProposalKept
<1>4. receipts' = Reconhecer(receipts, p, t.user)
  BY <1>1, <1>3 DEF OwnReceipts, Reconhecer
<1>5. ApproveProposal(p, t.user)
  <2>1. PodeDecidir(proposals[p], "APPROVED")
    BY <1>0 DEF AllowedRow
  <2>2. new = Recalculada(ComAprovacao(proposals[p], "APPROVED"), receipts', p)
    BY <1>0, <1>3, <1>4 DEF Recalculada
  <2>3. proposals' = [proposals EXCEPT ![p] =
                         Recalculada(ComAprovacao(@, "APPROVED"), receipts', p)]
    BY <1>1, <1>2, <2>2
  <2> QED  BY <1>3, <1>4, <2>1, <2>3 DEF ApproveProposal
<1>6. Next /\ TypeOK /\ TypeOK'
  BY <1>0, <1>5, StepTypes DEF Next, NextProposal, RInv, TablesOK
<1>7. version' \in [Proposals -> Nat]
  BY <1>0, <1>1 DEF RInv, TablesOK
<1>8. /\ DOMAIN proposals' = DOMAIN proposals
      /\ \A y \in DOMAIN proposals : y # p => proposals'[y] = proposals[y]
      /\ proposals'[p].approval = "APPROVED"
      /\ DOMAIN receipts' = DOMAIN receipts
  BY <1>0, <1>5, <1>6, ApproveEffects DEF OnlyProposal
<1>9. \A r \in DOMAIN receipts :
          /\ receipts'[r] # receipts[r] => receipts[r].proposal = p /\ Holds(t, r)
          /\ receipts'[r].proposal = receipts[r].proposal
  <2> SUFFICES ASSUME NEW r \in DOMAIN receipts
               PROVE  /\ receipts'[r] # receipts[r] => receipts[r].proposal = p /\ Holds(t, r)
                      /\ receipts'[r].proposal = receipts[r].proposal
    OBVIOUS
  <2>1. receipts'[r] = IF receipts[r].proposal = p /\ receipts[r].status = "SUBMITTED"
                       THEN [receipts[r] EXCEPT !.status = "APPROVED", !.decidedBy = t.user]
                       ELSE receipts[r]
    BY <1>0, <1>4, <1>6, Recognised
  <2>2. receipts'[r] # receipts[r] => r \in Declarados(receipts, p)
    BY <2>1 DEF Declarados
  <2>3. receipts'[r].proposal = receipts[r].proposal
    BY <1>0, <1>4, <1>6, Recognised
  <2> QED  BY <1>3, <2>2, <2>3 DEF Holds, Declarados
<1>10. \A x \in Requests \ {q} : Active(x) => LeavesAlone(request[x])
  <2> SUFFICES ASSUME NEW x \in Requests \ {q}, Active(x) PROVE LeavesAlone(request[x])
    OBVIOUS
  <2>1. proposals[p].approval = "APPROVED" => proposals'[p].approval = "APPROVED"
    BY <1>8
  <2>2. Exclusive(request[q]) /\ p = request[q].p
    BY <1>0
  <2>3. version' = [version EXCEPT ![p] = @ + 1]
    BY <1>1
  <2>4. \A r \in DOMAIN receipts :
            /\ receipts'[r] # receipts[r] => receipts[r].proposal = p /\ Holds(request[q], r)
            /\ receipts'[r].proposal = receipts[r].proposal
    BY <1>9
  <2> HIDE DEF p
  <2> QED  BY <1>0, <1>6, <1>8, <2>1, <2>2, <2>3, <2>4, WriteLeavesAlone
<1> QED  BY <1>6, <1>7, <1>10 DEF Implements

\* confirm, return and reverse write one receipt and its proposal.
LEMMA CommitReceipt ==
    ASSUME RInv, NEW q \in Requests, request[q].pc = "writing", Commit(q), NEW t, t = request[q],
           t.op \in {"confirm", "return", "reverse"}
    PROVE  Implements(q)
<1> DEFINE p == t.p
           r == t.r
           new == RegistrarTotalRecebido(t.row, t.total)
<1>0. /\ Active(q) /\ p \in DOMAIN proposals /\ p \in Proposals /\ t.user \in Users
      /\ Exclusive(t) /\ t.row = proposals[p] /\ AllowedRow(t)
      /\ RequestOK(t, proposals, receipts, version)
      /\ HasReceipt(t) /\ r \in DOMAIN receipts /\ receipts[r].proposal = p /\ Holds(t, r)
  <2>1. t.op \in ReceiptFirst /\ t.op # "remove"
    BY DEF ReceiptFirst
  <2> QED  BY <2>1, Committing
<1>1. /\ receipts' = OwnReceipts(q) /\ proposals' = [proposals EXCEPT ![p] = OwnProposal(q)]
      /\ version' = [version EXCEPT ![p] = @ + 1]
  BY DEF Commit, WritesProposal, Versioned
<1>2. OwnProposal(q) = new
  BY DEF OwnProposal
<1>3. receipts' = Written(t, receipts)
  <2>1. CASE t.op = "confirm"
    BY <1>1, <2>1 DEF OwnReceipts, Written
  <2>2. CASE t.op = "return"
    BY <1>1, <2>2 DEF OwnReceipts, Written
  <2>3. CASE t.op = "reverse"
    BY <1>1, <2>3 DEF OwnReceipts, Written
  <2> QED  BY <2>1, <2>2, <2>3
<1>4. t.total = Total(receipts', p)
  BY <1>0, <1>3 DEF RequestOK, ProposalKept
<1>5. /\ PodeRegistrarTotal(proposals[p])
      /\ proposals' = [proposals EXCEPT ![p] = Recalculada(@, receipts', p)]
  BY <1>0, <1>1, <1>2, <1>4 DEF AllowedRow, Recalculada
<1>6. Next
  <2>1. CASE t.op = "reverse"
    <3>1. receipts[r].status = "APPROVED" /\ t.arg <= Liquido(receipts[r]) /\ t.arg \in Nat \ {0}
      BY <1>0, <2>1 DEF RequestOK, ReceiptKept, ShapeOK
    <3>2. ReverseReceipt(r, t.arg)
      BY <1>0, <1>3, <1>5, <2>1, <3>1 DEF ReverseReceipt, Written
    <3>3. t.arg \in 1..receipts[r].amount
      <4>1. receipts[r].amount \in Nat /\ receipts[r].reversed \in Nat
        BY <1>0, AmountsAssumption DEF RInv, TablesOK, TypeOK, ReceiptRow
      <4> QED  BY <3>1, <4>1 DEF Liquido
    <3> QED  BY <1>0, <3>2, <3>3 DEF Next, NextReceipt
  <2>2. CASE t.op # "reverse"
    <3>1. /\ receipts[r].status = "SUBMITTED" /\ receipts[r].createdBy # t.user
          /\ proposals[p].approval = "APPROVED"
      BY <1>0, <2>2 DEF RequestOK, ReceiptKept
    <3>2. DecideReceipt(r, t.user, t.op = "confirm")
      BY <1>0, <1>3, <1>5, <2>2, <3>1 DEF DecideReceipt, Written
    <3> QED  BY <1>0, <3>2 DEF Next, NextReceipt
  <2> QED  BY <2>1, <2>2
<1>7. TypeOK /\ TypeOK'
  BY <1>6, StepTypes DEF RInv, TablesOK
<1>8. version' \in [Proposals -> Nat]
  BY <1>0, <1>1 DEF RInv, TablesOK
<1>9. /\ DOMAIN proposals' = DOMAIN proposals
      /\ \A y \in DOMAIN proposals : y # p => proposals'[y] = proposals[y]
      /\ proposals'[p].approval = proposals[p].approval
  BY <1>0, <1>5, <1>7, Recalculation DEF OnlyProposal
<1>10. /\ DOMAIN receipts' = DOMAIN receipts
       /\ \A y \in DOMAIN receipts : y # r => receipts'[y] = receipts[y]
       /\ receipts'[r].proposal = receipts[r].proposal
  BY <1>0, <1>3, <1>7 DEF Written, TypeOK, ReceiptRow
<1>11. \A y \in DOMAIN receipts :
          /\ receipts'[y] # receipts[y] => receipts[y].proposal = p /\ Holds(t, y)
          /\ receipts'[y].proposal = receipts[y].proposal
  BY <1>0, <1>10
<1>12. \A x \in Requests \ {q} : Active(x) => LeavesAlone(request[x])
  <2> SUFFICES ASSUME NEW x \in Requests \ {q}, Active(x) PROVE LeavesAlone(request[x])
    OBVIOUS
  <2>1. proposals[p].approval = "APPROVED" => proposals'[p].approval = "APPROVED"
    BY <1>9
  <2>2. Exclusive(request[q]) /\ p = request[q].p
    BY <1>0
  <2>3. version' = [version EXCEPT ![p] = @ + 1]
    BY <1>1
  <2>4. \A y \in DOMAIN receipts :
            /\ receipts'[y] # receipts[y] => receipts[y].proposal = p /\ Holds(request[q], y)
            /\ receipts'[y].proposal = receipts[y].proposal
    BY <1>11
  <2> HIDE DEF p
  <2>5. Active(q) /\ DOMAIN receipts' = DOMAIN receipts
    BY <1>0, <1>10
  <2>6. /\ DOMAIN proposals' = DOMAIN proposals
        /\ \A y \in DOMAIN proposals : y # p => proposals'[y] = proposals[y]
    BY <1>9
  <2> HIDE DEF p
  <2> QED  BY <1>7, <2>1, <2>2, <2>3, <2>4, <2>5, <2>6, WriteLeavesAlone
<1> QED  BY <1>6, <1>8, <1>12 DEF Implements

\* create adds one receipt.
LEMMA CommitCreate ==
    ASSUME RInv, NEW q \in Requests, request[q].pc = "writing", Commit(q), NEW t, t = request[q],
           t.op = "create"
    PROVE  Implements(q)
<1> DEFINE p == t.p
           r == t.r
<1>0. /\ Active(q) /\ p \in DOMAIN proposals /\ p \in Proposals /\ t.user \in Users
      /\ Exclusive(t) /\ AceitaRecebimento(proposals[p])
      /\ r \in Receipts /\ r \notin DOMAIN receipts /\ t.arg \in Amounts
  BY Committing DEF RequestOK, NamesOK, ShapeOK, AllowedRow
<1>1. /\ receipts' = Inserted(receipts, r, NovoRecebimento(p, t.user, t.arg))
      /\ UNCHANGED <<proposals, version>>
  BY DEF Commit, OwnReceipts, WritesProposal, Versioned
<1>2. CreateReceipt(r, p, t.user, t.arg)
  BY <1>0, <1>1 DEF CreateReceipt
<1>3. Next /\ TypeOK
  BY <1>0, <1>2 DEF Next, NextProposal, RInv, TablesOK
<1>4. /\ proposals[p].approval # "SUBMITTED"
      /\ DOMAIN receipts' = DOMAIN receipts \union {r}
      /\ receipts'[r] = NovoRecebimento(p, t.user, t.arg)
      /\ \A x \in DOMAIN receipts : receipts'[x] = receipts[x]
  BY <1>0, <1>2, <1>3, DeclareEffects
<1>5. receipts'[r].proposal = p
  BY <1>4 DEF NovoRecebimento
<1>6. \A x \in Requests \ {q} : Active(x) => LeavesAlone(request[x])
  <2> SUFFICES ASSUME NEW x \in Requests \ {q}, Active(x) PROVE LeavesAlone(request[x])
    OBVIOUS
  <2>1. Exclusive(request[x]) => request[x].p # p
    BY <1>0, Apart
  <2>2. r \notin NamedBy(request[x])
    BY <1>0 DEF RInv, FreshOK
  <2> QED  BY <1>0, <1>1, <1>4, <1>5, <2>1, <2>2, CreateLeavesAlone
<1> QED  BY <1>1, <1>3, <1>6 DEF Implements, RInv, TablesOK

\* remove deletes one receipt, perhaps too late.
LEMMA CommitRemove ==
    ASSUME RInv, NEW q \in Requests, request[q].pc = "writing", Commit(q), NEW t, t = request[q],
           t.op = "remove"
    PROVE  Implements(q)
<1> DEFINE r == t.r
<1>0. /\ Active(q) /\ r \in DOMAIN receipts /\ receipts[r].status = "SUBMITTED" /\ Holds(t, r)
  <2>1. t.op \in ReceiptFirst
    BY DEF ReceiptFirst
  <2> QED  BY <2>1, Committing DEF RequestOK, ReceiptKept
<1>1. receipts' = Deleted(receipts, r) /\ UNCHANGED <<proposals, version>>
  BY DEF Commit, OwnReceipts, WritesProposal, Versioned
<1>2. Next \/ LateRemoval
  <2>1. CASE AceitaRecebimento(proposals[receipts[r].proposal])
    BY <1>0, <1>1, <2>1 DEF RemoveReceipt, Next, NextReceipt
  <2>2. CASE ~AceitaRecebimento(proposals[receipts[r].proposal])
    BY <1>0, <1>1, <2>2 DEF LateRemoval
  <2> QED  BY <2>1, <2>2
<1>3. DOMAIN receipts' = DOMAIN receipts \ {r} /\ \A y \in DOMAIN receipts' : receipts'[y] = receipts[y]
  BY <1>1 DEF Deleted
<1>4. \A x \in Requests \ {q} : Active(x) => LeavesAlone(request[x])
  <2> SUFFICES ASSUME NEW x \in Requests \ {q}, Active(x) PROVE LeavesAlone(request[x])
    OBVIOUS
  <2>1. ~Holds(request[x], r)
    BY <1>0, Apart DEF RInv, TablesOK, TypeOK
  <2> QED  BY <1>0, <1>1, <1>3, <2>1, RemoveLeavesAlone
<1> QED  BY <1>1, <1>2, <1>4 DEF Implements, RInv, TablesOK

LEMMA CommitImplements ==
    ASSUME RInv, NEW q \in Requests, Commit(q),
           request[q].op \notin Versioned \/ version[request[q].p] = request[q].seen.version
    PROVE  Implements(q)
<1> DEFINE t == request[q]
<1>1. t.pc = "writing"
  BY DEF Commit
<1>2. t.op \in ProposalFirst \union ReceiptFirst
  BY <1>1, Committing
<1> QED
  BY <1>1, <1>2, CommitProposal, CommitApprove, CommitReceipt, CommitCreate, CommitRemove
     DEF Versioned, ProposalFirst, ReceiptFirst

\* A new proposal is nobody's, and its receipt takes an unused identifier.
LEMMA InsertImplements ==
    ASSUME RInv, Insert
    PROVE  /\ Next
           /\ version' \in [Proposals -> Nat]
           /\ \A x \in Requests : Active(x) => LeavesAlone(request[x])
<1> USE DEF RInv, TablesOK
<1>1. PICK p \in Proposals, c \in Commissions :
          /\ \/ CreateProposal(p, c)
             \/ \E r \in Unused, u \in Users, a \in Amounts :
                    CreateProposalWithReceipt(p, c, r, u, a)
          /\ version' = [version EXCEPT ![p] = 1]
  BY DEF Insert
<1>2. Unused \subseteq Receipts
  BY DEF Unused
<1>3. Next
  BY <1>1, <1>2 DEF Next
<1>4. p \notin DOMAIN proposals
  BY <1>1 DEF CreateProposal, CreateProposalWithReceipt
<1>5. /\ \A y \in DOMAIN proposals : y \in DOMAIN proposals' /\ proposals'[y] = proposals[y]
  BY <1>1, <1>2, CreateEffects
<1>6. \A y \in DOMAIN proposals : version'[y] = version[y]
  BY <1>1, <1>4 DEF TypeOK
<1>7. ASSUME NEW x \in Requests, Active(x) PROVE LeavesAlone(request[x])
  <2>1. CASE CreateProposal(p, c)
    <3>1. receipts' = receipts
      BY <2>1 DEF CreateProposal
    <3>2. request[x].p \in DOMAIN proposals
      BY <1>7 DEF RequestsOK, RequestOK, NamesOK
    <3>3. \A y \in DOMAIN proposals : version[y] \in Nat /\ version[y] <= version[y]
      BY DEF TypeOK
    <3> QED  BY <1>5, <1>6, <3>1, <3>2, <3>3 DEF LeavesAlone
  <2>2. ASSUME NEW r \in Unused, NEW u \in Users, NEW a \in Amounts,
               CreateProposalWithReceipt(p, c, r, u, a)
        PROVE  LeavesAlone(request[x])
    <3>1. /\ r \notin DOMAIN receipts
          /\ DOMAIN receipts' = DOMAIN receipts \union {r}
          /\ receipts'[r] = NovoRecebimento(p, u, a)
          /\ \A y \in DOMAIN receipts : receipts'[y] = receipts[y]
      BY <1>2, <2>2, CreateEffects
    <3>2. r \notin NamedBy(request[x])
      BY <1>7 DEF Unused, Names, NamedBy
    <3>3. request[x].p \in DOMAIN proposals
      BY <1>7 DEF RequestsOK, RequestOK, NamesOK
    <3>4. receipts'[r].proposal = p
      BY <3>1 DEF NovoRecebimento
    <3> QED  BY <1>4, <1>5, <1>6, <1>7, <3>1, <3>2, <3>3, <3>4, CreateLeavesAlone
  <2> QED  BY <1>1, <2>1, <2>2
<1> QED  BY <1>1, <1>3, <1>7

-----------------------------------------------------------------------------
(***************************************************************************)
(* The invariant is inductive.                                             *)
(***************************************************************************)

\* The end of a transaction frees what it held.
LEMMA Released ==
    ASSUME RInv, NEW q \in Requests, ReleaseAll(q), request' = [request EXCEPT ![q] = NoRequest]
    PROVE  /\ LocksOK' /\ FreshOK'
           /\ request' = [x \in Requests |-> request'[x]]
           /\ request'[q] = NoRequest /\ \A x \in Requests \ {q} : request'[x] = request[x]
           /\ \A x \in Requests : request'[x].pc = "idle" => request'[x] = NoRequest
<1>1. /\ request' = [x \in Requests |-> request'[x]]
      /\ request'[q] = NoRequest /\ \A x \in Requests \ {q} : request'[x] = request[x]
  BY DEF RInv, TablesOK
<1>2. \A x \in Requests : request'[x].pc = "idle" => request'[x] = NoRequest
  BY <1>1 DEF RInv, TablesOK
<1>3. FreshOK'
  BY <1>1 DEF RInv, FreshOK, Active, NoRequest
<1>4. /\ ~Exclusive(NoRequest) /\ ~Shared(NoRequest) /\ \A r : ~Holds(NoRequest, r)
  BY DEF Exclusive, Shared, Holds, HasReceipt, NoRequest
<1>5. LocksOK'
  <2>1. /\ proposalLock \in [Proposals -> Requests \union {Free}]
        /\ proposalShare \in [Proposals -> SUBSET Requests]
        /\ receiptLock \in [Receipts -> Requests \union {Free}]
    BY DEF RInv, LocksOK
  <2>2. /\ proposalLock' \in [Proposals -> Requests \union {Free}]
        /\ proposalShare' \in [Proposals -> SUBSET Requests]
        /\ receiptLock' \in [Receipts -> Requests \union {Free}]
    BY <2>1 DEF ReleaseAll
  <2>3. ASSUME NEW p \in Proposals, NEW x \in Requests
        PROVE  /\ proposalLock'[p] = x <=> Exclusive(request'[x]) /\ request'[x].p = p
               /\ x \in proposalShare'[p] <=> Shared(request'[x]) /\ request'[x].p = p
               /\ x \in proposalShare'[p] => proposalLock'[p] \in {Free, x}
    <3>1. /\ proposalLock'[p] = IF proposalLock[p] = q THEN Free ELSE proposalLock[p]
          /\ proposalShare'[p] = proposalShare[p] \ {q}
      BY DEF ReleaseAll
    <3>2. CASE x = q
      BY <1>1, <1>4, <2>1, <3>1, <3>2, FreeAssumption
    <3>3. CASE x # q
      BY <1>1, <3>1, <3>3, FreeAssumption DEF RInv, LocksOK
    <3> QED  BY <3>2, <3>3
  <2>4. ASSUME NEW r \in Receipts, NEW x \in Requests
        PROVE  receiptLock'[r] = x <=> Holds(request'[x], r)
    <3>1. receiptLock'[r] = IF receiptLock[r] = q THEN Free ELSE receiptLock[r]
      BY DEF ReleaseAll
    <3>2. CASE x = q
      BY <1>1, <1>4, <3>1, <3>2, FreeAssumption
    <3>3. CASE x # q
      BY <1>1, <3>1, <3>3, FreeAssumption DEF RInv, LocksOK
    <3> QED  BY <3>2, <3>3
  <2> QED  BY <2>2, <2>3, <2>4 DEF LocksOK
<1> QED  BY <1>1, <1>2, <1>3, <1>5

LEMMA RollbackKeeps == ASSUME RInv, NEW q \in Requests, Rollback(q) PROVE RInv'
<1>1. /\ ReleaseAll(q) /\ request' = [request EXCEPT ![q] = NoRequest]
      /\ UNCHANGED <<proposals, receipts, version>>
  BY DEF Rollback
<1>2. TablesOK'
  <2>1. TypeOK'
    BY <1>1 DEF RInv, TablesOK, TypeOK
  <2> QED  BY <1>1, <2>1, Released DEF RInv, TablesOK
<1>3. RequestsOK'
  <2> SUFFICES ASSUME NEW x \in Requests, Active(x)'
               PROVE  RequestOK(request'[x], proposals, receipts, version)
    BY <1>1 DEF RequestsOK
  <2>1. x # q /\ request'[x] = request[x]
    BY <1>1, Released DEF Active, NoRequest
  <2> QED  BY <2>1 DEF RInv, RequestsOK, Active
<1> QED  BY <1>1, <1>2, <1>3, Released DEF RInv

LEMMA CommitKeeps == ASSUME RInv, NEW q \in Requests, Commit(q) PROVE RInv'
<1>1. CASE ~(request[q].op \notin Versioned \/ version[request[q].p] = request[q].seen.version)
  BY <1>1, RollbackKeeps DEF Commit
<1>2. CASE request[q].op \notin Versioned \/ version[request[q].p] = request[q].seen.version
  <2>1. Implements(q)
    BY <1>2, CommitImplements
  <2>2. request' = [request EXCEPT ![q] = NoRequest] /\ ReleaseAll(q)
    BY <1>2 DEF Commit
  <2>3. TypeOK'
    BY <2>1, StepTypes DEF Implements, RInv, TablesOK
  <2>4. TablesOK'
    BY <2>1, <2>2, <2>3, Released DEF TablesOK, Implements
  <2>5. RequestsOK'
    <3> SUFFICES ASSUME NEW x \in Requests, Active(x)'
                 PROVE  RequestOK(request'[x], proposals', receipts', version')
      BY DEF RequestsOK
    <3>1. x # q /\ request'[x] = request[x]
      BY <2>2, Released DEF Active, NoRequest
    <3>2. RequestOK(request[x], proposals, receipts, version) /\ LeavesAlone(request[x])
      BY <2>1, <3>1 DEF RInv, RequestsOK, Active, Implements
    <3>3. TypeOK /\ version \in [Proposals -> Nat]
      BY DEF RInv, TablesOK
    <3> QED  BY <2>3, <3>1, <3>2, <3>3, LeftAlone
  <2> QED  BY <2>2, <2>4, <2>5, Released DEF RInv
<1> QED  BY <1>1, <1>2

LEMMA InsertKeeps == ASSUME RInv, Insert PROVE RInv'
<1>1. /\ Next /\ version' \in [Proposals -> Nat]
      /\ \A x \in Requests : Active(x) => LeavesAlone(request[x])
  BY InsertImplements
<1>2. UNCHANGED <<request, locks>>
  BY DEF Insert
<1>3. TypeOK'
  BY <1>1, StepTypes DEF RInv, TablesOK
<1>4. TablesOK'
  BY <1>1, <1>2, <1>3 DEF RInv, TablesOK
<1>5. RequestsOK'
  <2> SUFFICES ASSUME NEW x \in Requests, Active(x)
               PROVE  RequestOK(request[x], proposals', receipts', version')
    BY <1>2 DEF RequestsOK, Active
  <2>1. TypeOK /\ version \in [Proposals -> Nat] /\ RequestOK(request[x], proposals, receipts, version)
    BY DEF RInv, TablesOK, RequestsOK
  <2> QED  BY <1>1, <1>3, <2>1, LeftAlone
<1>6. FreshOK' /\ LocksOK'
  BY <1>2 DEF RInv, FreshOK, LocksOK, Active, locks
<1> QED  BY <1>4, <1>5, <1>6 DEF RInv

\* A transaction moves: the tables stay, and its memory becomes n.
LEMMA Moves ==
    ASSUME RInv, NEW q \in Requests, NEW n, UNCHANGED <<proposals, receipts, version>>,
           request' = [request EXCEPT ![q] = n], n.pc # "idle",
           RequestOK(n, proposals, receipts, version),
           \A x \in Requests \ {q} : Active(x) =>
               /\ n.op = "create" => n.r \notin NamedBy(request[x])
               /\ request[x].op = "create" => request[x].r \notin NamedBy(n),
           LocksOK'
    PROVE  RInv'
<1>1. /\ request' = [x \in Requests |-> request'[x]]
      /\ request'[q] = n /\ \A x \in Requests \ {q} : request'[x] = request[x]
  BY DEF RInv, TablesOK
<1>2. TablesOK'
  <2>1. TypeOK'
    BY DEF RInv, TablesOK, TypeOK
  <2> QED  BY <1>1, <2>1 DEF RInv, TablesOK
<1>3. RequestsOK'
  BY <1>1 DEF RInv, RequestsOK, Active
<1>4. FreshOK'
  BY <1>1 DEF RInv, FreshOK, Active
<1> QED  BY <1>2, <1>3, <1>4 DEF RInv

\* A handler goes on: its request keeps what it came with.
Continues(t, n) ==
    /\ DOMAIN n = Memory /\ n = [f \in Memory |-> n[f]]
    /\ n.op = t.op /\ n.p = t.p /\ n.r = t.r /\ n.user = t.user /\ n.arg = t.arg
    /\ n.seen = t.seen /\ n.pc # "idle"

LEMMA GoesOn ==
    ASSUME RInv, NEW q \in Requests, NEW n, UNCHANGED <<proposals, receipts, version>>, Active(q),
           request' = [request EXCEPT ![q] = n], Continues(request[q], n),
           ShapeOK(n), ProposalKept(n, proposals, receipts), ReceiptKept(n, proposals, receipts),
           LocksOK'
    PROVE  RInv'
<1> DEFINE t == request[q]
<1>1. /\ n.op = t.op /\ n.p = t.p /\ n.r = t.r /\ n.seen = t.seen /\ n.pc # "idle"
  BY DEF Continues
<1>2. RequestOK(t, proposals, receipts, version)
  BY DEF RInv, RequestsOK
<1>3. NamesOK(n, proposals, receipts) /\ ScreenKept(n, proposals, receipts, version)
  BY <1>1, <1>2 DEF RequestOK, NamesOK, ScreenKept
<1>4. RequestOK(n, proposals, receipts, version)
  BY <1>3 DEF RequestOK
<1>5. NamedBy(n) = NamedBy(t)
  BY <1>1 DEF NamedBy
<1>6. \A x \in Requests \ {q} : Active(x) =>
          /\ n.op = "create" => n.r \notin NamedBy(request[x])
          /\ request[x].op = "create" => request[x].r \notin NamedBy(n)
  BY <1>1, <1>5 DEF RInv, FreshOK
<1> QED  BY <1>1, <1>4, <1>6, Moves

\* The locks after a move: of everybody else as they were, of q as its new
\* memory says.
LEMMA LocksMoved ==
    ASSUME RInv, NEW q \in Requests, NEW n, request' = [request EXCEPT ![q] = n],
           proposalLock' \in [Proposals -> Requests \union {Free}],
           proposalShare' \in [Proposals -> SUBSET Requests],
           receiptLock' \in [Receipts -> Requests \union {Free}],
           \A p \in Proposals :
               /\ \/ proposalLock'[p] = proposalLock[p]
                  \/ {proposalLock[p], proposalLock'[p]} \subseteq {Free, q}
               /\ proposalLock'[p] = q <=> Exclusive(n) /\ n.p = p
               /\ proposalShare'[p] \ {q} = proposalShare[p] \ {q}
               /\ q \in proposalShare'[p] <=> Shared(n) /\ n.p = p
               /\ \A x \in proposalShare'[p] : proposalLock'[p] \in {Free, x},
           \A r \in Receipts :
               /\ \/ receiptLock'[r] = receiptLock[r]
                  \/ {receiptLock[r], receiptLock'[r]} \subseteq {Free, q}
               /\ receiptLock'[r] = q <=> Holds(n, r)
    PROVE  LocksOK'
<1>1. request'[q] = n /\ \A x \in Requests \ {q} : request'[x] = request[x]
  BY DEF RInv, TablesOK
<1>2. ASSUME NEW p \in Proposals, NEW x \in Requests
      PROVE  /\ proposalLock'[p] = x <=> Exclusive(request'[x]) /\ request'[x].p = p
             /\ x \in proposalShare'[p] <=> Shared(request'[x]) /\ request'[x].p = p
             /\ x \in proposalShare'[p] => proposalLock'[p] \in {Free, x}
  <2>1. CASE x = q
    BY <1>1, <2>1
  <2>2. CASE x # q
    <3>1. request'[x] = request[x] /\ (x \in proposalShare'[p] <=> x \in proposalShare[p])
      BY <1>1, <2>2
    <3>2. proposalLock'[p] = x <=> proposalLock[p] = x
      BY <2>2, FreeAssumption
    <3> QED  BY <3>1, <3>2 DEF RInv, LocksOK
  <2> QED  BY <2>1, <2>2
<1>3. ASSUME NEW r \in Receipts, NEW x \in Requests
      PROVE  receiptLock'[r] = x <=> Holds(request'[x], r)
  <2>1. CASE x = q
    BY <1>1, <2>1
  <2>2. CASE x # q
    <3>1. request'[x] = request[x]
      BY <1>1, <2>2
    <3>2. receiptLock'[r] = x <=> receiptLock[r] = x
      BY <2>2, FreeAssumption
    <3> QED  BY <3>1, <3>2 DEF RInv, LocksOK
  <2> QED  BY <2>1, <2>2
<1> QED  BY <1>2, <1>3 DEF LocksOK

\* The four ways a handler writes to its memory.
LEMMA Rewritten ==
    ASSUME NEW t, ShapeOK(t), NEW pc, pc # "idle", NEW row, NEW marked, NEW total
    PROVE  /\ Continues(t, [t EXCEPT !.pc = pc])
           /\ Continues(t, [t EXCEPT !.pc = pc, !.row = row])
           /\ Continues(t, [t EXCEPT !.pc = pc, !.marked = marked, !.total = total])
           /\ Continues(t, [t EXCEPT !.pc = pc, !.row = row, !.total = total])
<1>1. Continues(t, [t EXCEPT !.pc = pc])
  BY DEF ShapeOK, Continues, Memory
<1>2. Continues(t, [t EXCEPT !.pc = pc, !.row = row])
  BY DEF ShapeOK, Continues, Memory
<1>3. Continues(t, [t EXCEPT !.pc = pc, !.marked = marked, !.total = total])
  BY DEF ShapeOK, Continues, Memory
<1>4. Continues(t, [t EXCEPT !.pc = pc, !.row = row, !.total = total])
  BY DEF ShapeOK, Continues, Memory
<1> QED  BY <1>1, <1>2, <1>3, <1>4

\* A command takes the lock of its proposal and checks the row under it.
LEMMA LockProposalKeeps ==
    ASSUME RInv, NEW q \in Requests, LockProposal(q)
    PROVE  RInv'
<1> DEFINE t == request[q]
           n == [t EXCEPT !.pc = IF t.op = "approve" THEN "marking" ELSE "writing",
                          !.row = proposals[t.p]]
<1>1. /\ t.pc = "start" /\ t.op \in ProposalFirst /\ ExclusiveFree(q, t.p) /\ Active(q)
  BY DEF LockProposal, Active
<1>2. RequestOK(t, proposals, receipts, version)
  BY <1>1 DEF RInv, RequestsOK
<1>3. CASE ~AllowedByProposal(q, proposals[t.p])
  BY <1>3, RollbackKeeps DEF LockProposal
<1>4. CASE AllowedByProposal(q, proposals[t.p])
  <2>1. /\ request' = [request EXCEPT ![q].pc = IF t.op = "approve" THEN "marking" ELSE "writing",
                                      ![q].row = proposals[t.p]]
        /\ proposalLock' = [proposalLock EXCEPT ![t.p] = q]
        /\ UNCHANGED <<proposals, receipts, version, proposalShare, receiptLock>>
    BY <1>4 DEF LockProposal
  <2>2. request' = [request EXCEPT ![q] = n]
    BY <2>1 DEF RInv, TablesOK
  <2>3. Continues(t, n) /\ n.row = proposals[t.p]
        /\ n.pc = IF t.op = "approve" THEN "marking" ELSE "writing"
    <3>1. ShapeOK(t)
      BY <1>2 DEF RequestOK
    <3> HIDE DEF t
    <3> QED  BY <3>1, Rewritten DEF ShapeOK, Memory
  <2> HIDE DEF n
  <2>5. /\ n.op = t.op /\ n.p = t.p /\ n.r = t.r /\ n.user = t.user /\ n.arg = t.arg
        /\ n.seen = t.seen /\ n.row = proposals[t.p]
        /\ n.pc = IF t.op = "approve" THEN "marking" ELSE "writing"
    BY <2>3 DEF Continues
  <2>7. ShapeOK(n)
    BY <1>1, <1>2, <2>3, <2>5
       DEF RequestOK, ShapeOK, Continues, ProposalFirst, ReceiptFirst, Versioned
  <2>8. ~HasReceipt(n) /\ Exclusive(n) /\ ~Shared(n) /\ \A r : ~Holds(n, r)
    BY <1>1, <2>5 DEF HasReceipt, Exclusive, Shared, Holds, ProposalFirst, ReceiptFirst, Versioned
  <2>9. ReceiptKept(n, proposals, receipts)
    BY <2>8 DEF ReceiptKept
  <2>10. AllowedRow(n) /\ (n.op = "approve" => ~FoiDeclaradoPor(receipts, n.p, n.user))
    <3>1. CASE t.op = "update"
      BY <1>4, <2>5, <3>1 DEF AllowedByProposal, AllowedRow
    <3>2. CASE t.op = "submit"
      BY <1>4, <2>5, <3>2 DEF AllowedByProposal, AllowedRow, PodeEnviar
    <3>3. CASE t.op = "approve"
      BY <1>4, <2>5, <3>3 DEF AllowedByProposal, AllowedRow
    <3>4. CASE t.op = "reject"
      BY <1>4, <2>5, <3>4 DEF AllowedByProposal, AllowedRow
    <3>5. CASE t.op = "cancel"
      BY <1>4, <2>5, <3>5 DEF AllowedByProposal, AllowedRow
    <3>6. CASE t.op = "create"
      BY <1>4, <2>5, <3>6 DEF AllowedByProposal, AllowedRow
    <3> QED  BY <1>1, <3>1, <3>2, <3>3, <3>4, <3>5, <3>6 DEF ProposalFirst, Versioned
  <2>11. ProposalKept(n, proposals, receipts)
    <3>1. n.op = "approve" => n.pc # "writing"
      BY <2>5
    <3>2. n.op \notin {"confirm", "return", "reverse"}
      BY <1>1, <2>5 DEF ProposalFirst, Versioned
    <3> QED  BY <2>5, <2>10, <3>1, <3>2 DEF ProposalKept
  <2>12. LocksOK'
    <3>1. /\ proposalLock \in [Proposals -> Requests \union {Free}]
          /\ proposalShare \in [Proposals -> SUBSET Requests]
          /\ receiptLock \in [Receipts -> Requests \union {Free}]
      BY DEF RInv, LocksOK
    <3>2. ~Exclusive(t) /\ ~Shared(t) /\ \A r : ~Holds(t, r)
      BY <1>1 DEF Exclusive, Shared, Holds, HasReceipt, ProposalFirst, ReceiptFirst, Versioned
    <3>3. ASSUME NEW p \in Proposals
          PROVE  /\ \/ proposalLock'[p] = proposalLock[p]
                    \/ {proposalLock[p], proposalLock'[p]} \subseteq {Free, q}
                 /\ proposalLock'[p] = q <=> Exclusive(n) /\ n.p = p
                 /\ proposalShare'[p] \ {q} = proposalShare[p] \ {q}
                 /\ q \in proposalShare'[p] <=> Shared(n) /\ n.p = p
                 /\ \A x \in proposalShare'[p] : proposalLock'[p] \in {Free, x}
      <4>1. proposalLock[p] # q /\ q \notin proposalShare[p]
        BY <3>2 DEF RInv, LocksOK
      <4>2. \A x \in proposalShare[p] : proposalLock[p] \in {Free, x}
        BY <3>1 DEF RInv, LocksOK
      <4>3. CASE p = t.p
        BY <1>1, <2>1, <2>5, <2>8, <3>1, <4>1, <4>3 DEF ExclusiveFree
      <4>4. CASE p # t.p
        BY <2>1, <2>5, <2>8, <3>1, <4>1, <4>2, <4>4
      <4> QED  BY <4>3, <4>4
    <3>4. ASSUME NEW r \in Receipts
          PROVE  /\ \/ receiptLock'[r] = receiptLock[r]
                    \/ {receiptLock[r], receiptLock'[r]} \subseteq {Free, q}
                 /\ receiptLock'[r] = q <=> Holds(n, r)
      BY <2>1, <2>8, <3>2 DEF RInv, LocksOK
    <3>5. /\ proposalLock' \in [Proposals -> Requests \union {Free}]
          /\ proposalShare' \in [Proposals -> SUBSET Requests]
          /\ receiptLock' \in [Receipts -> Requests \union {Free}]
      BY <2>1, <3>1
    <3> QED  BY <2>2, <3>3, <3>4, <3>5, LocksMoved
  <2> QED  BY <1>1, <2>1, <2>2, <2>3, <2>7, <2>9, <2>11, <2>12, GoesOn
<1> QED  BY <1>3, <1>4

\* A move that takes no lock.
LEMMA SameLocks ==
    ASSUME RInv, NEW q \in Requests, NEW n, request' = [request EXCEPT ![q] = n], UNCHANGED locks,
           \A p \in Proposals :
               /\ Exclusive(n) /\ n.p = p <=> Exclusive(request[q]) /\ request[q].p = p
               /\ Shared(n) /\ n.p = p <=> Shared(request[q]) /\ request[q].p = p,
           \A r \in Receipts : Holds(n, r) <=> Holds(request[q], r)
    PROVE  LocksOK'
<1>1. \A p \in Proposals :
          /\ proposalLock[p] = q <=> Exclusive(n) /\ n.p = p
          /\ q \in proposalShare[p] <=> Shared(n) /\ n.p = p
          /\ \A x \in proposalShare[p] : proposalLock[p] \in {Free, x}
  BY DEF RInv, LocksOK
<1>2. \A r \in Receipts : receiptLock[r] = q <=> Holds(n, r)
  BY DEF RInv, LocksOK
<1>3. /\ proposalLock \in [Proposals -> Requests \union {Free}]
      /\ proposalShare \in [Proposals -> SUBSET Requests]
      /\ receiptLock \in [Receipts -> Requests \union {Free}]
  BY DEF RInv, LocksOK
<1> QED  BY <1>1, <1>2, <1>3, LocksMoved DEF locks

\* approve locks, in one statement, every declared receipt of its proposal.
LEMMA MarkReceiptsKeeps ==
    ASSUME RInv, NEW q \in Requests, MarkReceipts(q)
    PROVE  RInv'
<1> DEFINE t == request[q]
           declared == Declarados(receipts, t.p)
           total == Total(Reconhecer(receipts, t.p, t.user), t.p)
           n == [t EXCEPT !.pc = "writing", !.marked = declared, !.total = total]
<1>1. t.pc = "marking" /\ Active(q) /\ \A r \in declared : ReceiptFree(q, r)
  BY DEF MarkReceipts, Active
<1>2. RequestOK(t, proposals, receipts, version) /\ t.op = "approve"
  BY <1>1 DEF RInv, RequestsOK, RequestOK, ShapeOK
<1>3. /\ receiptLock' = [r \in Receipts |-> IF r \in declared THEN q ELSE receiptLock[r]]
      /\ request' = [request EXCEPT ![q].pc = "writing", ![q].marked = declared, ![q].total = total]
      /\ UNCHANGED <<proposals, receipts, version, proposalLock, proposalShare>>
  BY DEF MarkReceipts
<1>4. request' = [request EXCEPT ![q] = n]
  BY <1>3 DEF RInv, TablesOK
<1>5. Continues(t, n) /\ n.pc = "writing" /\ n.marked = declared /\ n.total = total /\ n.row = t.row
  <2>1. ShapeOK(t)
    BY <1>2 DEF RequestOK
  <2> HIDE DEF t, declared, total
  <2> QED  BY <2>1, Rewritten DEF ShapeOK, Memory
<1> HIDE DEF n
<1>6. n.op = "approve" /\ n.p = t.p /\ n.user = t.user /\ n.r = t.r
  BY <1>2, <1>5 DEF Continues
<1>7. ShapeOK(n)
  BY <1>2, <1>5, <1>6 DEF RequestOK, ShapeOK, Continues, ReceiptFirst, ProposalFirst, Versioned
<1>8. ProposalKept(n, proposals, receipts)
  <2>1. Exclusive(t) /\ Exclusive(n)
    BY <1>1, <1>2, <1>5, <1>6 DEF Exclusive, ProposalFirst, Versioned
  <2>2. t.row = proposals[t.p] /\ AllowedRow(t) /\ ~FoiDeclaradoPor(receipts, t.p, t.user)
    BY <1>2, <2>1 DEF RequestOK, ProposalKept
  <2>3. AllowedRow(n)
    BY <1>2, <1>5, <1>6, <2>2 DEF AllowedRow
  <2> QED  BY <1>5, <1>6, <2>2, <2>3 DEF ProposalKept
<1>9. ReceiptKept(n, proposals, receipts) /\ ~HasReceipt(n)
  BY <1>6 DEF ReceiptKept, HasReceipt, ReceiptFirst
<1>10. LocksOK'
  <2>1. /\ proposalLock \in [Proposals -> Requests \union {Free}]
        /\ proposalShare \in [Proposals -> SUBSET Requests]
        /\ receiptLock \in [Receipts -> Requests \union {Free}]
    BY DEF RInv, LocksOK
  <2>2. \A p \in Proposals :
            /\ proposalLock[p] = q <=> Exclusive(n) /\ n.p = p
            /\ q \in proposalShare[p] <=> Shared(n) /\ n.p = p
            /\ \A x \in proposalShare[p] : proposalLock[p] \in {Free, x}
    <3>1. (Exclusive(t) <=> Exclusive(n)) /\ (Shared(t) <=> Shared(n))
      BY <1>1, <1>2, <1>5, <1>6 DEF Exclusive, Shared, ProposalFirst, Versioned
    <3> QED  BY <1>6, <2>1, <3>1 DEF RInv, LocksOK
  <2>3. \A r \in Receipts :
            /\ \/ receiptLock'[r] = receiptLock[r]
               \/ {receiptLock[r], receiptLock'[r]} \subseteq {Free, q}
            /\ receiptLock'[r] = q <=> Holds(n, r)
    <3>1. ~HasReceipt(t) /\ \A r \in Receipts : ~Holds(t, r)
      BY <1>1, <1>2 DEF HasReceipt, Holds, ReceiptFirst
    <3>2. \A r \in Receipts : receiptLock[r] # q
      BY <3>1 DEF RInv, LocksOK
    <3>3. \A r \in Receipts : Holds(n, r) <=> r \in declared
      BY <1>5, <1>6, <1>9 DEF Holds
    <3> QED  BY <1>1, <1>3, <3>2, <3>3 DEF ReceiptFree
  <2>4. receiptLock' \in [Receipts -> Requests \union {Free}]
    BY <1>3, <2>1
  <2> QED  BY <1>3, <1>4, <2>1, <2>2, <2>3, <2>4, LocksMoved
<1> QED  BY <1>1, <1>3, <1>4, <1>5, <1>7, <1>8, <1>9, <1>10, GoesOn

\* A receipt is locked and checked.
LEMMA LockReceiptKeeps ==
    ASSUME RInv, NEW q \in Requests, LockReceipt(q)
    PROVE  RInv'
<1> DEFINE t == request[q]
           pc == IF t.op = "reverse" THEN "inserting" ELSE "checking"
           n == [t EXCEPT !.pc = pc]
           allowed == /\ t.r \in DOMAIN receipts
                      /\ IF t.op = "reverse"
                         THEN receipts[t.r].status = "APPROVED" /\ t.arg <= Liquido(receipts[t.r])
                         ELSE receipts[t.r].status = "SUBMITTED"
<1>1. t.pc = "start" /\ t.op \in ReceiptFirst /\ ReceiptFree(q, t.r) /\ Active(q)
  BY DEF LockReceipt, Active
<1>2. RequestOK(t, proposals, receipts, version) /\ t.r \in Receipts
  BY <1>1 DEF RInv, RequestsOK, RequestOK, ShapeOK
<1>3. CASE ~allowed
  BY <1>3, RollbackKeeps DEF LockReceipt
<1>4. CASE allowed
  <2>1. /\ request' = [request EXCEPT ![q].pc = pc]
        /\ receiptLock' = [receiptLock EXCEPT ![t.r] = q]
        /\ UNCHANGED <<proposals, receipts, version, proposalLock, proposalShare>>
    BY <1>4 DEF LockReceipt, Goes
  <2>2. request' = [request EXCEPT ![q] = n]
    BY <2>1 DEF RInv, TablesOK
  <2>3. Continues(t, n) /\ n.pc = pc
    <3>1. ShapeOK(t) /\ pc # "idle"
      BY <1>2 DEF RequestOK
    <3> HIDE DEF t, pc
    <3> QED  BY <3>1, Rewritten DEF ShapeOK, Memory
  <2> HIDE DEF n
  <2>4. n.op = t.op /\ n.p = t.p /\ n.user = t.user /\ n.r = t.r /\ n.arg = t.arg
    BY <2>3 DEF Continues
  <2>5. ShapeOK(n)
    BY <1>1, <1>2, <2>3, <2>4 DEF RequestOK, ShapeOK, Continues, ReceiptFirst, ProposalFirst, Versioned
  <2>6. /\ ~Exclusive(n) /\ ~Shared(n) /\ HasReceipt(n)
        /\ ~Exclusive(t) /\ ~Shared(t) /\ ~HasReceipt(t)
    BY <1>1, <2>3, <2>4 DEF Exclusive, Shared, HasReceipt
  <2>7. /\ \A r \in Receipts : Holds(n, r) <=> r = t.r
        /\ \A r \in Receipts : ~Holds(t, r)
    BY <1>1, <2>3, <2>4, <2>6 DEF Holds
  <2>8. ProposalKept(n, proposals, receipts)
    BY <2>3, <2>6 DEF ProposalKept
  <2>9. ReceiptKept(n, proposals, receipts)
    BY <1>4, <2>3, <2>4 DEF ReceiptKept
  <2>10. LocksOK'
    <3>1. /\ proposalLock \in [Proposals -> Requests \union {Free}]
          /\ proposalShare \in [Proposals -> SUBSET Requests]
          /\ receiptLock \in [Receipts -> Requests \union {Free}]
      BY DEF RInv, LocksOK
    <3>2. ASSUME NEW p \in Proposals
          PROVE  /\ proposalLock'[p] = proposalLock[p] /\ proposalShare'[p] = proposalShare[p]
                 /\ proposalLock[p] = q <=> Exclusive(n) /\ n.p = p
                 /\ q \in proposalShare[p] <=> Shared(n) /\ n.p = p
                 /\ \A x \in proposalShare[p] : proposalLock[p] \in {Free, x}
      <4>1. proposalLock[p] # q /\ q \notin proposalShare[p]
        BY <2>6 DEF RInv, LocksOK
      <4>2. \A x \in proposalShare[p] : proposalLock[p] \in {Free, x}
        BY <3>1 DEF RInv, LocksOK
      <4> QED  BY <2>1, <2>6, <4>1, <4>2
    <3>3. \A r \in Receipts :
              /\ \/ receiptLock'[r] = receiptLock[r]
                 \/ {receiptLock[r], receiptLock'[r]} \subseteq {Free, q}
              /\ receiptLock'[r] = q <=> Holds(n, r)
      <4>1. \A r \in Receipts : receiptLock[r] # q
        BY <2>7 DEF RInv, LocksOK
      <4> QED  BY <1>1, <1>2, <2>1, <2>7, <3>1, <4>1 DEF ReceiptFree
    <3>4. receiptLock' \in [Receipts -> Requests \union {Free}]
      BY <2>1, <3>1
    <3>5. /\ proposalLock' \in [Proposals -> Requests \union {Free}]
          /\ proposalShare' \in [Proposals -> SUBSET Requests]
      BY <2>1, <3>1
    <3>6. \A p \in Proposals :
              /\ \/ proposalLock'[p] = proposalLock[p]
                 \/ {proposalLock[p], proposalLock'[p]} \subseteq {Free, q}
              /\ proposalLock'[p] = q <=> Exclusive(n) /\ n.p = p
              /\ proposalShare'[p] \ {q} = proposalShare[p] \ {q}
              /\ q \in proposalShare'[p] <=> Shared(n) /\ n.p = p
              /\ \A x \in proposalShare'[p] : proposalLock'[p] \in {Free, x}
      BY <3>2
    <3> HIDE DEF t, pc, allowed
    <3> QED  BY <2>2, <3>3, <3>4, <3>5, <3>6, LocksMoved
  <2> QED  BY <1>1, <2>1, <2>2, <2>3, <2>5, <2>8, <2>9, <2>10, GoesOn
<1> QED  BY <1>3, <1>4

\* The proposal is read without a lock: what it says of an approval stays
\* true, what it says of a removal may not.
LEMMA CheckProposalKeeps ==
    ASSUME RInv, NEW q \in Requests, CheckProposal(q)
    PROVE  RInv'
<1> DEFINE t == request[q]
           row == proposals[t.p]
           pc == IF t.op = "remove" THEN "writing" ELSE "locking"
           n == [t EXCEPT !.pc = pc]
           allowed == IF t.op = "remove"
                      THEN AceitaRecebimento(row)
                      ELSE row.approval = "APPROVED" /\ receipts[t.r].createdBy # t.user
<1>1. t.pc = "checking" /\ Active(q)
  BY DEF CheckProposal, Active
<1>2. RequestOK(t, proposals, receipts, version) /\ t.op \in {"confirm", "return", "remove"}
  BY <1>1 DEF RInv, RequestsOK, RequestOK, ShapeOK, ReceiptFirst
<1>3. CASE ~allowed
  BY <1>3, RollbackKeeps DEF CheckProposal
<1>4. CASE allowed
  <2>1. request' = [request EXCEPT ![q].pc = pc] /\ UNCHANGED <<proposals, receipts, version, locks>>
    BY <1>4 DEF CheckProposal, Goes
  <2>2. request' = [request EXCEPT ![q] = n]
    BY <2>1 DEF RInv, TablesOK
  <2>3. Continues(t, n) /\ n.pc = pc
    <3>1. ShapeOK(t) /\ pc # "idle"
      BY <1>2 DEF RequestOK
    <3> HIDE DEF t, pc
    <3> QED  BY <3>1, Rewritten DEF ShapeOK, Memory
  <2> HIDE DEF n
  <2>4. n.op = t.op /\ n.p = t.p /\ n.user = t.user /\ n.r = t.r /\ n.arg = t.arg
    BY <2>3 DEF Continues
  <2>5. ShapeOK(n)
    BY <1>2, <2>3, <2>4 DEF RequestOK, ShapeOK, Continues, ReceiptFirst, ProposalFirst, Versioned
  <2>6. /\ ~Exclusive(n) /\ ~Shared(n) /\ HasReceipt(n)
        /\ ~Exclusive(t) /\ ~Shared(t) /\ HasReceipt(t)
    BY <1>1, <1>2, <2>3, <2>4
       DEF Exclusive, Shared, HasReceipt, ReceiptFirst, ProposalFirst, Versioned
  <2>7. \A r \in Receipts : Holds(n, r) <=> Holds(t, r)
    BY <1>2, <2>3, <2>4, <2>6 DEF Holds
  <2>8. ProposalKept(n, proposals, receipts)
    BY <1>2, <2>3, <2>4, <2>6 DEF ProposalKept
  <2>9. ReceiptKept(n, proposals, receipts)
    BY <1>2, <1>4, <2>3, <2>4, <2>6 DEF ReceiptKept, RequestOK
  <2>10. LocksOK'
    <3>1. UNCHANGED locks
      BY <2>1
    <3>2. \A p \in Proposals :
              /\ Exclusive(n) /\ n.p = p <=> Exclusive(request[q]) /\ request[q].p = p
              /\ Shared(n) /\ n.p = p <=> Shared(request[q]) /\ request[q].p = p
      BY <2>6
    <3>3. \A r \in Receipts : Holds(n, r) <=> Holds(request[q], r)
      BY <2>7
    <3> QED  BY <2>2, <3>1, <3>2, <3>3, SameLocks
  <2> QED  BY <1>1, <2>1, <2>2, <2>3, <2>5, <2>8, <2>9, <2>10, GoesOn
<1> QED  BY <1>3, <1>4

\* The row of a reversal shares the proposal its foreign key points to.
LEMMA InsertReversalKeeps ==
    ASSUME RInv, NEW q \in Requests, InsertReversal(q)
    PROVE  RInv'
<1> DEFINE t == request[q]
           n == [t EXCEPT !.pc = "locking"]
<1>1. t.pc = "inserting" /\ Active(q) /\ proposalLock[t.p] \in {Free, q}
  BY DEF InsertReversal, Active
<1>2. /\ RequestOK(t, proposals, receipts, version) /\ t.op = "reverse"
      /\ t.p \in DOMAIN proposals /\ t.p \in Proposals
  BY <1>1 DEF RInv, TablesOK, TypeOK, RequestsOK, RequestOK, ShapeOK, NamesOK
<1>3. /\ request' = [request EXCEPT ![q].pc = "locking"]
      /\ proposalShare' = [proposalShare EXCEPT ![t.p] = @ \union {q}]
      /\ UNCHANGED <<proposals, receipts, version, proposalLock, receiptLock>>
  BY DEF InsertReversal, Goes
<1>4. request' = [request EXCEPT ![q] = n]
  BY <1>3 DEF RInv, TablesOK
<1>5. Continues(t, n) /\ n.pc = "locking"
  <2>1. ShapeOK(t)
    BY <1>2 DEF RequestOK
  <2> HIDE DEF t
  <2> QED  BY <2>1, Rewritten DEF ShapeOK, Memory
<1> HIDE DEF n
<1>6. n.op = "reverse" /\ n.p = t.p /\ n.user = t.user /\ n.r = t.r /\ n.arg = t.arg
  BY <1>2, <1>5 DEF Continues
<1>7. ShapeOK(n)
  BY <1>2, <1>5, <1>6 DEF RequestOK, ShapeOK, Continues, ReceiptFirst, ProposalFirst, Versioned
<1>8. /\ ~Exclusive(n) /\ Shared(n) /\ HasReceipt(n)
      /\ ~Exclusive(t) /\ ~Shared(t) /\ HasReceipt(t)
  BY <1>1, <1>2, <1>5, <1>6
     DEF Exclusive, Shared, HasReceipt, ReceiptFirst, ProposalFirst, Versioned
<1>9. \A r \in Receipts : Holds(n, r) <=> Holds(t, r)
  BY <1>2, <1>6, <1>8 DEF Holds
<1>10. ProposalKept(n, proposals, receipts)
  BY <1>5, <1>6, <1>8 DEF ProposalKept
<1>11. ReceiptKept(n, proposals, receipts)
  BY <1>2, <1>6, <1>8 DEF ReceiptKept, RequestOK
<1>12. LocksOK'
  <2>1. /\ proposalLock \in [Proposals -> Requests \union {Free}]
        /\ proposalShare \in [Proposals -> SUBSET Requests]
        /\ receiptLock \in [Receipts -> Requests \union {Free}]
    BY DEF RInv, LocksOK
  <2>2. ASSUME NEW p \in Proposals
        PROVE  /\ proposalLock[p] = q <=> Exclusive(n) /\ n.p = p
               /\ proposalShare'[p] \ {q} = proposalShare[p] \ {q}
               /\ q \in proposalShare'[p] <=> Shared(n) /\ n.p = p
               /\ \A x \in proposalShare'[p] : proposalLock[p] \in {Free, x}
    <3>1. proposalLock[p] # q /\ q \notin proposalShare[p]
      BY <1>8 DEF RInv, LocksOK
    <3>2. \A x \in proposalShare[p] : proposalLock[p] \in {Free, x}
      BY <2>1 DEF RInv, LocksOK
    <3>3. proposalShare'[p] = IF p = t.p THEN proposalShare[p] \union {q} ELSE proposalShare[p]
      BY <1>3, <2>1
    <3> QED  BY <1>1, <1>6, <1>8, <3>1, <3>2, <3>3
  <2>3. \A r \in Receipts : receiptLock[r] = q <=> Holds(n, r)
    BY <1>9 DEF RInv, LocksOK
  <2>4. proposalShare' \in [Proposals -> SUBSET Requests]
    BY <1>3, <2>1
  <2> QED  BY <1>3, <1>4, <2>1, <2>2, <2>3, <2>4, LocksMoved
<1> QED  BY <1>1, <1>3, <1>4, <1>5, <1>7, <1>10, <1>11, <1>12, GoesOn

\* A decision or a reversal locks the proposal and sums its receipts, its own
\* write included.
LEMMA RecalculateKeeps ==
    ASSUME RInv, NEW q \in Requests, Recalculate(q)
    PROVE  RInv'
<1> DEFINE t == request[q]
           total == Total(OwnReceipts(q), t.p)
           row == proposals[t.p]
           n == [t EXCEPT !.pc = "writing", !.row = row, !.total = total]
<1>1. t.pc = "locking" /\ Active(q) /\ ExclusiveFree(q, t.p)
  BY DEF Recalculate, Active
<1>2. /\ RequestOK(t, proposals, receipts, version) /\ t.op \in {"confirm", "return", "reverse"}
      /\ t.p \in DOMAIN proposals /\ t.p \in Proposals
  BY <1>1 DEF RInv, TablesOK, TypeOK, RequestsOK, RequestOK, ShapeOK, NamesOK, ReceiptFirst,
              ProposalFirst, Versioned
<1>3. CASE ~AllowedByProposal(q, row)
  BY <1>3, RollbackKeeps DEF Recalculate
<1>4. CASE AllowedByProposal(q, row)
  <2>1. /\ request' = [request EXCEPT ![q].pc = "writing", ![q].row = row, ![q].total = total]
        /\ proposalLock' = [proposalLock EXCEPT ![t.p] = q]
        /\ UNCHANGED <<proposals, receipts, version, proposalShare, receiptLock>>
    BY <1>4 DEF Recalculate
  <2>2. request' = [request EXCEPT ![q] = n]
    BY <2>1 DEF RInv, TablesOK
  <2>3. Continues(t, n) /\ n.pc = "writing" /\ n.row = row /\ n.total = total
    <3>1. ShapeOK(t)
      BY <1>2 DEF RequestOK
    <3> HIDE DEF t, row, total
    <3> QED  BY <3>1, Rewritten DEF ShapeOK, Memory
  <2> HIDE DEF n
  <2>4. n.op = t.op /\ n.p = t.p /\ n.user = t.user /\ n.r = t.r /\ n.arg = t.arg
    BY <2>3 DEF Continues
  <2>5. ShapeOK(n)
    BY <1>2, <2>3, <2>4 DEF RequestOK, ShapeOK, Continues, ReceiptFirst, ProposalFirst, Versioned
  <2>6. /\ Exclusive(n) /\ HasReceipt(n) /\ ~Exclusive(t) /\ HasReceipt(t)
        /\ Shared(n) <=> Shared(t)
    BY <1>1, <1>2, <2>3, <2>4
       DEF Exclusive, Shared, HasReceipt, ReceiptFirst, ProposalFirst, Versioned
  <2>7. \A r \in Receipts : Holds(n, r) <=> Holds(t, r)
    BY <1>2, <2>4, <2>6 DEF Holds
  <2>8. ReceiptKept(n, proposals, receipts)
    BY <1>1, <1>2, <2>3, <2>4, <2>6 DEF ReceiptKept, RequestOK
  <2>9. ProposalKept(n, proposals, receipts)
    <3>1. PodeRegistrarTotal(row)
      BY <1>2, <1>4 DEF AllowedByProposal
    <3>2. AllowedRow(n)
      BY <1>2, <2>3, <2>4, <3>1 DEF AllowedRow
    <3>3. OwnReceipts(q) = Written(n, receipts)
      <4>1. CASE t.op = "confirm"
        BY <2>4, <4>1 DEF OwnReceipts, Written
      <4>2. CASE t.op = "return"
        BY <2>4, <4>2 DEF OwnReceipts, Written
      <4>3. CASE t.op = "reverse"
        BY <2>4, <4>3 DEF OwnReceipts, Written
      <4> QED  BY <1>2, <4>1, <4>2, <4>3
    <3> QED  BY <1>2, <2>3, <2>4, <3>2, <3>3 DEF ProposalKept
  <2>10. LocksOK'
    <3>1. /\ proposalLock \in [Proposals -> Requests \union {Free}]
          /\ proposalShare \in [Proposals -> SUBSET Requests]
          /\ receiptLock \in [Receipts -> Requests \union {Free}]
      BY DEF RInv, LocksOK
    <3>2. ASSUME NEW p \in Proposals
          PROVE  /\ \/ proposalLock'[p] = proposalLock[p]
                    \/ {proposalLock[p], proposalLock'[p]} \subseteq {Free, q}
                 /\ proposalLock'[p] = q <=> Exclusive(n) /\ n.p = p
                 /\ q \in proposalShare[p] <=> Shared(n) /\ n.p = p
                 /\ \A x \in proposalShare[p] : proposalLock'[p] \in {Free, x}
      <4>1. proposalLock[p] # q
        BY <2>6 DEF RInv, LocksOK
      <4>2. \A x \in proposalShare[p] : proposalLock[p] \in {Free, x}
        BY <3>1 DEF RInv, LocksOK
      <4>3. q \in proposalShare[p] <=> Shared(n) /\ n.p = p
        BY <2>4, <2>6 DEF RInv, LocksOK
      <4>4. proposalLock'[p] = IF p = t.p THEN q ELSE proposalLock[p]
        BY <2>1, <3>1
      <4> QED  BY <1>1, <2>4, <2>6, <4>1, <4>2, <4>3, <4>4 DEF ExclusiveFree
    <3>3. \A r \in Receipts : receiptLock[r] = q <=> Holds(n, r)
      BY <2>7 DEF RInv, LocksOK
    <3>4. proposalLock' \in [Proposals -> Requests \union {Free}]
      BY <2>1, <3>1
    <3> QED  BY <2>1, <2>2, <3>1, <3>2, <3>3, <3>4, LocksMoved
  <2> QED  BY <1>1, <2>1, <2>2, <2>3, <2>5, <2>8, <2>9, <2>10, GoesOn
<1> QED  BY <1>3, <1>4

\* A request arrives, with what its client had on the screen.
LEMMA ArrivesKeeps ==
    ASSUME RInv, NEW q \in Requests, NEW op, NEW p, NEW r, NEW u \in Users, NEW arg,
           Arrives(q, op, p, r, u, arg),
           p \in DOMAIN proposals, op \in ProposalFirst \union ReceiptFirst,
           op = "update" => arg \in Commissions,
           op = "create" => arg \in Amounts /\ r \in Unused,
           op = "reverse" => arg \in Nat \ {0},
           op \in ReceiptFirst => r \in DOMAIN receipts /\ receipts[r].proposal = p
    PROVE  RInv'
<1> DEFINE n == [op |-> op, p |-> p, r |-> r, user |-> u, arg |-> arg, pc |-> "start",
                 seen |-> IF op \in Versioned THEN Seen(p) ELSE NotSeen,
                 row |-> NotSeen, marked |-> {}, total |-> 0]
<1>1. ~Active(q) /\ request' = [request EXCEPT ![q] = n]
      /\ UNCHANGED <<proposals, receipts, version, locks>>
  BY DEF Arrives
<1>2. /\ n.op = op /\ n.p = p /\ n.r = r /\ n.user = u /\ n.arg = arg /\ n.pc = "start"
      /\ n.seen = IF op \in Versioned THEN Seen(p) ELSE NotSeen
      /\ DOMAIN n = Memory /\ n = [f \in Memory |-> n[f]]
  BY DEF Memory
<1> HIDE DEF n
<1>3. request[q] = NoRequest
  BY <1>1 DEF Active, RInv, TablesOK
<1>4. r \in Receipts \/ op \in Versioned
  BY DEF RInv, TablesOK, TypeOK, Unused, ProposalFirst
<1>5. ShapeOK(n)
  BY <1>2, <1>4 DEF ShapeOK, ProposalFirst, ReceiptFirst, Versioned
<1>6. /\ ~Exclusive(n) /\ ~Shared(n) /\ ~HasReceipt(n) /\ \A y \in Receipts : ~Holds(n, y)
  BY <1>2 DEF Exclusive, Shared, HasReceipt, Holds
<1>7. NamesOK(n, proposals, receipts)
  BY <1>2 DEF NamesOK, Unused
<1>8. ScreenKept(n, proposals, receipts, version)
  <2> SUFFICES ASSUME op \in Versioned PROVE ScreenKept(n, proposals, receipts, version)
    BY <1>2 DEF ScreenKept
  <2>1. /\ n.seen.row = proposals[p] /\ n.seen.declared = Declarados(receipts, p)
        /\ n.seen.version = version[p]
    BY <1>2 DEF Seen
  <2>2. version[p] \in Nat
    BY DEF RInv, TablesOK, TypeOK
  <2>3. Declarados(receipts, p) \subseteq DOMAIN receipts
    BY DEF Declarados
  <2> QED  BY <1>2, <2>1, <2>2, <2>3 DEF ScreenKept
<1>9. RequestOK(n, proposals, receipts, version)
  BY <1>2, <1>5, <1>6, <1>7, <1>8 DEF RequestOK, ProposalKept, ReceiptKept
<1>10. ASSUME NEW x \in Requests \ {q}, Active(x)
       PROVE  /\ n.op = "create" => n.r \notin NamedBy(request[x])
              /\ request[x].op = "create" => request[x].r \notin NamedBy(n)
  <2>1. n.op = "create" => n.r \notin NamedBy(request[x])
    BY <1>2, <1>10 DEF Unused, Names, NamedBy
  <2>2. ASSUME request[x].op = "create" PROVE request[x].r \notin NamedBy(n)
    <3>1. request[x].r \notin DOMAIN receipts
      BY <1>10, <2>2 DEF RInv, RequestsOK, RequestOK, NamesOK
    <3>2. CASE op \in Versioned
      BY <1>2, <3>1, <3>2 DEF NamedBy, Seen, Declarados
    <3>3. CASE op = "create"
      <4>1. NamedBy(n) = {r} /\ NamedBy(request[x]) = {request[x].r}
        BY <1>2, <2>2, <3>3 DEF NamedBy, Versioned
      <4> QED  BY <1>2, <2>1, <3>3, <4>1
    <3>4. CASE op \in ReceiptFirst
      BY <1>2, <3>1, <3>4 DEF NamedBy, Versioned, ReceiptFirst
    <3> QED  BY <3>2, <3>3, <3>4 DEF ProposalFirst
  <2> QED  BY <2>1, <2>2
<1>11. LocksOK'
  <2>1. /\ ~Exclusive(request[q]) /\ ~Shared(request[q])
        /\ \A y \in Receipts : ~Holds(request[q], y)
    BY <1>3 DEF Exclusive, Shared, HasReceipt, Holds, NoRequest
  <2>2. UNCHANGED locks
    BY <1>1
  <2> QED  BY <1>1, <1>6, <2>1, <2>2, SameLocks
<1> QED  BY <1>1, <1>2, <1>9, <1>10, <1>11, Moves

LEMMA ArrivalKeeps == ASSUME RInv, Arrival PROVE RInv'
<1>1. PICK q \in Requests, u \in Users :
          \/ \E p \in DOMAIN proposals : ArrivesForProposal(q, p, u)
          \/ \E r \in DOMAIN receipts : ArrivesForReceipt(q, r, u)
  BY DEF Arrival
<1>2. ASSUME NEW p \in DOMAIN proposals, ArrivesForProposal(q, p, u) PROVE RInv'
  <2>1. ASSUME NEW op \in {"submit", "approve", "reject", "cancel"},
               Arrives(q, op, p, NoReceipt, u, 0)
        PROVE  RInv'
    BY <2>1, ArrivesKeeps DEF ProposalFirst, ReceiptFirst, Versioned
  <2>2. ASSUME NEW c \in Commissions, Arrives(q, "update", p, NoReceipt, u, c) PROVE RInv'
    BY <2>2, ArrivesKeeps DEF ProposalFirst, ReceiptFirst, Versioned
  <2>3. ASSUME NEW r \in Unused, NEW a \in Amounts, Arrives(q, "create", p, r, u, a) PROVE RInv'
    BY <2>3, ArrivesKeeps DEF ProposalFirst, ReceiptFirst, Versioned
  <2> QED  BY <1>2, <2>1, <2>2, <2>3 DEF ArrivesForProposal
<1>3. ASSUME NEW r \in DOMAIN receipts, ArrivesForReceipt(q, r, u) PROVE RInv'
  <2> DEFINE p == receipts[r].proposal
  <2>1. p \in DOMAIN proposals /\ receipts[r].amount \in Nat
    BY AmountsAssumption DEF RInv, TablesOK, TypeOK, ReceiptRow
  <2>2. ASSUME NEW op \in {"confirm", "return", "remove"}, Arrives(q, op, p, r, u, 0) PROVE RInv'
    BY <2>1, <2>2, ArrivesKeeps DEF ProposalFirst, ReceiptFirst, Versioned
  <2>3. ASSUME NEW a \in 1..receipts[r].amount, Arrives(q, "reverse", p, r, u, a) PROVE RInv'
    <3>1. a \in Nat \ {0}
      BY <2>1
    <3> QED  BY <2>1, <2>3, <3>1, ArrivesKeeps DEF ProposalFirst, ReceiptFirst, Versioned
  <2> QED  BY <1>3, <2>2, <2>3 DEF ArrivesForReceipt
<1> QED  BY <1>1, <1>2, <1>3

-----------------------------------------------------------------------------
(***************************************************************************)
(* The invariant of the interleaved requests, and what each of their steps *)
(* is to the committed tables.                                             *)
(***************************************************************************)

LEMMA RInitial == RInit => RInv
<1> SUFFICES ASSUME RInit PROVE RInv
  OBVIOUS
<1>1. TypeOK
  BY DEF RInit, Init, TypeOK, EmptyTable
<1>2. /\ version = [p \in Proposals |-> 0] /\ request = [q \in Requests |-> NoRequest]
      /\ proposalLock = [p \in Proposals |-> Free] /\ proposalShare = [p \in Proposals |-> {}]
      /\ receiptLock = [r \in Receipts |-> Free]
  BY DEF RInit
<1>3. \A q \in Requests : request[q] = NoRequest /\ ~Active(q)
  BY <1>2 DEF NoRequest, Active
<1>4. /\ ~Exclusive(NoRequest) /\ ~Shared(NoRequest) /\ \A r : ~Holds(NoRequest, r)
  BY DEF NoRequest, Exclusive, Shared, Holds, HasReceipt
<1>5. TablesOK
  BY <1>1, <1>2, <1>3 DEF TablesOK
<1>6. RequestsOK /\ FreshOK
  BY <1>3 DEF RequestsOK, FreshOK
<1>7. LocksOK
  <2>1. \A p \in Proposals, q \in Requests :
            /\ proposalLock[p] # q /\ q \notin proposalShare[p]
            /\ ~Exclusive(request[q]) /\ ~Shared(request[q])
    BY <1>2, <1>3, <1>4, FreeAssumption
  <2>2. \A r \in Receipts, q \in Requests : receiptLock[r] # q /\ ~Holds(request[q], r)
    BY <1>2, <1>3, <1>4, FreeAssumption
  <2>3. /\ proposalLock \in [Proposals -> Requests \union {Free}]
        /\ proposalShare \in [Proposals -> SUBSET Requests]
        /\ receiptLock \in [Receipts -> Requests \union {Free}]
    BY <1>2
  <2> QED  BY <2>1, <2>2, <2>3 DEF LocksOK
<1> QED  BY <1>5, <1>6, <1>7 DEF RInv

LEMMA RInductive == RInv /\ [RNext]_rvars => RInv'
<1> SUFFICES ASSUME RInv, [RNext]_rvars PROVE RInv'
  OBVIOUS
<1>1. CASE Insert
  BY <1>1, InsertKeeps
<1>2. CASE Arrival
  BY <1>2, ArrivalKeeps
<1>3. ASSUME NEW q \in Requests, Step(q) PROVE RInv'
  BY <1>3, LockProposalKeeps, MarkReceiptsKeeps, LockReceiptKeeps, CheckProposalKeeps,
     InsertReversalKeeps, RecalculateKeeps, CommitKeeps DEF Step
<1>4. ASSUME NEW q \in Requests, Crash(q) PROVE RInv'
  BY <1>4, RollbackKeeps DEF Crash
<1>5. CASE UNCHANGED rvars
  BY <1>5 DEF rvars, RInv, TablesOK, TypeOK, RequestsOK, FreshOK, LocksOK, Active
<1> QED  BY <1>1, <1>2, <1>3, <1>4, <1>5 DEF RNext

LEMMA RInvariant == RSpec => []RInv
BY RInitial, RInductive, PTL DEF RSpec

\* The commits that take effect, and the only steps that change the tables.
Commits(q) ==
    /\ Commit(q)
    /\ request[q].op \notin Versioned \/ version[request[q].p] = request[q].seen.version

LEMMA OnlyCommits ==
    ASSUME [RNext]_rvars
    PROVE  \/ Insert
           \/ \E q \in Requests : Commits(q)
           \/ UNCHANGED <<proposals, receipts, version>>
<1>1. CASE Arrival
  BY <1>1 DEF Arrival, ArrivesForProposal, ArrivesForReceipt, Arrives
<1>2. ASSUME NEW q \in Requests, Rollback(q) PROVE UNCHANGED <<proposals, receipts, version>>
  BY <1>2 DEF Rollback
<1>3. ASSUME NEW q \in Requests, Step(q), ~Commits(q)
      PROVE  UNCHANGED <<proposals, receipts, version>>
  BY <1>2, <1>3 DEF Step, LockProposal, MarkReceipts, LockReceipt, CheckProposal, InsertReversal,
                    Recalculate, Commit, Commits
<1>4. CASE UNCHANGED rvars
  BY <1>4 DEF rvars
<1> QED  BY <1>1, <1>2, <1>3, <1>4 DEF RNext, Crash

LEMMA StepImplements == RInv /\ [RNext]_rvars => [Next \/ LateRemoval]_vars
<1> SUFFICES ASSUME RInv, [RNext]_rvars PROVE [Next \/ LateRemoval]_vars
  OBVIOUS
<1>1. ASSUME NEW q \in Requests, Commits(q) PROVE Next \/ LateRemoval
  BY <1>1, CommitImplements DEF Commits, Implements
<1>2. CASE Insert
  BY <1>2, InsertImplements
<1> QED  BY <1>1, <1>2, OnlyCommits DEF vars

\* The interleaved transactions implement the atomic handlers of
\* ProposalLifecycle, but for the removal that races with a submission.
THEOREM InterleavingsAreAtomic == RSpec => RequestsImplementLifecycle
<1>1. RInit => Init
  BY DEF RInit
<1>2. RInv /\ [RNext]_rvars => [Next \/ LateRemoval]_vars
  BY StepImplements
<1> QED  BY <1>1, <1>2, RInvariant, PTL DEF RSpec, RequestsImplementLifecycle

-----------------------------------------------------------------------------
(***************************************************************************)
(* What the commands of a screen write over.                               *)
(***************************************************************************)

\* A save is the effective commit of the request itself: the lock leaves
\* nobody else the right to change the version.
LEMMA SavesCommits ==
    ASSUME RInv, [RNext]_rvars, NEW q \in Requests, Saves(q), request[q].op \in Versioned
    PROVE  Commits(q)
<1> DEFINE t == request[q]
<1>1. t.pc = "writing" /\ version'[t.p] # version[t.p]
  BY DEF Saves
<1>2. /\ Active(q) /\ t.p \in DOMAIN proposals /\ t.p \in Proposals /\ Exclusive(t)
  BY <1>1, Committing DEF Versioned
<1>3. CASE Insert
  <2>1. LeavesAlone(t)
    BY <1>2, <1>3, InsertImplements
  <2>2. PICK p \in Proposals : p \notin DOMAIN proposals /\ version' = [version EXCEPT ![p] = 1]
    BY <1>3 DEF Insert, CreateProposal, CreateProposalWithReceipt
  <2> QED  BY <1>1, <1>2, <2>2
<1>4. ASSUME NEW x \in Requests, Commits(x), x # q PROVE FALSE
  <2>1. /\ request[x].pc = "writing"
        /\ IF WritesProposal(x)
           THEN version' = [version EXCEPT ![request[x].p] = @ + 1]
           ELSE UNCHANGED version
    BY <1>4 DEF Commits, Commit
  <2>2. WritesProposal(x) /\ request[x].p = t.p
    BY <1>1, <1>2, <2>1 DEF RInv, TablesOK
  <2>3. request[x].op # "remove"
    BY <2>2 DEF WritesProposal
  <2>4. Exclusive(request[x])
    BY <2>1, <2>3, Committing
  <2> QED  BY <1>2, <1>4, <2>2, <2>4, Apart
<1> QED  BY <1>1, <1>3, <1>4, OnlyCommits

\* A command with the version of a screen writes over the row of that screen
\* and no other.
THEOREM WritesAreSeen == RSpec => NoBlindWrite
<1>1. ASSUME RInv, [RNext]_rvars, NEW q \in Requests, Saves(q), request[q].op \in Versioned
      PROVE  proposals[request[q].p] = request[q].seen.row
  <2>1. request[q].pc = "writing" /\ version[request[q].p] = request[q].seen.version
    BY <1>1, SavesCommits DEF Commits, Saves
  <2>2. ScreenKept(request[q], proposals, receipts, version)
    BY <1>1, <2>1, Committing DEF RequestOK
  <2> QED  BY <1>1, <2>1, <2>2 DEF ScreenKept
<1>2. RInv /\ [RNext]_rvars =>
          [\A q \in Requests :
               Saves(q) /\ request[q].op \in Versioned =>
                   proposals[request[q].p] = request[q].seen.row]_rvars
  BY <1>1
<1> QED  BY <1>2, RInvariant, PTL DEF RSpec, NoBlindWrite

\* An approval recognises the receipts its client had read, no other, and all
\* of them that still exist.
THEOREM ReviewIsRecognised == RSpec => ReviewedSetIsRecognised
<1>1. ASSUME RInv, [RNext]_rvars, NEW q \in Requests, Saves(q), request[q].op = "approve"
      PROVE  request[q].marked = request[q].seen.declared \intersect DOMAIN receipts
  <2>1. request[q].pc = "writing" /\ version[request[q].p] = request[q].seen.version
    BY <1>1, SavesCommits DEF Commits, Saves, Versioned
  <2>2. /\ RequestOK(request[q], proposals, receipts, version)
        /\ request[q].row = proposals[request[q].p] /\ AllowedRow(request[q])
    BY <1>1, <2>1, Committing
  <2>3. proposals[request[q].p].approval = "SUBMITTED"
    BY <1>1, <2>2 DEF AllowedRow, PodeDecidir, AprovacaoPermite, TransicoesDeAprovacao
  <2>4. request[q].marked = Declarados(receipts, request[q].p)
    BY <1>1, <2>1, <2>2 DEF RequestOK, ProposalKept
  <2> QED  BY <1>1, <2>1, <2>2, <2>3, <2>4 DEF RequestOK, ScreenKept, Versioned
<1>2. RInv /\ [RNext]_rvars =>
          [\A q \in Requests :
               Saves(q) /\ request[q].op = "approve" =>
                   request[q].marked = request[q].seen.declared \intersect DOMAIN receipts]_rvars
  BY <1>1
<1> QED  BY <1>2, RInvariant, PTL DEF RSpec, ReviewedSetIsRecognised

-----------------------------------------------------------------------------
(***************************************************************************)
(* Deadlocks.  In a set of requests that wait for one another nobody       *)
(* writes; nobody marks, since the receipts of a proposal under analysis   *)
(* are held by no decision that waits; so nobody holds a proposal          *)
(* exclusively, and who waits for one waits for the share of a reversal.   *)
(***************************************************************************)

WaitForEachOther(waiting) == \A q \in waiting : Blockers(q) \intersect waiting # {}

\* Where a request that waits is.
LEMMA WaitsSomewhere ==
    ASSUME RInv, NEW q \in Requests, Blockers(q) # {}
    PROVE  /\ Active(q) /\ RequestOK(request[q], proposals, receipts, version)
           /\ request[q].pc \in {"start", "marking", "inserting", "locking"}
           /\ request[q].p \in Proposals
<1>1. request[q].pc \in {"start", "marking", "inserting", "locking"}
  BY DEF Blockers
<1>2. Active(q)
  BY <1>1 DEF Active
<1>3. RequestOK(request[q], proposals, receipts, version)
  BY <1>2 DEF RInv, RequestsOK
<1> QED  BY <1>1, <1>2, <1>3 DEF RequestOK, NamesOK, RInv, TablesOK, TypeOK

\* Who has a receipt someone waits for.
LEMMA ReceiptHolder ==
    ASSUME RInv, NEW b \in Requests, Blockers(b) # {}, NEW r \in Receipts, receiptLock[r] = b
    PROVE  HasReceipt(request[b]) /\ request[b].r = r
<1>1. Holds(request[b], r)
  BY DEF RInv, LocksOK
<1>2. request[b].pc # "writing"
  BY WaitsSomewhere
<1> QED  BY <1>1, <1>2 DEF Holds

\* An approval never waits for a request that waits.
LEMMA MarkingWaitsForNobody ==
    ASSUME RInv, NEW q \in Requests, request[q].pc = "marking",
           NEW b \in Blockers(q), b \in Requests, Blockers(b) # {}
    PROVE  FALSE
<1> DEFINE t == request[q]
           s == request[b]
<1>1. PICK r \in Declarados(receipts, t.p) : receiptLock[r] = b
  BY DEF Blockers
<1>2. r \in DOMAIN receipts /\ receipts[r].proposal = t.p /\ receipts[r].status = "SUBMITTED"
  BY DEF Declarados
<1>3. r \in Receipts
  BY <1>2 DEF RInv, TablesOK, TypeOK
<1>4. HasReceipt(s) /\ s.r = r
  BY <1>1, <1>3, ReceiptHolder
<1>5. /\ RequestOK(s, proposals, receipts, version)
      /\ s.pc \in {"start", "marking", "inserting", "locking"}
  BY WaitsSomewhere
<1>6. s.op # "reverse"
  BY <1>2, <1>4, <1>5 DEF RequestOK, ReceiptKept
<1>7. s.op \in {"confirm", "return"} /\ s.pc = "locking"
  BY <1>4, <1>5, <1>6 DEF RequestOK, ShapeOK, HasReceipt, ReceiptFirst
<1>8. s.p = t.p /\ proposals[s.p].approval = "APPROVED"
  <2>1. s.op \in ReceiptFirst
    BY <1>7 DEF ReceiptFirst
  <2> QED  BY <1>2, <1>4, <1>5, <1>7, <2>1 DEF RequestOK, ReceiptKept, NamesOK
<1>9. proposals[t.p].approval = "SUBMITTED"
  <2>1. Active(q)
    BY DEF Active
  <2>2. RequestOK(t, proposals, receipts, version) /\ t.op = "approve"
    BY <2>1 DEF RInv, RequestsOK, RequestOK, ShapeOK
  <2>3. Exclusive(t)
    BY <2>2 DEF Exclusive, ProposalFirst, Versioned
  <2>4. t.row = proposals[t.p] /\ PodeDecidir(t.row, "APPROVED")
    BY <2>2, <2>3 DEF RequestOK, ProposalKept, AllowedRow
  <2> QED  BY <2>4 DEF PodeDecidir, AprovacaoPermite, TransicoesDeAprovacao
<1> QED  BY <1>8, <1>9

\* So who waits holds no proposal exclusively.
LEMMA WaitersHoldNoProposal ==
    ASSUME RInv, NEW waiting \in SUBSET Requests, WaitForEachOther(waiting), NEW q \in waiting
    PROVE  request[q].pc # "marking" /\ \A p \in Proposals : proposalLock[p] # q
<1>1. Blockers(q) \intersect waiting # {} /\ q \in Requests
  BY DEF WaitForEachOther
<1>2. request[q].pc # "marking"
  <2> SUFFICES ASSUME request[q].pc = "marking" PROVE FALSE
    OBVIOUS
  <2>1. PICK b \in Blockers(q) : b \in waiting
    BY <1>1
  <2>2. b \in Requests /\ Blockers(b) # {}
    BY <2>1 DEF WaitForEachOther
  <2> QED  BY <1>1, <2>2, MarkingWaitsForNobody
<1>3. request[q].pc \in {"start", "marking", "inserting", "locking"}
  BY <1>1, WaitsSomewhere
<1>4. ~Exclusive(request[q])
  BY <1>2, <1>3 DEF Exclusive
<1> QED  BY <1>1, <1>2, <1>4 DEF RInv, LocksOK

\* Who waits for a proposal waits for a reversal that shares it.
LEMMA WaitsForSharer ==
    ASSUME RInv, NEW waiting \in SUBSET Requests, WaitForEachOther(waiting), NEW q \in waiting,
           ~(request[q].pc = "start" /\ request[q].op \in ReceiptFirst)
    PROVE  \E b \in waiting :
               /\ b # q /\ request[b].op = "reverse" /\ request[b].pc = "locking"
               /\ request[b].p = request[q].p
<1> DEFINE p == request[q].p
<1>1. PICK b \in waiting : b \in Blockers(q)
  BY DEF WaitForEachOther
<1>2. q \in Requests /\ b \in Requests /\ Blockers(q) # {} /\ Blockers(b) # {}
  BY <1>1 DEF WaitForEachOther
<1>3. p \in Proposals /\ request[b].pc \in {"start", "marking", "inserting", "locking"}
  BY <1>2, WaitsSomewhere
<1>4. request[q].pc # "marking" /\ proposalLock[p] # b
  BY <1>3, WaitersHoldNoProposal
<1>5. b \in proposalShare[p] \ {q}
  BY <1>1, <1>4 DEF Blockers
<1>6. Shared(request[b]) /\ request[b].p = p
  BY <1>2, <1>3, <1>5 DEF RInv, LocksOK
<1> QED  BY <1>3, <1>5, <1>6 DEF Shared

\* The locks are taken in two opposite orders, and still only two reversals
\* of the same proposal ever deadlock.
THEOREM DeadlocksAreReversals == RSpec => []OnlyReversalsDeadlock
<1>1. ASSUME RInv PROVE OnlyReversalsDeadlock
  <2> SUFFICES ASSUME NEW waiting \in SUBSET Requests, waiting # {}, WaitForEachOther(waiting)
               PROVE  \E q1, q2 \in waiting :
                          /\ q1 # q2
                          /\ request[q1].op = "reverse" /\ request[q2].op = "reverse"
                          /\ request[q1].p = request[q2].p
    BY DEF OnlyReversalsDeadlock, WaitForEachOther
  <2>1. PICK q \in waiting : TRUE
    OBVIOUS
  <2>2. \E b \in waiting : request[b].pc # "start"
    <3>1. CASE ~(request[q].pc = "start" /\ request[q].op \in ReceiptFirst)
      BY <1>1, <3>1, WaitsForSharer
    <3>2. CASE request[q].pc = "start" /\ request[q].op \in ReceiptFirst
      <4>1. PICK b \in waiting : b \in Blockers(q)
        BY DEF WaitForEachOther
      <4>2. q \in Requests /\ b \in Requests /\ Blockers(q) # {} /\ Blockers(b) # {}
        BY <4>1 DEF WaitForEachOther
      <4>3. request[q].r \in Receipts
        BY <1>1, <3>2, <4>2, WaitsSomewhere DEF RequestOK, ShapeOK
      <4>4. receiptLock[request[q].r] = b
        <5>1. request[q].op \notin ProposalFirst
          BY <3>2 DEF ReceiptFirst, ProposalFirst, Versioned
        <5> QED  BY <3>2, <4>1, <5>1 DEF Blockers
      <4>5. HasReceipt(request[b])
        BY <1>1, <4>2, <4>3, <4>4, ReceiptHolder
      <4> QED  BY <4>5 DEF HasReceipt
    <3> QED  BY <3>1, <3>2
  <2>3. PICK b \in waiting : request[b].pc # "start"
    BY <2>2
  <2>4. PICK c \in waiting : /\ request[c].op = "reverse" /\ request[c].pc = "locking"
    BY <1>1, <2>3, WaitsForSharer
  <2>5. PICK d \in waiting : /\ d # c /\ request[d].op = "reverse"
                             /\ request[d].p = request[c].p
    BY <1>1, <2>4, WaitsForSharer
  <2> QED  BY <2>4, <2>5
<1> QED  BY <1>1, RInvariant, PTL

-----------------------------------------------------------------------------
(***************************************************************************)
(* What the atomic handlers keep stays true under the interleaving.  The   *)
(* exception, a removal that races with a submission, breaks nothing but   *)
(* SubmittedHasReceipt.                                                    *)
(***************************************************************************)

\* A removal and a submission in each other's way.
LEMMA LateRemovalEffects ==
    ASSUME TypeOK, LateRemoval
    PROVE  \/ /\ proposals' = proposals /\ DOMAIN receipts' \subseteq DOMAIN receipts
              /\ \A x \in DOMAIN receipts' : receipts'[x] = receipts[x]
              /\ \A x \in DOMAIN receipts :
                     receipts[x].status # "SUBMITTED" => x \in DOMAIN receipts'
           \/ /\ receipts' = receipts
              /\ \E p \in DOMAIN proposals :
                     /\ OnlyProposal(p) /\ proposals[p].approval # "APPROVED"
                     /\ proposals'[p].commission = proposals[p].commission
                     /\ proposals'[p].paid = proposals[p].paid
                     /\ proposals'[p].status = proposals[p].status
<1>1. ASSUME NEW r \in DOMAIN receipts, receipts[r].status = "SUBMITTED",
             receipts' = Deleted(receipts, r)
      PROVE  /\ DOMAIN receipts' \subseteq DOMAIN receipts
             /\ \A x \in DOMAIN receipts' : receipts'[x] = receipts[x]
             /\ \A x \in DOMAIN receipts :
                    receipts[x].status # "SUBMITTED" => x \in DOMAIN receipts'
  BY <1>1 DEF Deleted
<1>2. ASSUME NEW p \in DOMAIN proposals, PodeEnviar(proposals[p], 1),
             proposals' = [proposals EXCEPT ![p] = ComAprovacao(@, "SUBMITTED")]
      PROVE  /\ OnlyProposal(p) /\ proposals[p].approval # "APPROVED"
             /\ proposals'[p].commission = proposals[p].commission
             /\ proposals'[p].paid = proposals[p].paid
             /\ proposals'[p].status = proposals[p].status
  <2> DEFINE row == proposals[p]
  <2>1. row.approval # "APPROVED"
    BY <1>2 DEF PodeEnviar, AprovacaoPermite, TransicoesDeAprovacao
  <2>2. row \in ProposalRow({row.paid}) /\ proposals = [x \in DOMAIN proposals |-> proposals[x]]
    BY DEF TypeOK
  <2>3. /\ ComAprovacao(row, "SUBMITTED").commission = row.commission
        /\ ComAprovacao(row, "SUBMITTED").paid = row.paid
        /\ ComAprovacao(row, "SUBMITTED").status = row.status
    BY <2>2 DEF ProposalRow, ComAprovacao
  <2>4. proposals'[p] = ComAprovacao(row, "SUBMITTED") /\ OnlyProposal(p)
    BY <1>2, <2>2 DEF OnlyProposal
  <2> QED  BY <2>1, <2>3, <2>4
<1> QED  BY <1>1, <1>2 DEF LateRemoval

LEMMA DutiesUnderRequests == DutiesInv /\ [Next \/ LateRemoval]_vars => DutiesInv'
<1> SUFFICES ASSUME DutiesInv, LateRemoval PROVE DutiesInv'
  BY AnalysisInductive DEF AnalysisKept
<1>0. TypeOK /\ TypeOK'
  BY LateRemovalTypes DEF DutiesInv
<1>1. CASE /\ proposals' = proposals /\ DOMAIN receipts' \subseteq DOMAIN receipts
           /\ \A x \in DOMAIN receipts' : receipts'[x] = receipts[x]
  BY <1>0, <1>1 DEF DutiesInv, SegregationOfDuties, CheckedOnlyWhenApproved, ReversedWithinReceipt
<1>2. ASSUME NEW p \in DOMAIN proposals, OnlyProposal(p), receipts' = receipts,
             proposals[p].approval # "APPROVED"
      PROVE  DutiesInv'
  <2>1. CheckedOnlyWhenApproved'
    BY <1>0, <1>2 DEF DutiesInv, CheckedOnlyWhenApproved, OnlyProposal, TypeOK
  <2>2. SegregationOfDuties' /\ ReversedWithinReceipt'
    BY <1>2 DEF DutiesInv, SegregationOfDuties, ReversedWithinReceipt
  <2> QED  BY <1>0, <2>1, <2>2 DEF DutiesInv
<1> QED  BY <1>0, <1>1, <1>2, LateRemovalEffects

LEMMA StatusUnderRequests == StatusInv /\ [Next \/ LateRemoval]_vars => StatusInv'
<1> SUFFICES ASSUME StatusInv, LateRemoval PROVE StatusInv'
  BY StatusInductive
<1>0. TypeOK /\ TypeOK'
  BY LateRemovalTypes DEF StatusInv
<1>1. CASE /\ proposals' = proposals /\ DOMAIN receipts' \subseteq DOMAIN receipts
           /\ \A x \in DOMAIN receipts' : receipts'[x] = receipts[x]
           /\ \A x \in DOMAIN receipts :
                  receipts[x].status # "SUBMITTED" => x \in DOMAIN receipts'
  <2>1. \A p : Total(receipts', p) = Total(receipts, p)
    BY <1>1, TotalKept
  <2> QED  BY <1>0, <1>1, <2>1 DEF StatusInv, PaidCacheConsistent
<1>2. ASSUME NEW p \in DOMAIN proposals, OnlyProposal(p), receipts' = receipts,
             proposals'[p].commission = proposals[p].commission,
             proposals'[p].paid = proposals[p].paid,
             proposals'[p].status = proposals[p].status
      PROVE  StatusInv'
  <2>1. StatusOfRow(proposals'[p])
    BY <1>2 DEF StatusInv, StatusOfRow
  <2>2. \A x \in DOMAIN proposals' : StatusOfRow(proposals'[x])
    BY <1>2, <2>1 DEF StatusInv, OnlyProposal
  <2>3. PaidCacheConsistent'
    BY <1>2 DEF StatusInv, PaidCacheConsistent, OnlyProposal
  <2> QED  BY <1>0, <2>2, <2>3 DEF StatusInv
<1> QED  BY <1>0, <1>1, <1>2, LateRemovalEffects

LEMMA TablesInvariant == RSpec => [](DutiesInv /\ StatusInv)
<1>1. RInit => DutiesInv /\ StatusInv
  BY DEF RInit, Init, DutiesInv, StatusInv, TypeOK, EmptyTable, SegregationOfDuties,
         CheckedOnlyWhenApproved, ReversedWithinReceipt, PaidCacheConsistent
<1>2. RInv /\ [RNext]_rvars /\ DutiesInv /\ StatusInv => DutiesInv' /\ StatusInv'
  BY StepImplements, DutiesUnderRequests, StatusUnderRequests
<1> QED  BY <1>1, <1>2, RInvariant, PTL DEF RSpec

\* Whatever the interleaving, nobody checks the money he declared, nothing is
\* checked before its proposal is approved, and reversals stay within their
\* receipt.
THEOREM DutiesUnderInterleaving ==
    RSpec => [](SegregationOfDuties /\ CheckedOnlyWhenApproved /\ ReversedWithinReceipt)
<1>1. DutiesInv => SegregationOfDuties /\ CheckedOnlyWhenApproved /\ ReversedWithinReceipt
  BY DEF DutiesInv
<1> QED  BY <1>1, TablesInvariant, PTL

\* Whatever the interleaving, the cached total is the sum of the recognised
\* receipts, the status follows it, and a cancelled proposal holds no money.
THEOREM MoneyUnderInterleaving == RSpec => []MoneyConsistent
<1>1. StatusInv => MoneyConsistent
  BY DEF StatusInv, StatusOfRow, PaidCacheConsistent, StatusFollowsMoney, Ativa,
         CancelledHoldsNoMoney, MoneyConsistent
<1> QED  BY <1>1, TablesInvariant, PTL

-----------------------------------------------------------------------------
(***************************************************************************)
(* The set under analysis.                                                 *)
(***************************************************************************)

\* The fact about one step, without the box.
FrozenButForRemovalsStep ==
    \A p \in DOMAIN proposals :
        proposals[p].approval = "SUBMITTED" =>
            IF proposals'[p].approval = "APPROVED"
            THEN Reconhecidos(receipts', p) =
                     Reconhecidos(receipts, p) \union Declarados(receipts, p)
            ELSE \/ Declarados(receipts', p) = Declarados(receipts, p)
                 \/ \E q \in Requests :
                       /\ request[q].op = "remove" /\ request[q].pc = "writing"
                       /\ Declarados(receipts', p) =
                              Declarados(receipts, p) \ {request[q].r}

\* Only a removal takes a receipt away.
LEMMA OnlyRemovalsDelete ==
    ASSUME TypeOK, NEW q \in Requests, Commits(q), request[q].op # "remove"
    PROVE  DOMAIN receipts \subseteq DOMAIN receipts'
<1>1. receipts' = OwnReceipts(q)
  BY DEF Commits, Commit
<1>2. DOMAIN receipts \subseteq DOMAIN OwnReceipts(q)
  <2>1. CASE request[q].op = "approve"
    BY <2>1 DEF OwnReceipts
  <2>2. CASE request[q].op = "confirm"
    BY <2>2 DEF OwnReceipts, TypeOK
  <2>3. CASE request[q].op = "return"
    BY <2>3 DEF OwnReceipts, TypeOK
  <2>4. CASE request[q].op = "reverse"
    BY <2>4 DEF OwnReceipts, TypeOK
  <2>5. CASE request[q].op = "create"
    BY <2>5 DEF OwnReceipts, Inserted
  <2>6. CASE request[q].op \notin {"approve", "confirm", "return", "reverse", "create"}
    BY <2>6 DEF OwnReceipts
  <2> QED  BY <2>1, <2>2, <2>3, <2>4, <2>5, <2>6
<1> QED  BY <1>1, <1>2

LEMMA FrozenButForRemovalsHolds == RInv /\ [RNext]_rvars => FrozenButForRemovalsStep
<1> SUFFICES ASSUME RInv, [RNext]_rvars PROVE FrozenButForRemovalsStep
  OBVIOUS
<1>0. TypeOK
  BY DEF RInv, TablesOK
<1>1. CASE [Next]_vars
  <2>1. FrozenStep
    BY <1>0, <1>1, FrozenInductive
  <2> QED  BY <2>1 DEF FrozenStep, FrozenButForRemovalsStep
<1>2. ASSUME NEW q \in Requests, Commits(q), request[q].op = "remove"
      PROVE  FrozenButForRemovalsStep
  <2>1. /\ request[q].pc = "writing" /\ UNCHANGED proposals
        /\ receipts' = Deleted(receipts, request[q].r)
    BY <1>2 DEF Commits, Commit, OwnReceipts, WritesProposal, Versioned
  <2>2. \A p : Declarados(receipts', p) = Declarados(receipts, p) \ {request[q].r}
    BY <2>1 DEF Deleted, Declarados
  <2> QED  BY <1>2, <2>1, <2>2 DEF FrozenButForRemovalsStep
<1>3. ASSUME NEW q \in Requests, Commits(q), request[q].op # "remove", LateRemoval
      PROVE  FrozenButForRemovalsStep
  <2>1. DOMAIN receipts \subseteq DOMAIN receipts'
    BY <1>0, <1>3, OnlyRemovalsDelete
  <2>2. \A r \in DOMAIN receipts : receipts' # Deleted(receipts, r)
    BY <2>1 DEF Deleted
  <2>3. PICK p \in DOMAIN proposals :
            /\ proposals' = [proposals EXCEPT ![p] = ComAprovacao(@, "SUBMITTED")]
            /\ UNCHANGED receipts
    BY <1>3, <2>2 DEF LateRemoval
  <2>4. proposals'[p].approval = "SUBMITTED"
    BY <1>0, <2>3 DEF ComAprovacao, TypeOK, ProposalRow
  <2>5. \A x \in DOMAIN proposals : x # p => proposals'[x] = proposals[x]
    BY <1>0, <2>3 DEF TypeOK
  <2> QED  BY <2>3, <2>4, <2>5 DEF FrozenButForRemovalsStep
<1>4. ASSUME NEW q \in Requests, Commits(q) PROVE Next \/ LateRemoval
  BY <1>4, CommitImplements DEF Commits, Implements
<1>5. CASE Insert
  BY <1>1, <1>5, InsertImplements
<1>6. CASE UNCHANGED <<proposals, receipts, version>>
  BY <1>1, <1>6 DEF vars
<1> QED  BY <1>1, <1>2, <1>3, <1>4, <1>5, <1>6, OnlyCommits

\* Whatever the interleaving, what the Financeiro analyses moves only by a
\* removal that is committing, one receipt at a time, and an approval
\* recognises exactly what is left.
THEOREM FrozenUnderInterleaving == RSpec => FrozenButForRemovals
<1>1. RInv /\ [RNext]_rvars => [FrozenButForRemovalsStep]_rvars
  BY FrozenButForRemovalsHolds
<1> QED  BY <1>1, RInvariant, PTL DEF RSpec, FrozenButForRemovals, FrozenButForRemovalsStep

=============================================================================
