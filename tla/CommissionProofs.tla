-------------------------- MODULE CommissionProofs --------------------------
(***************************************************************************)
(* Proofs about the configuration of commissions and their settlements,    *)
(* for every value of the constants.                                       *)
(*                                                                         *)
(* RuleVersions: rules change forwards only, for any calendar, any number  *)
(* of rows and any number of requests that wait at the same time, and the  *)
(* facts it rests on: a row keeps its id and its start for ever, a draft   *)
(* that is being activated starts after the day it was checked, and the    *)
(* policies a request is about to end are still the rows it locked.  And   *)
(* no day loses its rule (CInv): where a version runs past the start of    *)
(* another, those from that start on cover what they share.                *)
(*                                                                         *)
(* CommissionSettlements: what a period pays, carries over and returns,    *)
(* and the contract of the pay-outs that it implements.                    *)
(***************************************************************************)
EXTENDS CommissionSettlements, RuleVersions, FiniteSetTheorems, WellFoundedInduction, TLAPS

-----------------------------------------------------------------------------
\* Ids count the rows and name them.
VersionsOK(V) ==
    /\ V \subseteq Versao /\ IsFiniteSet(V)
    /\ \A v, w \in V : v.id = w.id => v = w
    /\ {v.id : v \in V} = 1..Cardinality(V)

\* A request still finds the rows it was checked against.
RequestOK(r) ==
    /\ r.op = "activate" =>
           /\ especie # "excecao" /\ r.id \in {v.id : v \in versoes}
           /\ r.dia \in Calendario /\ r.proxima \subseteq Versao
           /\ \A v \in versoes : v.id = r.id => v.de > r.dia
    /\ r.op = "policy" =>
           /\ especie = "excecao" /\ r.dia \in Calendario /\ r.de \in Calendario
           /\ r.dia <= r.de /\ r.anteriores \subseteq versoes
           /\ r.travas = {v.id : v \in r.anteriores}
           /\ \A v \in r.anteriores : v.de <= r.de /\ r.de <= v.ate

RequestsOK == DOMAIN processos = Processos /\ \A q \in Processos : RequestOK(processos[q])

\* No two of them are about to end the same policy.
LocksOK ==
    \A p, q \in Processos :
        p # q /\ processos[p].op = "policy" /\ processos[q].op = "policy" =>
            processos[p].anteriores \cap processos[q].anteriores = {}

VInv == RulesTypeOK /\ VersionsOK(versoes) /\ RequestsOK /\ LocksOK

-----------------------------------------------------------------------------
\* Rows.

LEMMA IdsCountRows ==
    ASSUME NEW V, NEW n \in Nat, \A v, w \in V : v.id = w.id => v = w, {v.id : v \in V} = 1..n
    PROVE  IsFiniteSet(V) /\ Cardinality(V) = n
  <1> DEFINE f == [i \in 1..n |-> CHOOSE v \in V : v.id = i]
  <1>1. \A i \in 1..n : f[i] \in V /\ f[i].id = i
    OBVIOUS
  <1>2. f \in [1..n -> V]
    BY <1>1
  <1>3. \A i, j \in 1..n : f[i] = f[j] => i = j
    BY <1>1
  <1>4. \A v \in V : v.id \in 1..n /\ f[v.id] = v
    BY <1>1
  <1> HIDE DEF f
  <1>5. ExistsBijection(1..n, V)
    <2>1. f \in Injection(1..n, V)
      BY <1>2, <1>3 DEF Injection, IsInjective
    <2>2. f \in Surjection(1..n, V)
      BY <1>2, <1>4 DEF Surjection
    <2> QED
      BY <2>1, <2>2 DEF ExistsBijection, Bijection
  <1>6. IsFiniteSet(1..n) /\ Cardinality(1..n) = n
    BY FS_Interval
  <1> QED
    BY <1>5, <1>6, FS_Bijection

\* Some rows are written again under their ids.
LEMMA RowsRewritten ==
    ASSUME NEW V, VersionsOK(V), NEW C \in SUBSET V, NEW N \in SUBSET Versao,
           \A x \in N : \E w \in C : x.id = w.id,
           \A w \in C : \E x \in N : x.id = w.id,
           \A x, y \in N : x.id = y.id => x = y
    PROVE  /\ VersionsOK((V \ C) \cup N)
           /\ {v.id : v \in (V \ C) \cup N} = {v.id : v \in V}
  <1> DEFINE W == (V \ C) \cup N
             n == Cardinality(V)
  <1>1. n \in Nat
    BY FS_CardinalityType DEF VersionsOK
  <1>2. \A v, w \in W : v.id = w.id => v = w
    BY DEF VersionsOK
  <1>3. {v.id : v \in W} = {v.id : v \in V}
    OBVIOUS
  <1>4. W \subseteq Versao
    BY DEF VersionsOK
  <1>5. {v.id : v \in W} = 1..n
    BY <1>3 DEF VersionsOK
  <1> HIDE DEF W, n
  <1>6. IsFiniteSet(W) /\ Cardinality(W) = n
    BY <1>1, <1>2, <1>5, IdsCountRows
  <1>7. VersionsOK(W)
    BY <1>2, <1>4, <1>5, <1>6 DEF VersionsOK
  <1> QED
    BY <1>3, <1>7 DEF W

LEMMA RowAdded ==
    ASSUME NEW V, VersionsOK(V), NEW x \in Versao, x.id = Cardinality(V) + 1
    PROVE  /\ VersionsOK(V \cup {x})
           /\ \A v \in V : v.id # x.id
           /\ {v.id : v \in V} \subseteq {v.id : v \in V \cup {x}}
  <1> DEFINE n == Cardinality(V)
             W == V \cup {x}
  <1>1. n \in Nat
    BY FS_CardinalityType DEF VersionsOK
  <1>2. \A v \in V : v.id \in 1..n
    BY DEF VersionsOK
  <1>3. {v.id : v \in W} = 1..n + 1
    <2>1. {v.id : v \in W} = {v.id : v \in V} \cup {n + 1}
      OBVIOUS
    <2>2. {v.id : v \in V} = 1..n
      BY DEF VersionsOK
    <2> HIDE DEF n, W
    <2> QED
      BY <1>1, <2>1, <2>2
  <1>4. \A v \in V : v.id # x.id
    BY <1>1, <1>2
  <1>5. \A v, w \in W : v.id = w.id => v = w
    BY <1>4 DEF VersionsOK
  <1>6. W \subseteq Versao
    BY DEF VersionsOK
  <1> HIDE DEF n, W
  <1>7. IsFiniteSet(W) /\ Cardinality(W) = n + 1
    BY <1>1, <1>3, <1>5, IdsCountRows
  <1>8. VersionsOK(W)
    BY <1>3, <1>5, <1>6, <1>7 DEF VersionsOK
  <1> QED
    BY <1>4, <1>8 DEF W

-----------------------------------------------------------------------------
\* What an engine is given depends on ids and starts only.

Desempata(vs) == {v \in vs : \A w \in vs : w.id <= v.id}

LEMMA ChoiceGoesByIdAndStart ==
    ASSUME NEW A, NEW B,
           \A a \in A : \E b \in B : b.id = a.id /\ b.de = a.de,
           \A b \in B : \E a \in A : a.id = b.id /\ a.de = b.de
    PROVE  /\ {v.id : v \in UltimasIniciadas(A)} = {v.id : v \in UltimasIniciadas(B)}
           /\ {v.id : v \in Desempata(UltimasIniciadas(A))}
                  = {v.id : v \in Desempata(UltimasIniciadas(B))}
  <1>1. \A a \in UltimasIniciadas(A) : \E b \in UltimasIniciadas(B) : b.id = a.id
    BY DEF UltimasIniciadas
  <1>2. \A b \in UltimasIniciadas(B) : \E a \in UltimasIniciadas(A) : a.id = b.id
    BY DEF UltimasIniciadas
  <1>3. \A a \in Desempata(UltimasIniciadas(A)) : \E b \in Desempata(UltimasIniciadas(B)) : b.id = a.id
    BY <1>1, <1>2 DEF Desempata
  <1>4. \A b \in Desempata(UltimasIniciadas(B)) : \E a \in Desempata(UltimasIniciadas(A)) : a.id = b.id
    BY <1>1, <1>2 DEF Desempata
  <1> QED
    BY <1>1, <1>2, <1>3, <1>4

\* The rows in force on a day match, before and after a step.
Confere(dia) ==
    /\ \A v \in VigentesEm(dia) : \E w \in VigentesEm(dia)' : w.id = v.id /\ w.de = v.de
    /\ \A w \in VigentesEm(dia)' : \E v \in VigentesEm(dia) : v.id = w.id /\ v.de = w.de

LEMMA MatchingRowsGiveTheSameRule ==
    ASSUME NEW dia, Confere(dia), especie' = especie
    PROVE  RegraEm(dia)' = RegraEm(dia)
  <1> DEFINE A == VigentesEm(dia)
             B == VigentesEm(dia)'
  <1>1. /\ {v.id : v \in UltimasIniciadas(A)} = {v.id : v \in UltimasIniciadas(B)}
        /\ {v.id : v \in Desempata(UltimasIniciadas(A))} = {v.id : v \in Desempata(UltimasIniciadas(B))}
    <2>1. /\ \A a \in A : \E b \in B : b.id = a.id /\ b.de = a.de
          /\ \A b \in B : \E a \in A : a.id = b.id /\ a.de = b.de
      BY DEF Confere
    <2> HIDE DEF A, B
    <2> QED
      BY <2>1, ChoiceGoesByIdAndStart
  <1>2. /\ RegraEm(dia) = IF especie = "excecao" THEN {v.id : v \in UltimasIniciadas(A)}
                          ELSE {v.id : v \in Desempata(UltimasIniciadas(A))}
        /\ RegraEm(dia)' = IF especie' = "excecao" THEN {v.id : v \in UltimasIniciadas(B)}
                           ELSE {v.id : v \in Desempata(UltimasIniciadas(B))}
    BY DEF RegraEm, PoliticaDoBeneficiario, ConjuntoDeRegras, Desempata, UltimasIniciadas
  <1> HIDE DEF A, B
  <1> QED
    BY <1>1, <1>2

-----------------------------------------------------------------------------
\* The commits.

VersaoFacts == \A v \in Versao : v.id \in Nat /\ v.de \in Calendario /\ v.ate \in 0..SemFim

LEMMA FieldsOfRows ==
    ASSUME RuleVersionsAssumption
    PROVE  /\ VersaoFacts
           /\ Calendario \subseteq Nat /\ SemFim \in Nat /\ \A d \in Calendario : d <= SemFim
  BY DEF RuleVersionsAssumption, VersaoFacts, Versao, Calendario, SemFim

\* Rows that end earlier keep all but their end.
LEMMA EndedRows ==
    ASSUME RuleVersionsAssumption, NEW ws \in SUBSET Versao, NEW de \in Calendario
    PROVE  /\ Encerrar(ws, de) \subseteq Versao
           /\ \A w \in ws : \E x \in Encerrar(ws, de) :
                  x.id = w.id /\ x.de = w.de /\ x.status = w.status /\ x.ate = de - 1
           /\ \A x \in Encerrar(ws, de) : \E w \in ws :
                  x = [w EXCEPT !.ate = de - 1] /\ x.id = w.id /\ x.de = w.de
                      /\ x.status = w.status /\ x.ate = de - 1
  <1> DEFINE E(w) == [w EXCEPT !.ate = de - 1]
  <1>1. de - 1 \in 0..SemFim
    BY DEF RuleVersionsAssumption, Calendario, SemFim
  <1>2. ASSUME NEW w \in Versao
        PROVE  /\ E(w) \in Versao /\ E(w).id = w.id /\ E(w).de = w.de
               /\ E(w).status = w.status /\ E(w).ate = de - 1
    BY <1>1, <1>2 DEF Versao
  <1>3. Encerrar(ws, de) = {E(w) : w \in ws} /\ \A w \in ws : E(w) = [w EXCEPT !.ate = de - 1]
    BY DEF Encerrar
  <1> HIDE DEF E
  <1>4. \A x \in Encerrar(ws, de) : \E w \in ws :
            x = [w EXCEPT !.ate = de - 1] /\ x.id = w.id /\ x.de = w.de
                /\ x.status = w.status /\ x.ate = de - 1
    <2> SUFFICES ASSUME NEW x \in Encerrar(ws, de)
                 PROVE  \E w \in ws : x = [w EXCEPT !.ate = de - 1] /\ x.id = w.id /\ x.de = w.de
                                          /\ x.status = w.status /\ x.ate = de - 1
      OBVIOUS
    <2>1. PICK w \in ws : x = E(w)
      BY <1>3
    <2>2. x = [w EXCEPT !.ate = de - 1]
      BY <1>3, <2>1
    <2>3. x.id = w.id /\ x.de = w.de /\ x.status = w.status /\ x.ate = de - 1
      BY <1>2, <2>1
    <2> QED
      BY <2>2, <2>3, Zenon
  <1>5. /\ Encerrar(ws, de) \subseteq Versao
        /\ \A w \in ws : \E x \in Encerrar(ws, de) :
               x.id = w.id /\ x.de = w.de /\ x.status = w.status /\ x.ate = de - 1
    BY <1>2, <1>3
  <1> QED
    BY <1>4, <1>5, Zenon

\* What the commit of an activation does to the rows.
LEMMA ActivationRewrites ==
    ASSUME RuleVersionsAssumption, VInv, NEW p \in Processos, Activate(p)
    PROVE  /\ VersionsOK(versoes')
           /\ {v.id : v \in versoes'} = {v.id : v \in versoes}
           /\ \A x \in versoes' : \E w \in versoes : x.id = w.id /\ x.de = w.de
           /\ \A dia \in Calendario : dia <= processos[p].dia => Confere(dia)
  <1> USE FieldsOfRows DEF VersaoFacts
  <1>1. PICK v \in versoes :
            /\ v.id = processos[p].id
            /\ versoes' = (versoes \ ({v} \union Anteriores(v)))
                   \union Encerrar(Anteriores(v), v.de)
                   \union {[v EXCEPT !.status = "ACTIVE", !.ate = FimAte(processos[p].proxima)]}
    BY DEF Activate
  <1> DEFINE fim == FimAte(processos[p].proxima)
             novo == [v EXCEPT !.status = "ACTIVE", !.ate = fim]
             C == {v} \union Anteriores(v)
             N == Encerrar(Anteriores(v), v.de) \union {novo}
  <1>2. v \in Versao /\ versoes \subseteq Versao /\ Anteriores(v) \subseteq versoes
    BY DEF VInv, VersionsOK, Anteriores, Ativas
  <1>3. processos[p].op = "activate" /\ RequestOK(processos[p])
    BY DEF Activate, VInv, RequestsOK
  <1>4. processos[p].dia \in Calendario /\ processos[p].dia < v.de /\ processos[p].proxima \subseteq Versao
    BY <1>1, <1>2, <1>3 DEF RequestOK
  <1>5. fim \in 0..SemFim
    <2>1. CASE processos[p].proxima = {}
      BY <2>1 DEF FimAte, RuleVersionsAssumption, SemFim
    <2>2. CASE processos[p].proxima # {}
      <3>1. (CHOOSE w \in processos[p].proxima : TRUE) \in Versao
        BY <1>4, <2>2
      <3>2. fim = (CHOOSE w \in processos[p].proxima : TRUE).de - 1
        BY <2>2 DEF FimAte
      <3> HIDE DEF fim
      <3> QED
        BY <3>1, <3>2 DEF Versao, Calendario, RuleVersionsAssumption, SemFim
    <2> QED
      BY <2>1, <2>2
  <1> HIDE DEF fim
  <1>6. novo \in Versao /\ novo.id = v.id /\ novo.de = v.de /\ novo.ate = fim /\ novo.status = "ACTIVE"
    BY <1>2, <1>5 DEF Versao
  <1> HIDE DEF novo
  <1>7. /\ \A w \in Anteriores(v) : w \in versoes /\ w.status = "ACTIVE" /\ w.de < v.de /\ v.de <= w.ate
        /\ v \notin Anteriores(v)
    BY <1>2 DEF Anteriores, Ativas, Calendario
  <1>8. /\ Encerrar(Anteriores(v), v.de) \subseteq Versao
        /\ \A w \in Anteriores(v) : \E x \in Encerrar(Anteriores(v), v.de) :
               x.id = w.id /\ x.de = w.de /\ x.status = w.status /\ x.ate = v.de - 1
        /\ \A x \in Encerrar(Anteriores(v), v.de) : \E w \in Anteriores(v) :
               x = [w EXCEPT !.ate = v.de - 1] /\ x.id = w.id /\ x.de = w.de
                   /\ x.status = w.status /\ x.ate = v.de - 1
    <2>1. Anteriores(v) \in SUBSET Versao /\ v.de \in Calendario
      BY <1>2
    <2> QED
      BY <2>1, EndedRows
  <1>9. versoes' = (versoes \ C) \cup N
    BY <1>1 DEF novo, fim
  <1>10. VersionsOK(versoes') /\ {x.id : x \in versoes'} = {x.id : x \in versoes}
    <2>1. VersionsOK(versoes) /\ C \in SUBSET versoes /\ N \in SUBSET Versao
      BY <1>2, <1>6, <1>8 DEF VInv
    <2>2. \A x \in N : \E w \in C : x.id = w.id
      BY <1>6, <1>8
    <2>3. \A w \in C : \E x \in N : x.id = w.id
      BY <1>6, <1>8
    <2>4. \A x, y \in N : x.id = y.id => x = y
      <3>1. \A a, b \in versoes : a.id = b.id => a = b
        BY DEF VInv, VersionsOK
      <3>2. ASSUME NEW x \in Encerrar(Anteriores(v), v.de) PROVE x.id # v.id
        BY <1>7, <1>8, <3>1, <3>2
      <3>3. ASSUME NEW x \in Encerrar(Anteriores(v), v.de),
                   NEW y \in Encerrar(Anteriores(v), v.de), x.id = y.id
            PROVE  x = y
        <4>1. PICK a \in Anteriores(v) : x = [a EXCEPT !.ate = v.de - 1] /\ x.id = a.id
          BY <1>8
        <4>2. PICK b \in Anteriores(v) : y = [b EXCEPT !.ate = v.de - 1] /\ y.id = b.id
          BY <1>8
        <4>3. a = b
          BY <1>7, <3>1, <3>3, <4>1, <4>2
        <4> QED
          BY <4>1, <4>2, <4>3
      <3> QED
        BY <1>6, <3>2, <3>3
    <2> HIDE DEF C, N
    <2> QED
      BY <1>9, <2>1, <2>2, <2>3, <2>4, RowsRewritten
  <1>11. \A x \in versoes' : \E w \in versoes : x.id = w.id /\ x.de = w.de
    BY <1>6, <1>7, <1>8, <1>9
  <1>12. ASSUME NEW dia \in Calendario, dia <= processos[p].dia PROVE Confere(dia)
    <2>1. dia < v.de /\ dia \in Nat /\ v.de \in Nat
      BY <1>2, <1>4, <1>12
    <2>2. VigentesEm(dia)' = {x \in versoes' : x.status = "ACTIVE" /\ x.de <= dia /\ dia <= x.ate}
      BY DEF VigentesEm, Ativas
    <2>3. ASSUME NEW a \in VigentesEm(dia)
          PROVE  \E b \in VigentesEm(dia)' : b.id = a.id /\ b.de = a.de
      <3>1. a \in versoes /\ a.status = "ACTIVE" /\ a.de <= dia /\ dia <= a.ate
        BY DEF VigentesEm, Ativas
      <3>2. a # v
        BY <2>1, <3>1
      <3>3. CASE a \in Anteriores(v)
        <4>1. PICK x \in Encerrar(Anteriores(v), v.de) :
                  x.id = a.id /\ x.de = a.de /\ x.status = a.status /\ x.ate = v.de - 1
          BY <1>8, <3>3
        <4>2. x \in versoes' /\ dia <= v.de - 1
          BY <1>9, <2>1
        <4> QED
          BY <2>2, <3>1, <4>1, <4>2
      <3>4. CASE a \notin Anteriores(v)
        BY <1>9, <2>2, <3>1, <3>2, <3>4
      <3> QED
        BY <3>3, <3>4
    <2>4. ASSUME NEW b \in VigentesEm(dia)'
          PROVE  \E a \in VigentesEm(dia) : a.id = b.id /\ a.de = b.de
      <3>1. b \in versoes' /\ b.status = "ACTIVE" /\ b.de <= dia /\ dia <= b.ate
        BY <2>2
      <3>2. b # novo
        BY <1>6, <2>1, <3>1
      <3>3. CASE b \in versoes
        BY <3>1, <3>3 DEF VigentesEm, Ativas
      <3>4. CASE b \in Encerrar(Anteriores(v), v.de)
        <4>1. PICK w \in Anteriores(v) : b.id = w.id /\ b.de = w.de
          BY <1>8, <3>4
        <4>2. w \in versoes /\ w.status = "ACTIVE" /\ w.de <= dia /\ w.ate \in Nat /\ v.de <= w.ate
          BY <1>2, <1>7, <3>1, <4>1
        <4>3. dia <= w.ate
          BY <2>1, <4>2
        <4> QED
          BY <4>1, <4>2, <4>3 DEF VigentesEm, Ativas
      <3> QED
        BY <1>9, <3>1, <3>2, <3>3, <3>4
    <2> QED
      BY <2>3, <2>4 DEF Confere
  <1> QED
    BY <1>10, <1>11, <1>12

\* What the commit of a policy does to them: those in force on its first day
\* end on the day before it.
LEMMA PolicyRewrites ==
    ASSUME RuleVersionsAssumption, VInv, NEW p \in Processos, CreatePolicy(p)
    PROVE  /\ VersionsOK(versoes')
           /\ {v.id : v \in versoes} \subseteq {v.id : v \in versoes'}
           /\ \A x \in versoes \ processos[p].anteriores : x \in versoes'
           /\ \A dia \in Calendario : dia < processos[p].dia => Confere(dia)
  <1> USE FieldsOfRows DEF VersaoFacts
  <1> DEFINE C == processos[p].anteriores
             de == processos[p].de
             N == Encerrar(C, de)
             novo == [id |-> NovoId, status |-> "ACTIVE", de |-> de, ate |-> SemFim]
             W == (versoes \ C) \cup N
  <1>1. versoes' = W \cup {novo} /\ NovoId <= MaxVersoes /\ processos[p].op = "policy"
    BY DEF CreatePolicy
  <1>2. RequestOK(processos[p])
    BY DEF VInv, RequestsOK
  <1>3. /\ de \in Calendario /\ processos[p].dia \in Calendario /\ processos[p].dia <= de
        /\ C \subseteq versoes /\ \A v \in C : v.de <= de /\ de <= v.ate
    BY <1>1, <1>2 DEF RequestOK
  <1>4. VersionsOK(versoes) /\ versoes \subseteq Versao /\ Cardinality(versoes) \in Nat
    BY FS_CardinalityType DEF VInv, VersionsOK
  <1>5. /\ N \subseteq Versao
        /\ \A w \in C : \E x \in N :
               x.id = w.id /\ x.de = w.de /\ x.status = w.status /\ x.ate = de - 1
        /\ \A x \in N : \E w \in C :
               x = [w EXCEPT !.ate = de - 1] /\ x.id = w.id /\ x.de = w.de
                   /\ x.status = w.status /\ x.ate = de - 1
    <2>1. C \in SUBSET Versao
      BY <1>3, <1>4
    <2> HIDE DEF C, de
    <2> QED
      BY <1>3, <2>1, EndedRows
  <1> HIDE DEF C, de, N
  <1>6. VersionsOK(W) /\ {v.id : v \in W} = {v.id : v \in versoes}
    <2>1. \A x \in N : \E w \in C : x.id = w.id
      BY <1>5
    <2>2. \A w \in C : \E x \in N : x.id = w.id
      BY <1>5
    <2>3. ASSUME NEW x \in N, NEW y \in N, x.id = y.id PROVE x = y
      <3>1. PICK a \in C : x = [a EXCEPT !.ate = de - 1] /\ x.id = a.id
        BY <1>5
      <3>2. PICK b \in C : y = [b EXCEPT !.ate = de - 1] /\ y.id = b.id
        BY <1>5
      <3>3. a = b
        BY <1>3, <1>4, <2>3, <3>1, <3>2 DEF VersionsOK
      <3> QED
        BY <3>1, <3>2, <3>3
    <2>4. C \in SUBSET versoes /\ N \in SUBSET Versao
      BY <1>3, <1>5
    <2>5. \A x, y \in N : x.id = y.id => x = y
      BY <2>3
    <2> QED
      BY <1>4, <2>1, <2>2, <2>4, <2>5, RowsRewritten
  <1>7. novo \in Versao /\ novo.id = Cardinality(W) + 1 /\ novo.de = de
    <2>1. Cardinality(W) = Cardinality(versoes)
      <3>1. 1..Cardinality(W) = 1..Cardinality(versoes)
        BY <1>4, <1>6 DEF VersionsOK
      <3>2. Cardinality(W) \in Nat
        BY <1>6, FS_CardinalityType DEF VersionsOK
      <3> HIDE DEF W
      <3>3. \A a, b \in Nat : 1..a = 1..b => a = b
        <4> SUFFICES ASSUME NEW a \in Nat, NEW b \in Nat, 1..a = 1..b PROVE a = b
          OBVIOUS
        <4>1. (a \in 1..a <=> a \in 1..b) /\ (b \in 1..a <=> b \in 1..b)
          OBVIOUS
        <4> QED
          BY <4>1
      <3> QED
        BY <1>4, <3>1, <3>2, <3>3
    <2> HIDE DEF W
    <2>2. NovoId \in 1..MaxVersoes
      BY <1>1, <1>4 DEF NovoId, RuleVersionsAssumption
    <2> QED
      BY <1>3, <2>1, <2>2 DEF NovoId, Versao
  <1> HIDE DEF novo
  <1>8. VersionsOK(versoes') /\ {v.id : v \in versoes} \subseteq {v.id : v \in versoes'}
    <2> HIDE DEF W
    <2> QED
      BY <1>1, <1>6, <1>7, RowAdded
  <1>9. \A x \in versoes \ C : x \in versoes'
    BY <1>1
  <1>10. ASSUME NEW dia \in Calendario, dia < processos[p].dia PROVE Confere(dia)
    <2>1. dia < de /\ dia \in Nat /\ de \in Nat /\ dia <= de - 1
      BY <1>3, <1>10
    <2>2. VigentesEm(dia)' = {x \in versoes' : x.status = "ACTIVE" /\ x.de <= dia /\ dia <= x.ate}
      BY DEF VigentesEm, Ativas
    <2>3. ASSUME NEW a \in VigentesEm(dia)
          PROVE  \E b \in VigentesEm(dia)' : b.id = a.id /\ b.de = a.de
      <3>1. a \in versoes /\ a.status = "ACTIVE" /\ a.de <= dia /\ dia <= a.ate
        BY DEF VigentesEm, Ativas
      <3>2. CASE a \in C
        <4>1. PICK x \in N : x.id = a.id /\ x.de = a.de /\ x.status = a.status /\ x.ate = de - 1
          BY <1>5, <3>2
        <4>2. x \in versoes'
          BY <1>1
        <4> QED
          BY <2>1, <2>2, <3>1, <4>1, <4>2
      <3>3. CASE a \notin C
        BY <1>9, <2>2, <3>1, <3>3
      <3> QED
        BY <3>2, <3>3
    <2>4. ASSUME NEW b \in VigentesEm(dia)'
          PROVE  \E a \in VigentesEm(dia) : a.id = b.id /\ a.de = b.de
      <3>1. b \in versoes' /\ b.status = "ACTIVE" /\ b.de <= dia /\ dia <= b.ate
        BY <2>2
      <3>2. b # novo
        BY <1>7, <2>1, <3>1
      <3>3. CASE b \in versoes
        BY <3>1, <3>3 DEF VigentesEm, Ativas
      <3>4. CASE b \in N
        <4>1. PICK w \in C : b.id = w.id /\ b.de = w.de /\ b.status = w.status
          BY <1>5, <3>4
        <4>2. w \in versoes /\ w.status = "ACTIVE" /\ w.de <= dia /\ w.ate \in Nat /\ de <= w.ate
          BY <1>3, <1>4, <3>1, <4>1
        <4>3. dia <= w.ate
          BY <2>1, <4>2
        <4> QED
          BY <4>1, <4>2, <4>3 DEF VigentesEm, Ativas
      <3> QED
        BY <1>1, <3>1, <3>2, <3>3, <3>4
    <2> QED
      BY <2>3, <2>4 DEF Confere
  <1> QED
    BY <1>8, <1>9, <1>10 DEF C

-----------------------------------------------------------------------------
\* The invariant is kept.

LEMMA VInvInitially ==
    ASSUME RuleVersionsAssumption, RulesInit
    PROVE  VInv
  <1>1. VersionsOK({})
    <2>1. {v.id : v \in {}} = 1..0
      OBVIOUS
    <2> QED
      BY <2>1, FS_EmptySet DEF VersionsOK
  <1>2. RulesTypeOK
    <2>1. dataAtual \in Calendario /\ versoes \subseteq Versao
      BY DEF RulesInit, RuleVersionsAssumption, Calendario
    <2>2. especie \in Especies /\ concorreu \in BOOLEAN
      BY Zenon DEF RulesInit
    <2> QED
      BY <2>1, <2>2 DEF RulesTypeOK
  <1>3. RequestsOK /\ LocksOK
    BY DEF RulesInit, RequestsOK, RequestOK, LocksOK, Livre
  <1> QED
    BY <1>1, <1>2, <1>3 DEF VInv, RulesInit

\* A draft is added.
LEMMA DraftKeeps ==
    ASSUME RuleVersionsAssumption, VInv, NEW de \in Calendario, CreateDraft(de)
    PROVE  VInv' /\ \A dia \in Calendario : Confere(dia)
  <1> DEFINE novo == Rascunho(de)
  <1>1. versoes' = versoes \cup {novo} /\ UNCHANGED <<especie, dataAtual, processos, concorreu>>
    BY DEF CreateDraft
  <1>2. novo \in Versao /\ novo.id = Cardinality(versoes) + 1 /\ novo.status = "DRAFT"
    <2>1. Cardinality(versoes) \in Nat
      BY FS_CardinalityType DEF VInv, VersionsOK
    <2>2. NovoId \in 1..MaxVersoes
      BY <2>1 DEF CreateDraft, NovoId, RuleVersionsAssumption
    <2>3. SemFim \in 0..SemFim
      BY DEF SemFim, RuleVersionsAssumption
    <2> QED
      BY <2>2, <2>3 DEF Rascunho, Versao, NovoId
  <1> HIDE DEF novo
  <1>3. /\ VersionsOK(versoes') /\ \A v \in versoes : v.id # novo.id
        /\ {v.id : v \in versoes} \subseteq {v.id : v \in versoes'}
    BY <1>1, <1>2, RowAdded DEF VInv
  <1>4. RulesTypeOK'
    BY <1>1, <1>3 DEF VInv, RulesTypeOK, VersionsOK
  <1>5. RequestsOK'
    <2>1. ASSUME NEW q \in Processos PROVE RequestOK(processos[q])'
      <3>1. RequestOK(processos[q]) /\ processos'[q] = processos[q] /\ especie' = especie
        BY <1>1 DEF VInv, RequestsOK
      <3>2. CASE processos[q].op = "activate"
        <4>1. processos[q].id # novo.id
          BY <1>3, <3>1, <3>2 DEF RequestOK
        <4>2. processos[q].id \in {v.id : v \in versoes'}
          BY <1>3, <3>1, <3>2 DEF RequestOK
        <4>3. \A v \in versoes' : v.id = processos[q].id => v.de > processos[q].dia
          BY <1>1, <3>1, <3>2, <4>1 DEF RequestOK
        <4> QED
          BY <3>1, <3>2, <4>2, <4>3 DEF RequestOK
      <3>3. CASE processos[q].op # "activate"
        BY <1>1, <3>1, <3>3 DEF RequestOK
      <3> QED
        BY <3>2, <3>3
    <2> QED
      BY <1>1, <2>1 DEF VInv, RequestsOK
  <1>6. LocksOK'
    BY <1>1 DEF VInv, LocksOK
  <1>7. ASSUME NEW dia \in Calendario PROVE Confere(dia)
    <2>1. VigentesEm(dia)' = VigentesEm(dia)
      BY <1>1, <1>2 DEF VigentesEm, Ativas
    <2> QED
      BY <2>1 DEF Confere
  <1> QED
    BY <1>3, <1>4, <1>5, <1>6, <1>7 DEF VInv

\* A request reads what it will write.
LEMMA RequestsPrepared ==
    ASSUME RuleVersionsAssumption, VInv, NEW p \in Processos,
           \/ \E v \in versoes : Prepare(p, v)
           \/ \E de \in Calendario : PreparePolicy(p, de)
           \/ Abort(p)
    PROVE  VInv' /\ UNCHANGED <<especie, versoes>>
  <1>1. UNCHANGED <<especie, dataAtual, versoes, concorreu>>
    BY Zenon DEF Prepare, PreparePolicy, Abort
  <1>2. PICK r : processos' = [processos EXCEPT ![p] = r]
    BY Zenon DEF Prepare, PreparePolicy, Abort
  <1>3. processos'[p] = r /\ DOMAIN processos' = Processos /\ \A q \in Processos \ {p} : processos'[q] = processos[q]
    BY <1>2 DEF VInv, RequestsOK
  <1>4. RequestOK(r) /\ (r.op = "policy" => \A q \in Processos \ {p} :
                             processos[q].op = "policy" => r.anteriores \cap processos[q].anteriores = {})
    <2>1. ASSUME NEW v \in versoes, Prepare(p, v) PROVE RequestOK(r) /\ r.op # "policy"
      <3>1. /\ r.op = "activate" /\ r.id = v.id /\ r.dia = dataAtual /\ r.proxima = Proxima(v)
            /\ especie # "excecao" /\ v.de > dataAtual
        BY <1>3, <2>1 DEF Prepare, AntesDoInicio, VInv, RequestsOK
      <3>2. Proxima(v) \subseteq Versao /\ dataAtual \in Calendario
        BY DEF Proxima, Proximas, Ativas, VInv, VersionsOK, RulesTypeOK
      <3>3. \A w \in versoes : w.id = v.id => w = v
        BY DEF VInv, VersionsOK
      <3> QED
        BY <3>1, <3>2, <3>3 DEF RequestOK
    <2>2. ASSUME NEW de \in Calendario, PreparePolicy(p, de) PROVE <1>4
      <3>1. /\ r.op = "policy" /\ r.de = de /\ r.dia = dataAtual /\ r.anteriores = VigentesEm(de)
            /\ r.travas = {v.id : v \in VigentesEm(de)} /\ especie = "excecao" /\ de >= dataAtual
            /\ \A v \in VigentesEm(de) : v.id \notin Travadas(p)
        BY <1>3, <2>2 DEF PreparePolicy, VInv, RequestsOK
      <3>2. VigentesEm(de) \subseteq versoes /\ \A v \in VigentesEm(de) : v.de <= de /\ de <= v.ate
        BY DEF VigentesEm, Ativas
      <3>3. dataAtual \in Calendario /\ de \in Int /\ dataAtual \in Int
        BY DEF VInv, RulesTypeOK, Calendario
      <3>4. RequestOK(r)
        BY <3>1, <3>2, <3>3 DEF RequestOK
      <3>5. ASSUME NEW q \in Processos \ {p}, processos[q].op = "policy"
            PROVE  VigentesEm(de) \cap processos[q].anteriores = {}
        <4>1. processos[q] # Livre /\ processos[q].travas = {v.id : v \in processos[q].anteriores}
          BY <3>5 DEF Livre, VInv, RequestsOK, RequestOK
        <4>2. processos[q].travas \subseteq Travadas(p)
          BY <4>1 DEF Travadas
        <4> QED
          BY <3>1, <4>1, <4>2
      <3> QED
        BY <3>1, <3>4, <3>5
    <2>3. CASE Abort(p)
      <3>1. r = Livre
        BY <1>3, <2>3 DEF Abort, VInv, RequestsOK
      <3> QED
        BY <3>1 DEF Livre, RequestOK
    <2> QED
      BY <2>1, <2>2, <2>3
  <1>5. RequestsOK'
    <2>1. ASSUME NEW q \in Processos PROVE RequestOK(processos[q])'
      <3>1. RequestOK(processos'[q])
        BY <1>3, <1>4 DEF VInv, RequestsOK
      <3> QED
        BY <1>1, <3>1 DEF RequestOK
    <2> QED
      BY <1>3, <2>1 DEF RequestsOK
  <1>6. LocksOK'
    BY <1>3, <1>4 DEF VInv, LocksOK
  <1>7. RulesTypeOK' /\ VersionsOK(versoes')
    BY <1>1 DEF VInv, RulesTypeOK
  <1> QED
    BY <1>1, <1>5, <1>6, <1>7 DEF VInv

\* A request commits.
LEMMA CommitsKeep ==
    ASSUME RuleVersionsAssumption, VInv, NEW p \in Processos, Activate(p) \/ CreatePolicy(p)
    PROVE  VInv'
  <1>1. /\ UNCHANGED <<especie, dataAtual>> /\ processos' = [processos EXCEPT ![p] = Livre]
        /\ concorreu' = (concorreu \/ \E q \in Processos \ {p} : processos[q] # Livre)
    BY Zenon DEF Activate, CreatePolicy, Encerra
  <1>2. processos'[p] = Livre /\ DOMAIN processos' = Processos /\ \A q \in Processos \ {p} : processos'[q] = processos[q]
    BY <1>1 DEF VInv, RequestsOK
  <1>3. VersionsOK(versoes')
    BY ActivationRewrites, PolicyRewrites
  <1>4. RulesTypeOK'
    <2>1. concorreu' \in BOOLEAN
      BY <1>1, Zenon DEF VInv, RulesTypeOK
    <2> QED
      BY <1>1, <1>3, <2>1 DEF VInv, RulesTypeOK, VersionsOK
  <1>5. RequestOK(Livre)'
    BY DEF RequestOK, Livre
  <1>6. RequestsOK'
    <2>1. ASSUME NEW q \in Processos \ {p} PROVE RequestOK(processos[q])'
      <3>1. RequestOK(processos[q]) /\ processos'[q] = processos[q] /\ especie' = especie
        BY <1>1, <1>2 DEF VInv, RequestsOK
      <3>2. CASE Activate(p)
        <4>1. especie # "excecao"
          BY <3>2 DEF Activate, VInv, RequestsOK, RequestOK
        <4>2. /\ {v.id : v \in versoes'} = {v.id : v \in versoes}
              /\ \A x \in versoes' : \E w \in versoes : x.id = w.id /\ x.de = w.de
          BY <3>2, ActivationRewrites
        <4> QED
          BY <3>1, <4>1, <4>2 DEF RequestOK
      <3>3. CASE CreatePolicy(p)
        <4>1. especie = "excecao" /\ processos[p].op = "policy"
          BY <3>3 DEF CreatePolicy, VInv, RequestsOK, RequestOK
        <4>2. \A x \in versoes \ processos[p].anteriores : x \in versoes'
          BY <3>3, PolicyRewrites
        <4>3. ASSUME processos[q].op = "policy" PROVE processos[q].anteriores \subseteq versoes'
          <5>1. processos[q].anteriores \cap processos[p].anteriores = {}
            BY <4>1, <4>3 DEF VInv, LocksOK
          <5>2. processos[q].anteriores \subseteq versoes
            BY <3>1, <4>3 DEF RequestOK
          <5> QED
            BY <4>2, <5>1, <5>2
        <4> QED
          BY <3>1, <4>1, <4>3 DEF RequestOK
      <3> QED
        BY <3>2, <3>3
    <2>2. RequestOK(processos[p])'
      BY <1>2, <1>5 DEF RequestOK
    <2> QED
      BY <1>2, <2>1, <2>2 DEF RequestsOK
  <1>7. LocksOK'
    BY <1>2 DEF VInv, LocksOK, Livre
  <1> QED
    BY <1>3, <1>4, <1>6, <1>7 DEF VInv

LEMMA MidnightKeeps ==
    ASSUME RuleVersionsAssumption, VInv, Midnight \/ UNCHANGED regrasVars
    PROVE  VInv' /\ UNCHANGED <<especie, versoes>>
  <1>1. UNCHANGED <<especie, versoes, processos, concorreu>> /\ dataAtual' \in Calendario
    BY DEF Midnight, regrasVars, VInv, RulesTypeOK, Calendario, RuleVersionsAssumption
  <1>2. RulesTypeOK' /\ VersionsOK(versoes')
    BY <1>1 DEF VInv, RulesTypeOK
  <1>3. RequestsOK' /\ LocksOK'
    BY <1>1 DEF VInv, RequestsOK, RequestOK, LocksOK
  <1> QED
    BY <1>1, <1>2, <1>3 DEF VInv

LEMMA VInvKept ==
    ASSUME RuleVersionsAssumption, VInv, [RulesNext]_regrasVars
    PROVE  VInv'
  BY DraftKeeps, RequestsPrepared, CommitsKeep, MidnightKeeps, Zenon DEF RulesNext

LEMMA RequestsStayCurrent ==
    ASSUME RuleVersionsAssumption
    PROVE  RulesSpec => []VInv
  <1>1. RulesInit => VInv
    BY VInvInitially
  <1>2. VInv /\ [RulesNext]_regrasVars => VInv'
    BY VInvKept
  <1> QED
    BY <1>1, <1>2, PTL DEF RulesSpec

\* Every row, at any time, has its type.
THEOREM RuleTypes ==
    ASSUME RuleVersionsAssumption
    PROVE  RulesSpec => []RulesTypeOK
  <1>1. VInv => RulesTypeOK
    BY DEF VInv
  <1> QED
    BY <1>1, RequestsStayCurrent, PTL

\* For any calendar, any number of versions and of requests that wait together:
\* the rule of a day changes only at the commit of a request that was checked
\* before it (for a policy, not after it), so a commission of a past day can be
\* calculated again, however long a request waited.
THEOREM PastRulesStayFixed ==
    ASSUME RuleVersionsAssumption
    PROVE  RulesSpec => PastRulesAreFixed
  <1> DEFINE Justified(dia) ==
                 \E p \in Processos :
                     /\ processos[p] # Livre /\ processos'[p] = Livre
                     /\ processos[p].dia < dia \/ (especie = "excecao" /\ processos[p].dia = dia)
  <1>1. ASSUME VInv, [RulesNext]_regrasVars, NEW dia \in Calendario
        PROVE  RegraEm(dia)' = RegraEm(dia) \/ Justified(dia)
    <2>1. ASSUME Confere(dia), especie' = especie PROVE RegraEm(dia)' = RegraEm(dia)
      BY <2>1, MatchingRowsGiveTheSameRule
    <2>2. ASSUME UNCHANGED <<especie, versoes>> PROVE RegraEm(dia)' = RegraEm(dia)
      <3>1. VigentesEm(dia)' = VigentesEm(dia)
        BY <2>2 DEF VigentesEm, Ativas
      <3> QED
        BY <2>1, <2>2, <3>1 DEF Confere
    <2>3. ASSUME NEW de \in Calendario, CreateDraft(de) PROVE RegraEm(dia)' = RegraEm(dia)
      <3>1. Confere(dia)
        BY <1>1, <2>3, DraftKeeps
      <3> QED
        BY <2>1, <2>3, <3>1 DEF CreateDraft
    <2>4. ASSUME NEW p \in Processos, Activate(p) \/ CreatePolicy(p)
          PROVE  RegraEm(dia)' = RegraEm(dia) \/ Justified(dia)
      <3>1. /\ especie' = especie /\ processos[p] # Livre /\ processos'[p] = Livre
            /\ processos[p].op \in {"activate", "policy"} /\ RequestOK(processos[p])
        <4>1. /\ especie' = especie /\ processos' = [processos EXCEPT ![p] = Livre]
              /\ processos[p].op = "activate" \/ processos[p].op = "policy"
          BY <2>4, Zenon DEF Activate, CreatePolicy, Encerra
        <4>2. DOMAIN processos = Processos /\ RequestOK(processos[p])
          BY <1>1 DEF VInv, RequestsOK
        <4>3. processos[p] # Livre
          BY <4>1 DEF Livre
        <4> QED
          BY <4>1, <4>2, <4>3
      <3>2. processos[p].dia \in Int /\ dia \in Int
        BY <3>1 DEF RequestOK, Calendario
      <3>3. CASE processos[p].dia < dia \/ (especie = "excecao" /\ processos[p].dia = dia)
        BY <3>1, <3>3
      <3>4. CASE ~(processos[p].dia < dia \/ (especie = "excecao" /\ processos[p].dia = dia))
        <4>1. CASE Activate(p)
          <5>1. dia <= processos[p].dia
            BY <3>2, <3>4
          <5> QED
            BY <1>1, <2>1, <3>1, <4>1, <5>1, ActivationRewrites
        <4>2. CASE CreatePolicy(p)
          <5>1. especie = "excecao"
            BY <3>1, <4>2 DEF CreatePolicy, RequestOK
          <5>2. dia < processos[p].dia
            BY <3>2, <3>4, <5>1
          <5> QED
            BY <1>1, <2>1, <3>1, <4>2, <5>2, PolicyRewrites
        <4> QED
          BY <2>4, <4>1, <4>2
      <3> QED
        BY <3>3, <3>4
    <2>5. ASSUME NEW p \in Processos,
                 \/ \E v \in versoes : Prepare(p, v)
                 \/ \E de \in Calendario : PreparePolicy(p, de)
                 \/ Abort(p)
          PROVE  RegraEm(dia)' = RegraEm(dia)
      BY <1>1, <2>2, <2>5, RequestsPrepared
    <2>6. ASSUME Midnight \/ UNCHANGED regrasVars PROVE RegraEm(dia)' = RegraEm(dia)
      BY <1>1, <2>2, <2>6, MidnightKeeps
    <2> HIDE DEF Justified
    <2> QED
      BY <1>1, <2>3, <2>4, <2>5, <2>6, Zenon DEF RulesNext
  <1>2. VInv /\ [RulesNext]_regrasVars
            => \A dia \in Calendario : RegraEm(dia)' # RegraEm(dia) => Justified(dia)
    BY <1>1
  <1> QED
    BY <1>2, RequestsStayCurrent, PTL DEF RulesSpec, PastRulesAreFixed

-----------------------------------------------------------------------------
\* Days that have a rule.

EmVigor(V) == {v \in V : v.status = "ACTIVE"}

\* A version in force on d, of those that start on a or later.
Cobre(V, a, d) == \E u \in EmVigor(V) : a <= u.de /\ u.de <= d /\ d <= u.ate

\* Where a version runs past the start of another, that one and those after it
\* cover what they share: the earlier can be closed at any start without a gap.
SemLacuna(V) ==
    \A w, x \in EmVigor(V), d \in Calendario :
        w.de <= x.de /\ x.de <= d /\ d <= w.ate => Cobre(V, x.de, d)

Fim(r) == FimAte(r.proxima)

\* What an activation was prepared with still holds: its version is a draft,
\* the next version is there, and what was activated since before that one
\* covers the days up to it.
AtivacaoOK(V, r) ==
    /\ r.id \in r.travas
    /\ \A v \in V : v.id = r.id =>
           /\ v.status = "DRAFT"
           /\ Fim(r) = SemFim \/ \E x \in EmVigor(V) : v.de < x.de /\ x.de = Fim(r) + 1
           /\ \A x \in EmVigor(V), d \in Calendario :
                  v.de < x.de /\ x.de <= d /\ d <= Fim(r) => Cobre(V, x.de, d)

\* Two activations that wait together: whichever commits last, the days up to
\* the end of the one that starts first are covered.
ParOK(V, r, s) ==
    /\ r.id # s.id
    /\ \A v, y \in V, d \in Calendario :
           v.id = r.id /\ y.id = s.id /\ y.de < v.de /\ Fim(r) < d /\ d <= Fim(s)
               => Cobre(V, Fim(r) + 1, d)

Ativa(r) == r.op = "activate"

CInv ==
    especie # "excecao" =>
        /\ SemLacuna(versoes)
        /\ \A p \in Processos : Ativa(processos[p]) => AtivacaoOK(versoes, processos[p])
        /\ \A p, q \in Processos : p # q /\ Ativa(processos[p]) /\ Ativa(processos[q])
               => ParOK(versoes, processos[p], processos[q])

LEMMA SmallestOf ==
    ASSUME NEW T \in SUBSET Nat, T # {}
    PROVE  \E n \in T : \A k \in T : n <= k
<1>1. PICK n \in T : \A k \in T : ~(<<k, n>> \in OpToRel(<, Nat))
  BY NatLessThanWellFounded, WFMin
<1>2. \A k \in T : ~(k < n)
  BY <1>1 DEF OpToRel
<1> QED  BY <1>2

LEMMA LargestOf ==
    ASSUME NEW n \in Nat, NEW T, T # {}, \A t \in T : t \in Nat /\ t <= n
    PROVE  \E m \in T : \A k \in T : k <= m
<1> DEFINE U == {n - t : t \in T}
<1>1. U \in SUBSET Nat /\ U # {}
  OBVIOUS
<1>2. PICK u \in U : \A k \in U : u <= k
  <2> HIDE DEF U
  <2> QED  BY <1>1, SmallestOf
<1>3. PICK m \in T : u = n - m
  OBVIOUS
<1>4. \A k \in T : n - m <= n - k
  BY <1>2, <1>3
<1> QED  BY <1>4

\* A day has a rule when a version covers it.
LEMMA RuleWhereCovered ==
    ASSUME RuleVersionsAssumption, versoes \subseteq Versao, NEW dia \in Calendario
    PROVE  RegraEm(dia) # {} <=> Cobre(versoes, 1, dia)
<1> DEFINE V == VigentesEm(dia)
           U == UltimasIniciadas(V)
<1>1. \A v \in V : v.id \in Nat /\ v.de \in Nat /\ v.de \in 0..Horizonte /\ 1 <= v.de /\ v.id \in 0..MaxVersoes
  BY DEF VigentesEm, Ativas, Versao, Calendario, RuleVersionsAssumption
<1>2. V # {} <=> Cobre(versoes, 1, dia)
  <2>1. V = {v \in versoes : v.status = "ACTIVE" /\ v.de <= dia /\ dia <= v.ate}
    BY DEF VigentesEm, Ativas
  <2>2. \A v \in versoes : 1 <= v.de
    BY DEF Versao, Calendario
  <2> HIDE DEF V
  <2> QED  BY <2>1, <2>2 DEF Cobre, EmVigor
<1> HIDE DEF V
<1>3. U \subseteq V
  BY DEF UltimasIniciadas
<1>4. V # {} => U # {}
  <2> SUFFICES ASSUME V # {} PROVE U # {}
    OBVIOUS
  <2> DEFINE T == {v.de : v \in V}
  <2>1. (\A t \in T : t \in Nat /\ t <= Horizonte) /\ T # {} /\ Horizonte \in Nat
    BY <1>1 DEF RuleVersionsAssumption
  <2>2. PICK m \in T : \A k \in T : k <= m
    <3> HIDE DEF T
    <3> QED  BY <2>1, LargestOf
  <2>3. PICK v \in V : v.de = m
    OBVIOUS
  <2>4. \A w \in V : w.de <= v.de
    BY <2>2, <2>3
  <2> QED  BY <2>4 DEF UltimasIniciadas
<1> HIDE DEF U
<1>5. U # {} => {v \in U : \A w \in U : w.id <= v.id} # {}
  <2> SUFFICES ASSUME U # {} PROVE {v \in U : \A w \in U : w.id <= v.id} # {}
    OBVIOUS
  <2> DEFINE T == {v.id : v \in U}
  <2>1. (\A t \in T : t \in Nat /\ t <= MaxVersoes) /\ T # {} /\ MaxVersoes \in Nat
    BY <1>1, <1>3 DEF RuleVersionsAssumption
  <2>2. PICK m \in T : \A k \in T : k <= m
    <3> HIDE DEF T
    <3> QED  BY <2>1, LargestOf
  <2>3. PICK v \in U : v.id = m
    OBVIOUS
  <2>4. \A w \in U : w.id <= v.id
    BY <2>2, <2>3
  <2> QED  BY <2>4
<1>6. /\ PoliticaDoBeneficiario(dia) = U
      /\ ConjuntoDeRegras(dia) = {v \in U : \A w \in U : w.id <= v.id}
  BY DEF PoliticaDoBeneficiario, ConjuntoDeRegras, U, V
<1> QED  BY <1>2, <1>3, <1>4, <1>5, <1>6 DEF RegraEm

\* What a commit does to the versions in force: v comes into force until fim,
\* and those it falls into end the day before.
Entra(V, W, v, fim) ==
    /\ v \in V /\ v.status = "DRAFT"
    /\ \E n \in EmVigor(W) : n.de = v.de /\ n.ate = fim
    /\ \A u \in EmVigor(V) :
           IF u.de < v.de /\ v.de <= u.ate
           THEN \E n \in EmVigor(W) : n.de = u.de /\ n.ate = v.de - 1
           ELSE u \in EmVigor(W)
    /\ \A n \in EmVigor(W) :
           \/ n.de = v.de /\ n.ate = fim
           \/ \E u \in EmVigor(V) : u.de < v.de /\ v.de <= u.ate /\ n.de = u.de /\ n.ate = v.de - 1
           \/ n \in EmVigor(V) /\ ~(n.de < v.de /\ v.de <= n.ate)

Datas(V) == \A u \in V : u.de \in Nat /\ u.ate \in Nat

\* Where it ends, the next one begins.
FimOK(V, v, fim) ==
    /\ fim \in Nat
    /\ fim = SemFim \/ \E x \in EmVigor(V) : v.de < x.de /\ x.de = fim + 1

LEMMA StaysCovered ==
    ASSUME RuleVersionsAssumption, NEW V, NEW W, Datas(V), Datas(W), NEW v, NEW fim,
           Entra(V, W, v, fim), FimOK(V, v, fim), SemLacuna(V),
           NEW a \in Nat, NEW d \in Calendario, Cobre(V, a, d)
    PROVE  Cobre(W, a, d)
<1>1. PICK u \in EmVigor(V) : a <= u.de /\ u.de <= d /\ d <= u.ate
  BY DEF Cobre
<1>2. d \in Nat /\ d <= SemFim /\ v \in V /\ u \in V /\ v.de \in Nat /\ u.de \in Nat /\ u.ate \in Nat
  BY FieldsOfRows DEF Entra, EmVigor, Datas
<1>3. CASE ~(u.de < v.de /\ v.de <= u.ate)
  BY <1>1, <1>3 DEF Entra, Cobre
<1>4. CASE u.de < v.de /\ v.de <= u.ate
  <2>1. PICK n \in EmVigor(W) : n.de = u.de /\ n.ate = v.de - 1
    BY <1>4 DEF Entra
  <2>2. CASE d < v.de
    BY <1>1, <1>2, <2>1, <2>2 DEF Cobre
  <2>3. CASE v.de <= d /\ d <= fim
    <3>1. PICK m \in EmVigor(W) : m.de = v.de /\ m.ate = fim
      BY DEF Entra
    <3> QED  BY <1>1, <1>2, <1>4, <2>3, <3>1 DEF Cobre
  <2>4. CASE v.de <= d /\ fim < d
    <3>1. PICK x \in EmVigor(V) : v.de < x.de /\ x.de = fim + 1
      BY <1>2, <2>4 DEF FimOK
    <3>2. x.de \in Nat /\ u.de <= x.de /\ x.de <= d
      BY <1>2, <1>4, <2>4, <3>1 DEF FimOK, Datas, EmVigor
    <3>3. PICK y \in EmVigor(V) : x.de <= y.de /\ y.de <= d /\ d <= y.ate
      BY <1>1, <3>2 DEF SemLacuna, Cobre
    <3>4. y.de \in Nat /\ a <= y.de /\ ~(y.de < v.de)
      BY <1>1, <1>2, <3>1, <3>2, <3>3 DEF Datas, EmVigor
    <3>5. y \in EmVigor(W)
      BY <3>4 DEF Entra
    <3> QED  BY <3>3, <3>4, <3>5 DEF Cobre
  <2>5. fim \in Nat
    BY DEF FimOK
  <2> QED  BY <1>2, <2>2, <2>3, <2>4, <2>5
<1> QED  BY <1>3, <1>4

\* Every version in force after the commit starts where one in force before it
\* does, and ends no later, or is the new one.
LEMMA NewInForce ==
    ASSUME NEW V, NEW W, Datas(V), Datas(W), NEW v, NEW fim, Entra(V, W, v, fim), NEW n \in EmVigor(W)
    PROVE  \/ n.de = v.de /\ n.ate = fim
           \/ \E u \in EmVigor(V) : n.de = u.de /\ n.ate <= u.ate
                  /\ (u.de < v.de => n.ate < v.de)
<1>1. v \in V /\ v.de \in Nat /\ n.de \in Nat /\ n.ate \in Nat /\ \A u \in EmVigor(V) : u.de \in Nat /\ u.ate \in Nat
  BY DEF Entra, EmVigor, Datas
<1>2. CASE n \in EmVigor(V) /\ ~(n.de < v.de /\ v.de <= n.ate)
  BY <1>1, <1>2
<1>3. CASE \E u \in EmVigor(V) : u.de < v.de /\ v.de <= u.ate /\ n.de = u.de /\ n.ate = v.de - 1
  BY <1>1, <1>3
<1> QED  BY <1>2, <1>3 DEF Entra

LEMMA StaysWithoutGap ==
    ASSUME RuleVersionsAssumption, NEW V, NEW W, Datas(V), Datas(W), NEW v, NEW fim,
           Entra(V, W, v, fim), FimOK(V, v, fim), SemLacuna(V),
           \A x \in EmVigor(V), d \in Calendario :
               v.de < x.de /\ x.de <= d /\ d <= fim => Cobre(V, x.de, d)
    PROVE  SemLacuna(W)
<1> SUFFICES ASSUME NEW w \in EmVigor(W), NEW x \in EmVigor(W), NEW d \in Calendario,
                    w.de <= x.de, x.de <= d, d <= w.ate
             PROVE  Cobre(W, x.de, d)
  BY DEF SemLacuna
<1>1. /\ w.de \in Nat /\ w.ate \in Nat /\ x.de \in Nat /\ x.ate \in Nat /\ d \in Nat
      /\ v \in V /\ v.de \in Nat /\ \A u \in EmVigor(V) : u.de \in Nat /\ u.ate \in Nat
  BY FieldsOfRows DEF Entra, EmVigor, Datas
<1>2. CASE d <= x.ate
  BY <1>1, <1>2 DEF Cobre
<1>3. CASE w.de = x.de
  BY <1>1, <1>3 DEF Cobre
<1>4. CASE w.de < x.de /\ x.ate < d
  <2>1. CASE x.de = v.de /\ x.ate = fim
    <3>1. w.de < v.de /\ v.de <= w.ate
      BY <1>1, <1>4, <2>1
    <3> QED  BY <1>1, <3>1, NewInForce
  <2>2. ASSUME NEW t \in EmVigor(V), x.de = t.de PROVE Cobre(W, x.de, d)
    <3>1. CASE w.de = v.de /\ w.ate = fim
      <4>1. Cobre(V, x.de, d)
        BY <1>4, <2>2, <3>1
      <4> QED  BY <1>1, <4>1, StaysCovered
    <3>2. ASSUME NEW u \in EmVigor(V), w.de = u.de, w.ate <= u.ate PROVE Cobre(W, x.de, d)
      <4>1. u.de <= t.de /\ t.de <= d /\ d <= u.ate
        BY <1>1, <1>4, <2>2, <3>2
      <4>2. Cobre(V, x.de, d)
        BY <2>2, <4>1 DEF SemLacuna
      <4> QED  BY <1>1, <4>2, StaysCovered
    <3> QED  BY <3>1, <3>2, NewInForce
  <2> QED  BY <2>1, <2>2, NewInForce
<1> QED  BY <1>1, <1>2, <1>3, <1>4


-----------------------------------------------------------------------------
\* The commits.

LEMMA RowDates ==
    ASSUME RuleVersionsAssumption, NEW V \in SUBSET Versao
    PROVE  Datas(V) /\ \A v \in V : v.de \in Calendario /\ v.ate \in 0..SemFim
BY FieldsOfRows DEF Datas, VersaoFacts

LEMMA FimIsDay ==
    ASSUME RuleVersionsAssumption, NEW P \in SUBSET Versao
    PROVE  FimAte(P) \in Nat /\ FimAte(P) \in 0..SemFim
<1>1. CASE P = {}
  BY <1>1, FieldsOfRows DEF FimAte
<1>2. CASE P # {}
  <2>1. PICK w \in P : FimAte(P) = w.de - 1
    BY <1>2 DEF FimAte
  <2>2. w.de \in 1..Horizonte
    BY <2>1 DEF Versao, Calendario
  <2> QED  BY <2>1, <2>2 DEF SemFim, RuleVersionsAssumption
<1> QED  BY <1>1, <1>2

LEMMA ActivationEnters ==
    ASSUME RuleVersionsAssumption, VInv, CInv, NEW p \in Processos, Activate(p)
    PROVE  \E v \in versoes :
              /\ v.id = processos[p].id
              /\ Entra(versoes, versoes', v, Fim(processos[p]))
              /\ FimOK(versoes, v, Fim(processos[p]))
<1> DEFINE fim == Fim(processos[p])
<1>1. PICK v \in versoes :
          /\ v.id = processos[p].id
          /\ versoes' = (versoes \ ({v} \union Anteriores(v)))
                 \union Encerrar(Anteriores(v), v.de)
                 \union {[v EXCEPT !.status = "ACTIVE", !.ate = fim]}
  BY DEF Activate, Fim
<1> DEFINE novo == [v EXCEPT !.status = "ACTIVE", !.ate = fim]
           A == Anteriores(v)
           N == Encerrar(A, v.de)
<1>2. /\ Ativa(processos[p]) /\ RequestOK(processos[p]) /\ especie # "excecao"
  BY DEF Activate, VInv, RequestsOK, RequestOK, Ativa
<1>3. AtivacaoOK(versoes, processos[p])
  BY <1>2 DEF CInv
<1>4. v \in Versao /\ v.de \in Calendario /\ versoes \in SUBSET Versao /\ A \in SUBSET Versao
  BY FieldsOfRows DEF VInv, VersionsOK, Anteriores, Ativas, VersaoFacts
<1>5. fim \in Nat /\ fim \in 0..SemFim
  BY <1>2, FimIsDay DEF RequestOK, Fim, Ativa
<1>6. novo.status = "ACTIVE" /\ novo.de = v.de /\ novo.ate = fim
  <2> HIDE DEF fim
  <2> QED  BY <1>4 DEF Versao
<1>7. /\ \A w \in A : \E x \in N :
             x.id = w.id /\ x.de = w.de /\ x.status = w.status /\ x.ate = v.de - 1
      /\ \A x \in N : \E w \in A :
             x.de = w.de /\ x.status = w.status /\ x.ate = v.de - 1
  <2> HIDE DEF A
  <2>1. \A w \in A : \E x \in N :
             x.id = w.id /\ x.de = w.de /\ x.status = w.status /\ x.ate = v.de - 1
    BY <1>4, EndedRows
  <2>2. \A x \in N : \E w \in A :
             x = [w EXCEPT !.ate = v.de - 1] /\ x.id = w.id /\ x.de = w.de
                 /\ x.status = w.status /\ x.ate = v.de - 1
    BY <1>4, EndedRows
  <2> QED  BY <2>1, <2>2, Zenon
<1>8. \A w : w \in A <=> w \in EmVigor(versoes) /\ w.de < v.de /\ v.de <= w.ate
  BY DEF Anteriores, Ativas, EmVigor
<1>9. v.status = "DRAFT" /\ FimOK(versoes, v, fim)
  BY <1>1, <1>3, <1>5 DEF AtivacaoOK, FimOK
<1>10. versoes' = (versoes \ ({v} \union A)) \union N \union {novo}
  BY <1>1
<1> HIDE DEF fim, novo, A, N
<1>11. \E n \in EmVigor(versoes') : n.de = v.de /\ n.ate = fim
  BY <1>6, <1>10 DEF EmVigor
<1>12. ASSUME NEW u \in EmVigor(versoes)
       PROVE  IF u.de < v.de /\ v.de <= u.ate
              THEN \E n \in EmVigor(versoes') : n.de = u.de /\ n.ate = v.de - 1
              ELSE u \in EmVigor(versoes')
  <2>1. u # v /\ u \in versoes /\ u.status = "ACTIVE"
    BY <1>9 DEF EmVigor
  <2>2. CASE u.de < v.de /\ v.de <= u.ate
    <3>1. u \in A
      BY <1>8, <2>2
    <3>2. PICK n \in N : n.de = u.de /\ n.status = u.status /\ n.ate = v.de - 1
      BY <1>7, <3>1
    <3> QED  BY <1>10, <2>1, <2>2, <3>2 DEF EmVigor
  <2>3. CASE ~(u.de < v.de /\ v.de <= u.ate)
    <3>1. u \notin A
      BY <1>8, <2>3
    <3> QED  BY <1>10, <2>1, <2>3, <3>1 DEF EmVigor
  <2> QED  BY <2>2, <2>3
<1>13. ASSUME NEW n \in EmVigor(versoes')
       PROVE  \/ n.de = v.de /\ n.ate = fim
              \/ \E u \in EmVigor(versoes) :
                     u.de < v.de /\ v.de <= u.ate /\ n.de = u.de /\ n.ate = v.de - 1
              \/ n \in EmVigor(versoes) /\ ~(n.de < v.de /\ v.de <= n.ate)
  <2>1. n \in versoes' /\ n.status = "ACTIVE"
    BY DEF EmVigor
  <2>2. CASE n = novo
    BY <1>6, <2>2
  <2>3. CASE n \in N
    BY <1>7, <1>8, <2>3
  <2>4. CASE n \in versoes /\ n \notin A
    BY <1>8, <2>1, <2>4 DEF EmVigor
  <2> QED  BY <1>10, <2>1, <2>2, <2>3, <2>4
<1>14. Entra(versoes, versoes', v, fim)
  BY <1>9, <1>11, <1>12, <1>13 DEF Entra
<1> QED  BY <1>1, <1>9, <1>14 DEF fim

LEMMA PolicyEnters ==
    ASSUME RuleVersionsAssumption, VInv, NEW p \in Processos, CreatePolicy(p),
           NEW d \in Calendario, Cobre(versoes, 1, d)
    PROVE  Cobre(versoes', 1, d)
<1> DEFINE r == processos[p]
           novo == [id |-> NovoId, status |-> "ACTIVE", de |-> r.de, ate |-> SemFim]
           N == Encerrar(r.anteriores, r.de)
<1>1. versoes' = (versoes \ r.anteriores) \union N \union {novo}
  BY DEF CreatePolicy
<1>2. /\ r.de \in Calendario /\ r.anteriores \subseteq versoes
      /\ \A v \in r.anteriores : v.de <= r.de /\ r.de <= v.ate
  BY DEF CreatePolicy, VInv, RequestsOK, RequestOK
<1>3. versoes \in SUBSET Versao /\ r.anteriores \in SUBSET Versao
  BY <1>2 DEF VInv, VersionsOK
<1>4. \A w \in r.anteriores : \E x \in N :
             x.id = w.id /\ x.de = w.de /\ x.status = w.status /\ x.ate = r.de - 1
  BY <1>2, <1>3, EndedRows
<1>5. PICK u \in EmVigor(versoes) : 1 <= u.de /\ u.de <= d /\ d <= u.ate
  BY DEF Cobre
<1>6. novo.status = "ACTIVE" /\ novo.de = r.de /\ novo.ate = SemFim
  OBVIOUS
<1>7. d \in Nat /\ r.de \in Nat /\ 1 <= r.de /\ d <= SemFim
  BY <1>2, FieldsOfRows DEF Calendario
<1> HIDE DEF r, novo, N
<1>8. CASE u \notin r.anteriores
  BY <1>1, <1>5, <1>8 DEF EmVigor, Cobre
<1>9. CASE r.de <= d
  BY <1>1, <1>6, <1>7, <1>9 DEF EmVigor, Cobre
<1>10. CASE u \in r.anteriores /\ d < r.de
  <2>1. PICK x \in N : x.de = u.de /\ x.status = u.status /\ x.ate = r.de - 1
    BY <1>4, <1>10
  <2>2. d <= x.ate
    BY <1>7, <1>10, <2>1
  <2> QED  BY <1>1, <1>5, <2>1, <2>2 DEF EmVigor, Cobre
<1> QED  BY <1>7, <1>8, <1>9, <1>10


-----------------------------------------------------------------------------
\* No gap is left.

LEMMA CoveredFrom ==
    ASSUME NEW V, Datas(V), NEW a \in Nat, NEW b \in Nat, a <= b, NEW d, Cobre(V, b, d)
    PROVE  Cobre(V, a, d)
BY DEF Cobre, EmVigor, Datas

LEMMA ActivationLeavesNoGap ==
    ASSUME RuleVersionsAssumption, VInv, VInv', CInv, NEW p \in Processos, Activate(p)
    PROVE  CInv'
<1> DEFINE r == processos[p]
           fim == Fim(r)
           V == versoes
           W == versoes'
<1>1. PICK v \in V : v.id = r.id /\ Entra(V, W, v, fim) /\ FimOK(V, v, fim)
  BY ActivationEnters
<1>2. /\ Ativa(r) /\ especie # "excecao" /\ especie' = especie
      /\ processos' = [processos EXCEPT ![p] = Livre] /\ DOMAIN processos = Processos
      /\ RequestOK(r)
  BY DEF Activate, Encerra, VInv, RequestsOK, RequestOK, Ativa
<1>3. \A q \in Processos : Ativa(processos'[q]) => q # p /\ processos'[q] = processos[q]
  BY <1>2 DEF Ativa, Livre
<1>4. SemLacuna(V) /\ AtivacaoOK(V, r)
  BY <1>2 DEF CInv
<1>5. V \in SUBSET Versao /\ W \in SUBSET Versao
  BY DEF VInv, VersionsOK
<1>6. Datas(V) /\ Datas(W) /\ (\A u \in V : u.de \in Calendario) /\ fim \in Nat
  BY <1>1, <1>5, RowDates DEF FimOK
<1>7. \A x \in V : x.de \in Nat
  BY <1>6 DEF Datas
<1>8. \A y \in W : \E w \in V : y.id = w.id /\ y.de = w.de
  BY ActivationRewrites
<1>9. \A w, y \in V : w.id = y.id => w = y
  BY DEF VInv, VersionsOK
<1>10. \A x \in EmVigor(V), d \in Calendario :
          v.de < x.de /\ x.de <= d /\ d <= fim => Cobre(V, x.de, d)
  BY <1>1, <1>4 DEF AtivacaoOK
<1> HIDE DEF V, W, r, fim
<1>11. SemLacuna(W)
  BY <1>1, <1>4, <1>6, <1>10, StaysWithoutGap
<1>12. \A a \in Nat, d \in Calendario : Cobre(V, a, d) => Cobre(W, a, d)
  BY <1>1, <1>4, <1>6, StaysCovered
<1>13. ASSUME NEW q \in Processos, Ativa(processos'[q]) PROVE AtivacaoOK(W, processos'[q])
  <2> DEFINE s == processos[q]
  <2>1. q # p /\ processos'[q] = s /\ Ativa(s) /\ AtivacaoOK(V, s) /\ ParOK(V, r, s)
    BY <1>2, <1>3, <1>13 DEF CInv, V, r
  <2>2. Fim(s) \in Nat
    BY <2>1, FimIsDay DEF VInv, RequestsOK, RequestOK, Ativa, Fim
  <2> HIDE DEF s
  <2> SUFFICES ASSUME NEW y \in W, y.id = s.id
               PROVE  /\ y.status = "DRAFT"
                      /\ Fim(s) = SemFim \/ \E x \in EmVigor(W) : y.de < x.de /\ x.de = Fim(s) + 1
                      /\ \A x \in EmVigor(W), d \in Calendario :
                             y.de < x.de /\ x.de <= d /\ d <= Fim(s) => Cobre(W, x.de, d)
    BY <2>1 DEF AtivacaoOK
  <2>3. PICK z \in V : y.id = z.id /\ y.de = z.de
    BY <1>8
  <2>4. /\ z.status = "DRAFT" /\ z.id # r.id
        /\ Fim(s) = SemFim \/ \E x \in EmVigor(V) : z.de < x.de /\ x.de = Fim(s) + 1
        /\ \A x \in EmVigor(V), d \in Calendario :
               z.de < x.de /\ x.de <= d /\ d <= Fim(s) => Cobre(V, x.de, d)
    BY <2>1, <2>3 DEF AtivacaoOK, ParOK
  <2>5. y.status = "DRAFT"
    <3>1. \A u, w \in W : u.id = w.id => u = w
      BY DEF VInv, VersionsOK, W
    <3>2. z \in W
      <4>1. z # v /\ z \notin Anteriores(v)
        BY <1>1, <2>4 DEF Anteriores, Ativas
      <4>2. W = (V \ ({v} \union Anteriores(v)))
                     \union Encerrar(Anteriores(v), v.de)
                     \union {[v EXCEPT !.status = "ACTIVE", !.ate = fim]}
        <5>1. \E t \in V : /\ t.id = r.id
                           /\ W = (V \ ({t} \union Anteriores(t)))
                                    \union Encerrar(Anteriores(t), t.de)
                                    \union {[t EXCEPT !.status = "ACTIVE", !.ate = fim]}
          BY DEF Activate, V, W, r, fim, Fim
        <5> QED  BY <1>1, <1>9, <5>1
      <4> QED  BY <4>1, <4>2
    <3> QED  BY <2>3, <2>4, <3>1, <3>2
  <2>6. ASSUME NEW x \in EmVigor(V), z.de < x.de, x.de = Fim(s) + 1
        PROVE  \E n \in EmVigor(W) : y.de < n.de /\ n.de = Fim(s) + 1
    <3>1. \E n \in EmVigor(W) : n.de = x.de
      BY <1>1 DEF Entra
    <3> QED  BY <2>3, <2>6, <3>1
  <2>7. ASSUME NEW x \in EmVigor(W), NEW d \in Calendario, y.de < x.de, x.de <= d, d <= Fim(s)
        PROVE  Cobre(W, x.de, d)
    <3>1. x.de \in Nat /\ d \in Nat /\ z.de \in Nat /\ v.de \in Nat
      BY <1>1, <1>6, <1>7, FieldsOfRows DEF Datas, EmVigor
    <3>2. CASE x.de = v.de /\ x.ate = fim
      <4>1. CASE d <= fim
        BY <2>7, <3>1, <3>2, <4>1 DEF Cobre
      <4>2. CASE fim < d
        <5>1. Cobre(V, fim + 1, d)
          BY <1>1, <2>1, <2>3, <2>7, <3>2, <4>2 DEF ParOK, fim
        <5>2. v.de <= fim + 1 /\ fim + 1 \in Nat
          <6>1. d <= SemFim
            BY FieldsOfRows
          <6>2. fim # SemFim
            BY <1>6, <3>1, <4>2, <6>1
          <6> QED  BY <1>1, <1>6, <1>7, <3>1, <6>2 DEF FimOK
        <5>3. Cobre(V, v.de, d)
          BY <1>6, <3>1, <5>1, <5>2, CoveredFrom
        <5> QED  BY <1>12, <3>1, <3>2, <5>3
      <4> QED  BY <1>6, <3>1, <4>1, <4>2
    <3>3. ASSUME NEW u \in EmVigor(V), x.de = u.de PROVE Cobre(W, x.de, d)
      <4>1. Cobre(V, x.de, d)
        BY <2>3, <2>4, <2>7, <3>3
      <4> QED  BY <1>12, <3>1, <4>1
    <3> QED  BY <1>1, <1>6, <3>2, <3>3, NewInForce
  <2> QED  BY <2>4, <2>5, <2>6, <2>7
<1>14. ASSUME NEW q \in Processos, NEW t \in Processos, q # t,
              Ativa(processos'[q]), Ativa(processos'[t])
       PROVE  ParOK(W, processos'[q], processos'[t])
  <2> DEFINE a == processos[q]
             b == processos[t]
  <2>1. processos'[q] = a /\ processos'[t] = b /\ Ativa(a) /\ ParOK(V, a, b)
    BY <1>2, <1>3, <1>14 DEF CInv, V
  <2>2. Fim(a) + 1 \in Nat
    <3>1. Fim(a) \in Nat
      BY <2>1, FimIsDay DEF VInv, RequestsOK, RequestOK, Ativa, Fim
    <3> QED  BY <3>1
  <2> HIDE DEF a, b
  <2> SUFFICES ASSUME NEW x \in W, NEW y \in W, NEW d \in Calendario, x.id = a.id, y.id = b.id,
                      y.de < x.de, Fim(a) < d, d <= Fim(b)
               PROVE  Cobre(W, Fim(a) + 1, d)
    BY <2>1 DEF ParOK
  <2>3. PICK u, w \in V : x.id = u.id /\ x.de = u.de /\ y.id = w.id /\ y.de = w.de
    BY <1>8
  <2>4. Cobre(V, Fim(a) + 1, d)
    BY <2>1, <2>3 DEF ParOK
  <2> QED  BY <1>12, <2>2, <2>4
<1> QED  BY <1>2, <1>11, <1>13, <1>14 DEF CInv, W


LEMMA PreparedLeavesNoGap ==
    ASSUME RuleVersionsAssumption, VInv, CInv, NEW p \in Processos, NEW v \in versoes, Prepare(p, v)
    PROVE  CInv'
<1> DEFINE r == processos'[p]
           fim == Fim(r)
           V == versoes
<1>1. /\ r.op = "activate" /\ r.id = v.id /\ r.proxima = Proxima(v)
      /\ r.travas = {v.id} \union {w.id : w \in Proxima(v)}
      /\ \A q \in Processos \ {p} : processos'[q] = processos[q]
      /\ versoes' = versoes /\ especie' = especie /\ especie # "excecao"
      /\ v.status = "DRAFT" /\ v.id \notin Travadas(p)
      /\ \A w \in Proximas(v) : w.de # v.de
  BY DEF Prepare, VInv, RequestsOK
<1>2. V \in SUBSET Versao /\ Datas(V) /\ (\A w, y \in V : w.id = y.id => w = y)
  BY RowDates DEF VInv, VersionsOK
<1>3. \A x \in V : x.de \in Nat
  BY <1>2 DEF Datas
<1>4. Proxima(v) \in SUBSET Versao /\ Proximas(v) = {w \in EmVigor(V) : w.de >= v.de}
      /\ Proxima(v) = {w \in Proximas(v) : \A x \in Proximas(v) : w.de <= x.de}
  BY <1>2 DEF Proxima, Proximas, Ativas, EmVigor
<1>5. fim \in Nat
  BY <1>1, <1>4, FimIsDay DEF Fim
<1>6. IF Proximas(v) = {} THEN fim = SemFim
      ELSE \E w \in Proximas(v) : fim = w.de - 1 /\ \A x \in Proximas(v) : w.de <= x.de
  <2>1. CASE Proximas(v) = {}
    <3>1. Proxima(v) = {}
      BY <1>4, <2>1
    <3> QED  BY <1>1, <2>1, <3>1 DEF Fim, FimAte
  <2>2. CASE Proximas(v) # {}
    <3> DEFINE T == {w.de : w \in Proximas(v)}
    <3>1. T \in SUBSET Nat /\ T # {}
      BY <1>3, <1>4, <2>2 DEF EmVigor
    <3>2. PICK n \in T : \A k \in T : n <= k
      <4> HIDE DEF T
      <4> QED  BY <3>1, SmallestOf
    <3>3. PICK w \in Proximas(v) : w.de = n
      OBVIOUS
    <3>4. \A x \in Proximas(v) : w.de <= x.de
      BY <3>2, <3>3
    <3>5. Proxima(v) # {}
      BY <1>4, <3>4
    <3>6. PICK y \in Proxima(v) : FimAte(Proxima(v)) = y.de - 1
      BY <3>5 DEF FimAte
    <3> QED  BY <1>1, <1>4, <2>2, <3>6 DEF Fim
  <2> QED  BY <2>1, <2>2
<1>7. \A x \in EmVigor(V) : x \in V /\ (v.de <= x.de => v.de < x.de /\ fim < x.de)
  <2> SUFFICES ASSUME NEW x \in EmVigor(V), v.de <= x.de PROVE v.de < x.de /\ fim < x.de
    BY DEF EmVigor
  <2>1. x \in Proximas(v) /\ v.de \in Nat /\ x.de \in Nat
    BY <1>3, <1>4 DEF EmVigor
  <2>2. PICK w \in Proximas(v) : fim = w.de - 1 /\ w.de <= x.de
    BY <1>6, <2>1
  <2>3. w.de \in Nat
    BY <1>3, <1>4 DEF EmVigor
  <2> QED  BY <1>1, <2>1, <2>2, <2>3
<1>8. fim = SemFim \/ \E x \in EmVigor(V) : v.de < x.de /\ x.de = fim + 1
  <2> SUFFICES ASSUME NEW w \in Proximas(v), fim = w.de - 1
               PROVE  \E x \in EmVigor(V) : v.de < x.de /\ x.de = fim + 1
    BY <1>6
  <2>1. w \in EmVigor(V) /\ v.de <= w.de /\ w.de \in Nat /\ v.de \in Nat
    BY <1>3, <1>4 DEF EmVigor
  <2>2. w.de = fim + 1
    BY <2>1
  <2> QED  BY <1>7, <2>1, <2>2
<1> HIDE DEF r, fim, V
<1>9. AtivacaoOK(V, r)
  <2>1. \A w \in V : w.id = r.id => w = v
    BY <1>1, <1>2 DEF V
  <2>2. ASSUME NEW x \in EmVigor(V), NEW d \in Calendario, v.de < x.de, x.de <= d, d <= fim PROVE FALSE
    <3>1. fim < x.de /\ x.de \in Nat /\ v.de \in Nat /\ d \in Nat
      BY <1>3, <1>7, <2>2, FieldsOfRows DEF V
    <3> QED  BY <1>5, <2>2, <3>1
  <2> QED  BY <1>1, <1>8, <2>1, <2>2 DEF AtivacaoOK, fim
<1>10. ASSUME NEW q \in Processos \ {p}, Ativa(processos[q])
       PROVE  ParOK(V, r, processos[q]) /\ ParOK(V, processos[q], r)
  <2> DEFINE s == processos[q]
  <2>1. AtivacaoOK(V, s) /\ Ativa(s) /\ s # Livre
    BY <1>1, <1>10 DEF CInv, V, Ativa, Livre
  <2>2. Fim(s) \in Nat
    BY <2>1, FimIsDay DEF VInv, RequestsOK, RequestOK, Ativa, Fim
  <2>3. r.id # s.id
    <3>1. s.id \in Travadas(p)
      BY <2>1 DEF AtivacaoOK, Travadas
    <3> QED  BY <1>1, <3>1
  <2> HIDE DEF s
  <2>4. ASSUME NEW x \in V, NEW y \in V, NEW d \in Calendario, x.id = r.id, y.id = s.id,
               y.de < x.de, fim < d, d <= Fim(s)
        PROVE  Cobre(V, fim + 1, d)
    <3>1. x = v /\ d \in Nat /\ d <= SemFim /\ SemFim \in Nat /\ y.de \in Nat /\ v.de \in Nat
      BY <1>1, <1>2, <1>3, <2>4, FieldsOfRows DEF V
    <3>2. PICK w \in EmVigor(V) : v.de < w.de /\ w.de = fim + 1
      BY <1>5, <1>8, <2>4, <3>1
    <3>3. y.de < w.de /\ w.de <= d
      BY <1>5, <2>4, <3>1, <3>2
    <3>4. Cobre(V, w.de, d)
      BY <2>1, <2>4, <3>3 DEF AtivacaoOK
    <3> QED  BY <3>2, <3>4
  <2>5. ASSUME NEW x \in V, NEW y \in V, NEW d \in Calendario, x.id = s.id, y.id = r.id,
               y.de < x.de, Fim(s) < d, d <= fim
        PROVE  FALSE
    <3>1. y = v /\ d \in Nat /\ d <= SemFim /\ SemFim \in Nat /\ x.de \in Nat /\ v.de \in Nat
      BY <1>1, <1>2, <1>3, <2>5, FieldsOfRows DEF V
    <3>2. PICK w \in EmVigor(V) : x.de < w.de /\ w.de = Fim(s) + 1
      BY <2>1, <2>2, <2>5, <3>1 DEF AtivacaoOK
    <3>3. v.de <= w.de
      BY <2>2, <2>5, <3>1, <3>2
    <3>4. fim < w.de
      BY <1>7, <3>3
    <3> QED  BY <1>5, <2>2, <2>5, <3>1, <3>2, <3>4
  <2>6. ParOK(V, r, s)
    BY <2>3, <2>4 DEF ParOK, fim
  <2>7. ParOK(V, s, r)
    BY <2>3, <2>5 DEF ParOK, fim
  <2> QED  BY <2>6, <2>7 DEF s
<1>11. SemLacuna(V) /\ versoes' = V
  BY <1>1 DEF CInv, V
<1>12. ASSUME NEW q \in Processos, Ativa(processos'[q]) PROVE AtivacaoOK(V, processos'[q])
  BY <1>1, <1>9, <1>12 DEF CInv, V, r
<1>13. ASSUME NEW q \in Processos, NEW t \in Processos, q # t,
              Ativa(processos'[q]), Ativa(processos'[t])
       PROVE  ParOK(V, processos'[q], processos'[t])
  <2>1. CASE q = p
    BY <1>1, <1>10, <1>13, <2>1 DEF r
  <2>2. CASE t = p
    BY <1>1, <1>10, <1>13, <2>2 DEF r
  <2>3. CASE q # p /\ t # p
    BY <1>1, <1>13, <2>3 DEF CInv, V
  <2> QED  BY <2>1, <2>2, <2>3
<1> QED  BY <1>11, <1>12, <1>13 DEF CInv

LEMMA DraftLeavesNoGap ==
    ASSUME RuleVersionsAssumption, VInv, CInv, NEW de \in Calendario, CreateDraft(de)
    PROVE  CInv' /\ EmVigor(versoes') = EmVigor(versoes)
<1> DEFINE novo == Rascunho(de)
           V == versoes
           W == versoes'
<1>1. W = V \union {novo} /\ novo.status = "DRAFT" /\ novo.id = Cardinality(V) + 1
      /\ UNCHANGED <<especie, processos>> /\ especie # "excecao"
  BY DEF CreateDraft, Rascunho, NovoId
<1>2. \A v \in V : v.id # novo.id
  <2>1. Cardinality(V) \in Nat /\ \A v \in V : v.id \in 1..Cardinality(V)
    BY FS_CardinalityType DEF VInv, VersionsOK
  <2> QED  BY <1>1, <2>1
<1> HIDE DEF novo
<1>3. EmVigor(W) = EmVigor(V)
  BY <1>1 DEF EmVigor
<1>4. \A a, d : Cobre(W, a, d) <=> Cobre(V, a, d)
  BY <1>3 DEF Cobre
<1>5. ASSUME NEW q \in Processos, Ativa(processos[q]) PROVE \A w \in W : w.id = processos[q].id => w \in V
  <2>1. processos[q].id \in {v.id : v \in V}
    BY <1>5 DEF VInv, RequestsOK, RequestOK, Ativa
  <2> QED  BY <1>1, <1>2, <2>1
<1>6. SemLacuna(V) /\ \A q \in Processos : Ativa(processos[q]) => AtivacaoOK(V, processos[q])
  BY <1>1 DEF CInv
<1>7. \A q, t \in Processos : q # t /\ Ativa(processos[q]) /\ Ativa(processos[t])
          => ParOK(V, processos[q], processos[t])
  BY <1>1 DEF CInv
<1> HIDE DEF V, W
<1>8. SemLacuna(W)
  BY <1>3, <1>4, <1>6 DEF SemLacuna
<1>9. ASSUME NEW q \in Processos, Ativa(processos[q]) PROVE AtivacaoOK(W, processos[q])
  BY <1>3, <1>4, <1>5, <1>6, <1>9 DEF AtivacaoOK
<1>10. ASSUME NEW q \in Processos, NEW t \in Processos, q # t, Ativa(processos[q]), Ativa(processos[t])
       PROVE  ParOK(W, processos[q], processos[t])
  BY <1>4, <1>5, <1>7, <1>10 DEF ParOK
<1>11. CInv'
  BY <1>1, <1>8, <1>9, <1>10 DEF CInv, W
<1> QED  BY <1>3, <1>11 DEF V, W


LEMMA Gaps ==
    ASSUME RuleVersionsAssumption, VInv, VInv', CInv, [RulesNext]_regrasVars
    PROVE  CInv' /\ \A d \in Calendario : Cobre(versoes, 1, d) => Cobre(versoes', 1, d)
<1>1. ASSUME NEW de \in Calendario, CreateDraft(de)
      PROVE  CInv' /\ \A d \in Calendario : Cobre(versoes, 1, d) => Cobre(versoes', 1, d)
  <2>1. CInv' /\ EmVigor(versoes') = EmVigor(versoes)
    BY <1>1, DraftLeavesNoGap
  <2> QED  BY <2>1 DEF Cobre
<1>2. ASSUME NEW p \in Processos, NEW v \in versoes, Prepare(p, v)
      PROVE  CInv' /\ versoes' = versoes
  <2>1. versoes' = versoes
    BY <1>2 DEF Prepare
  <2> QED  BY <1>2, <2>1, PreparedLeavesNoGap
<1>3. ASSUME NEW p \in Processos, Activate(p)
      PROVE  CInv' /\ \A d \in Calendario : Cobre(versoes, 1, d) => Cobre(versoes', 1, d)
  <2>1. CInv'
    BY <1>3, ActivationLeavesNoGap
  <2>2. PICK v \in versoes : /\ Entra(versoes, versoes', v, Fim(processos[p]))
                             /\ FimOK(versoes, v, Fim(processos[p]))
    BY <1>3, ActivationEnters
  <2>3. Datas(versoes) /\ Datas(versoes')
    BY RowDates DEF VInv, VersionsOK
  <2>4. SemLacuna(versoes)
    BY <1>3 DEF CInv, Activate, VInv, RequestsOK, RequestOK
  <2>5. \A d \in Calendario : Cobre(versoes, 1, d) => Cobre(versoes', 1, d)
    BY <2>2, <2>3, <2>4, StaysCovered
  <2> QED  BY <2>1, <2>5
<1>4. ASSUME NEW p \in Processos,
             (\E de \in Calendario : PreparePolicy(p, de)) \/ CreatePolicy(p)
      PROVE  CInv'
  BY <1>4 DEF PreparePolicy, CreatePolicy, VInv, RequestsOK, RequestOK, CInv
<1>5. ASSUME NEW p \in Processos, Abort(p) PROVE CInv'
  <2>1. /\ UNCHANGED <<especie, versoes>> /\ processos'[p] = Livre
        /\ \A q \in Processos \ {p} : processos'[q] = processos[q]
    BY <1>5 DEF Abort, VInv, RequestsOK
  <2>2. \A q \in Processos : Ativa(processos'[q]) => q # p /\ processos'[q] = processos[q]
    BY <2>1 DEF Ativa, Livre
  <2> QED  BY <2>1, <2>2 DEF CInv
<1>6. ASSUME Midnight \/ UNCHANGED regrasVars PROVE CInv' /\ versoes' = versoes
  <2>1. UNCHANGED <<especie, versoes, processos>>
    BY <1>6 DEF Midnight, regrasVars
  <2> QED  BY <2>1 DEF CInv
<1>7. ASSUME NEW p \in Processos, (\E de \in Calendario : PreparePolicy(p, de)) \/ Abort(p)
      PROVE  versoes' = versoes
  BY <1>7 DEF PreparePolicy, Abort
<1>8. ASSUME NEW p \in Processos, CreatePolicy(p)
      PROVE  \A d \in Calendario : Cobre(versoes, 1, d) => Cobre(versoes', 1, d)
  BY <1>8, PolicyEnters
<1> QED
  BY <1>1, <1>2, <1>3, <1>4, <1>5, <1>6, <1>7, <1>8 DEF RulesNext

\* For any calendar, any number of versions and any number of activations that
\* wait together: no day that has a rule is left without one (activate
\* of CommissionRuleSetManager and CommissionStrategyConfigManager, and a new
\* policy of CommissionBeneficiaryPolicyManager).
THEOREM NoDayIsUncovered ==
    ASSUME RuleVersionsAssumption
    PROVE  RulesSpec => NeverUncovered
<1>1. RulesInit => CInv
  BY DEF RulesInit, CInv, SemLacuna, EmVigor, Ativa, Livre
<1>2. VInv /\ VInv' /\ CInv /\ [RulesNext]_regrasVars => CInv'
  BY Gaps
<1> DEFINE CoveredDays ==
              versoes \subseteq Versao
                  => \A dia \in Calendario : RegraEm(dia) # {} <=> Cobre(versoes, 1, dia)
<1>3. CoveredDays
  BY RuleWhereCovered
<1>4. CoveredDays'
  BY <1>3, PTL
<1>5. ASSUME VInv, VInv', CInv, [RulesNext]_regrasVars, NEW dia \in Calendario, RegraEm(dia) # {}
      PROVE  RegraEm(dia)' # {}
  <2>1. Cobre(versoes, 1, dia)
    BY <1>5, RuleWhereCovered DEF VInv, VersionsOK
  <2>2. Cobre(versoes', 1, dia)
    BY <1>5, <2>1, Gaps
  <2>3. versoes' \subseteq Versao
    BY <1>5 DEF VInv, VersionsOK
  <2> QED  BY <1>4, <1>5, <2>2, <2>3
<1>6. VInv /\ VInv' /\ CInv /\ [RulesNext]_regrasVars
          => [\A dia \in Calendario : RegraEm(dia) # {} => RegraEm(dia)' # {}]_regrasVars
  BY <1>5
<1> QED
  BY <1>1, <1>2, <1>6, RequestsStayCurrent, PTL DEF RulesSpec, NeverUncovered

-----------------------------------------------------------------------------
(***************************************************************************)
(* One row of commission_settlements.                                      *)
(***************************************************************************)

\* The derived columns of a row agree with the others.
Balanced(row) ==
    /\ row.discount = row.manualDiscount + row.reversalDiscount
    /\ row.payable = NonNegative(Balance(row))
    /\ row.status = StatusFor(row.deferred, row.payable, row.paid)

RowOK(row) ==
    /\ row \in SettlementRow
    /\ Exists(row) => Balanced(row)
    /\ ~Exists(row) => row.paid = 0
    /\ row.payable > 0 => row.reversalCarryover = 0

LEMMA ApplyColumns ==
    ASSUME NEW row \in SettlementRow, NEW new, new = ApplyReversalDiscount(row)
    PROVE  /\ new \in SettlementRow
           /\ new = [row EXCEPT !.reversalDiscount = new.reversalDiscount,
                                !.reversalCarryover = new.reversalCarryover,
                                !.discount = new.discount]
           /\ new.reversalDiscount = Lesser(Debt(row), Available(row))
           /\ Debt(new) = Debt(row)
           /\ new.discount = new.manualDiscount + new.reversalDiscount
<1> DEFINE absorbed == Lesser(Debt(row), Available(row))
<1>1. /\ Available(row) \in Nat
      /\ Debt(row) \in Nat
      /\ row.manualDiscount \in Nat
  BY DEF SettlementRow, NonNegative, Available, Earned, Debt
<1>2. absorbed \in Nat /\ absorbed <= Debt(row)
  BY <1>1 DEF Lesser
<1>3. NonNegative(Debt(row) - absorbed) = Debt(row) - absorbed
  BY <1>1, <1>2 DEF NonNegative
<1>4. new = [row EXCEPT !.reversalDiscount = absorbed,
                        !.reversalCarryover = Debt(row) - absorbed,
                        !.discount = row.manualDiscount + absorbed]
  BY <1>3 DEF ApplyReversalDiscount
<1> HIDE DEF absorbed
<1>5. /\ new.reversalDiscount = absorbed
      /\ new.reversalCarryover = Debt(row) - absorbed
      /\ new.discount = row.manualDiscount + absorbed
      /\ new.manualDiscount = row.manualDiscount
  BY <1>4 DEF SettlementRow
<1>6. new \in SettlementRow
  <2>1. Debt(row) - absorbed \in Nat /\ row.manualDiscount + absorbed \in Nat
    BY <1>1, <1>2
  <2> QED
    BY <1>2, <1>4, <2>1 DEF SettlementRow
<1>7. new = [row EXCEPT !.reversalDiscount = new.reversalDiscount,
                        !.reversalCarryover = new.reversalCarryover,
                        !.discount = new.discount]
  BY <1>4, <1>5
<1>8. Debt(new) = Debt(row)
  BY <1>1, <1>2, <1>5 DEF Debt
<1>9. QED
  BY <1>5, <1>6, <1>7, <1>8 DEF absorbed

LEMMA RecalculateColumns ==
    ASSUME NEW row \in SettlementRow, NEW new, new = Recalculate(row)
    PROVE  /\ new \in SettlementRow
           /\ new = [row EXCEPT !.payable = new.payable, !.status = new.status]
           /\ new.payable = NonNegative(Balance(new))
           /\ new.status = StatusFor(new.deferred, new.payable, new.paid)
           /\ new.status \in SettlementStatus
<1> DEFINE payable == NonNegative(Balance(row))
           status == StatusFor(row.deferred, payable, row.paid)
<1>1. payable \in Nat
  BY DEF SettlementRow, NonNegative, Balance, Earned
<1>2. status \in SettlementStatus
  BY DEF StatusFor, SettlementStatus
<1>3. new = [row EXCEPT !.payable = payable, !.status = status]
  BY DEF Recalculate
<1> HIDE DEF payable, status
<1>4. /\ new.payable = payable /\ new.status = status
      /\ new.deferred = row.deferred /\ new.paid = row.paid
  BY <1>3 DEF SettlementRow
<1>5. new \in SettlementRow
  BY <1>1, <1>2, <1>3 DEF SettlementRow
<1>6. Balance(new) = Balance(row)
  BY <1>3 DEF SettlementRow, Balance, Earned
<1>7. QED
  BY <1>2, <1>3, <1>4, <1>5, <1>6 DEF payable, status

\* Applying the debt and recalculating leaves a row that is right, whatever was
\* written in its other columns.
LEMMA FinishedRow ==
    ASSUME NEW row \in SettlementRow,
           NEW new, new = Recalculate(ApplyReversalDiscount(row))
    PROVE  /\ RowOK(new)
           /\ Exists(new)
           /\ Debt(new) = Debt(row)
           /\ new = [row EXCEPT !.reversalDiscount = new.reversalDiscount,
                                !.reversalCarryover = new.reversalCarryover,
                                !.discount = new.discount,
                                !.payable = new.payable, !.status = new.status]
<1> DEFINE mid == ApplyReversalDiscount(row)
<1>1. /\ mid \in SettlementRow
      /\ mid = [row EXCEPT !.reversalDiscount = mid.reversalDiscount,
                           !.reversalCarryover = mid.reversalCarryover,
                           !.discount = mid.discount]
      /\ mid.reversalDiscount = Lesser(Debt(row), Available(row))
      /\ Debt(mid) = Debt(row)
      /\ mid.discount = mid.manualDiscount + mid.reversalDiscount
  BY ApplyColumns
<1>2. new = Recalculate(mid)
  OBVIOUS
<1> HIDE DEF mid
<1>3. /\ new \in SettlementRow
      /\ new = [mid EXCEPT !.payable = new.payable, !.status = new.status]
      /\ new.payable = NonNegative(Balance(new))
      /\ new.status = StatusFor(new.deferred, new.payable, new.paid)
      /\ new.status \in SettlementStatus
  BY <1>1, <1>2, RecalculateColumns
<1>4. /\ new.reversalDiscount = mid.reversalDiscount
      /\ new.reversalCarryover = mid.reversalCarryover
      /\ new.discount = mid.discount
      /\ new.manualDiscount = mid.manualDiscount
  BY <1>1, <1>3 DEF SettlementRow
<1>5. Exists(new) /\ Balanced(new)
  BY <1>1, <1>3, <1>4 DEF Exists, Balanced, SettlementStatus
<1>6. Debt(new) = Debt(row)
  BY <1>1, <1>4 DEF Debt
<1>7. new = [row EXCEPT !.reversalDiscount = new.reversalDiscount,
                        !.reversalCarryover = new.reversalCarryover,
                        !.discount = new.discount,
                        !.payable = new.payable, !.status = new.status]
  BY <1>1, <1>3, <1>4 DEF SettlementRow
<1>8. /\ Available(new) = Available(row)
      /\ Balance(new) = Earned(new) - new.manualDiscount - new.deferred - new.paid
                            - new.reversalDiscount
  <2>1. /\ new.gross = row.gross /\ new.carryover = row.carryover /\ new.bonus = row.bonus
        /\ new.manualDiscount = row.manualDiscount
        /\ new.deferred = row.deferred /\ new.paid = row.paid
    BY <1>7 DEF SettlementRow
  <2>2. /\ new.gross \in Nat /\ new.carryover \in Nat /\ new.bonus \in Nat
        /\ new.manualDiscount \in Nat /\ new.reversalDiscount \in Nat
        /\ new.deferred \in Nat /\ new.paid \in Nat
    BY <1>3 DEF SettlementRow
  <2>3. Available(new) = Available(row)
    BY <2>1 DEF Available, Earned
  <2>4. new.discount = new.manualDiscount + new.reversalDiscount
    BY <1>1, <1>4
  <2> QED
    BY <2>2, <2>3, <2>4 DEF Earned, Balance
<1>9. new.payable > 0 => new.reversalCarryover = 0
  <2> SUFFICES ASSUME new.payable > 0 PROVE new.reversalCarryover = 0
    OBVIOUS
  <2>1. /\ Available(new) \in Nat /\ Debt(new) \in Nat
        /\ new.reversalDiscount \in Nat /\ new.reversalCarryover \in Nat
    BY <1>3 DEF SettlementRow, Available, NonNegative, Earned, Debt
  <2>2. new.reversalDiscount < Available(new)
    BY <1>3, <1>8, <2>1 DEF NonNegative, Available, SettlementRow, Earned
  <2>3. new.reversalDiscount = Lesser(Debt(new), Available(new))
    BY <1>1, <1>4, <1>6, <1>8
  <2>4. new.reversalDiscount = Debt(new)
    BY <2>1, <2>2, <2>3 DEF Lesser
  <2> QED
    BY <2>1, <2>4 DEF Debt
<1>10. QED
  BY <1>3, <1>5, <1>6, <1>7, <1>9 DEF RowOK

LEMMA GeneratedEffect ==
    ASSUME NEW row \in SettlementRow, NEW sums \in Sums,
           NEW carryover \in Nat, NEW debt \in Nat,
           NEW new, new = Generated(row, sums, carryover, debt)
    PROVE  /\ RowOK(new) /\ Exists(new)
           /\ Debt(new) = debt
           /\ new.paid = row.paid
           /\ new.deferred = row.deferred
<1> DEFINE bonus == IF sums.bonus > 0 THEN sums.bonus ELSE row.bonus
           base == [row EXCEPT !.gross = sums.gross, !.carryover = carryover,
                               !.bonus = bonus, !.reversalDiscount = 0,
                               !.reversalCarryover = debt]
<1>1. bonus \in Nat /\ sums.gross \in Nat
  BY DEF SettlementRow, Sums
<1>2. new = Recalculate(ApplyReversalDiscount(base))
  BY DEF Generated
<1> HIDE DEF bonus
<1>3. base \in SettlementRow
  BY <1>1 DEF SettlementRow
<1>4. Debt(base) = debt /\ base.paid = row.paid /\ base.deferred = row.deferred
  BY DEF Debt, SettlementRow
<1> HIDE DEF base
<1>5. /\ RowOK(new) /\ Exists(new) /\ Debt(new) = Debt(base)
      /\ new.paid = base.paid /\ new.deferred = base.deferred
  <2>1. /\ RowOK(new) /\ Exists(new) /\ Debt(new) = Debt(base)
        /\ new = [base EXCEPT !.reversalDiscount = new.reversalDiscount,
                              !.reversalCarryover = new.reversalCarryover,
                              !.discount = new.discount,
                              !.payable = new.payable, !.status = new.status]
    BY <1>2, <1>3, FinishedRow
  <2> QED
    BY <1>3, <2>1 DEF SettlementRow
<1> QED
  BY <1>4, <1>5

LEMMA AdjustedEffect ==
    ASSUME NEW row \in SettlementRow,
           NEW bonus \in Nat, NEW discount \in Nat, NEW deferred \in Nat,
           NEW new, new = Adjusted(row, bonus, discount, deferred)
    PROVE  /\ RowOK(new) /\ Exists(new)
           /\ Debt(new) = Debt(row)
           /\ new.paid = row.paid
<1> DEFINE base == [row EXCEPT !.bonus = bonus, !.manualDiscount = discount,
                               !.deferred = deferred]
<1>1. new = Recalculate(ApplyReversalDiscount(base))
  BY DEF Adjusted
<1>2. base \in SettlementRow
  BY DEF SettlementRow
<1>3. Debt(base) = Debt(row) /\ base.paid = row.paid
  BY DEF Debt, SettlementRow
<1> HIDE DEF base
<1>4. /\ RowOK(new) /\ Exists(new) /\ Debt(new) = Debt(base)
      /\ new.paid = base.paid
  <2>1. /\ RowOK(new) /\ Exists(new) /\ Debt(new) = Debt(base)
        /\ new = [base EXCEPT !.reversalDiscount = new.reversalDiscount,
                              !.reversalCarryover = new.reversalCarryover,
                              !.discount = new.discount,
                              !.payable = new.payable, !.status = new.status]
    BY <1>1, <1>2, FinishedRow
  <2> QED
    BY <1>2, <2>1 DEF SettlementRow
<1> QED
  BY <1>3, <1>4

LEMMA PaidEffect ==
    ASSUME NEW row, RowOK(row), NEW amount \in Nat, CanPay(row, amount),
           NEW new, new = PaidWith(row, amount)
    PROVE  /\ RowOK(new) /\ Exists(new)
           /\ Debt(new) = Debt(row)
           /\ new = [row EXCEPT !.paid = new.paid, !.payable = new.payable,
                                !.status = new.status]
           /\ new.paid = row.paid + amount
           /\ new.payable = row.payable - amount
<1> DEFINE base == [row EXCEPT !.paid = row.paid + amount]
<1>1. row \in SettlementRow /\ Exists(row) /\ Balanced(row)
  BY DEF RowOK, CanPay
<1>2. new = Recalculate(base)
  BY DEF PaidWith
<1>3. base \in SettlementRow
  BY <1>1 DEF SettlementRow
<1> HIDE DEF base
<1>4. /\ new \in SettlementRow
      /\ new = [base EXCEPT !.payable = new.payable, !.status = new.status]
      /\ new.payable = NonNegative(Balance(new))
      /\ new.status = StatusFor(new.deferred, new.payable, new.paid)
      /\ new.status \in SettlementStatus
  BY <1>2, <1>3, RecalculateColumns
<1>5. new.paid = row.paid + amount
  BY <1>1, <1>4 DEF base, SettlementRow
<1>6. new = [row EXCEPT !.paid = new.paid, !.payable = new.payable, !.status = new.status]
  BY <1>1, <1>4, <1>5 DEF base, SettlementRow
<1>7. /\ new.gross = row.gross /\ new.carryover = row.carryover /\ new.bonus = row.bonus
      /\ new.manualDiscount = row.manualDiscount /\ new.discount = row.discount
      /\ new.reversalDiscount = row.reversalDiscount
      /\ new.reversalCarryover = row.reversalCarryover
      /\ new.deferred = row.deferred
  BY <1>1, <1>6 DEF SettlementRow
<1>8. /\ row.gross \in Nat /\ row.carryover \in Nat /\ row.bonus \in Nat
      /\ row.discount \in Nat /\ row.deferred \in Nat /\ row.paid \in Nat
      /\ row.payable \in Nat /\ new.payable \in Nat
  BY <1>1, <1>4 DEF SettlementRow
<1>9. Balance(new) = Balance(row) - amount /\ Balance(row) \in Int
  BY <1>5, <1>7, <1>8 DEF Balance, Earned
<1>10. row.payable = Balance(row) /\ amount <= row.payable /\ 0 < amount
  BY <1>1, <1>9 DEF Balanced, NonNegative, CanPay
<1>11. new.payable = row.payable - amount
  BY <1>4, <1>9, <1>10 DEF NonNegative
<1>12. Exists(new) /\ Balanced(new)
  BY <1>1, <1>4, <1>7 DEF Balanced, Exists, SettlementStatus
<1>13. new.payable > 0 => new.reversalCarryover = 0
  BY <1>7, <1>8, <1>10, <1>11 DEF RowOK
<1>14. Debt(new) = Debt(row)
  BY <1>7 DEF Debt
<1> QED
  BY <1>4, <1>5, <1>6, <1>11, <1>12, <1>13, <1>14 DEF RowOK

-----------------------------------------------------------------------------
(***************************************************************************)
(* The inductive invariant.                                                *)
(***************************************************************************)

RowsOK == \A b \in Beneficiaries, w \in Windows : RowOK(settlements[b][w])

IInv == TypeOK /\ RowsOK

LEMMA InitIInv == Init => IInv
<1> SUFFICES ASSUME Init PROVE IInv
  OBVIOUS
<1>1. NoSettlement \in SettlementRow
  BY DEF NoSettlement, SettlementRow
<1>2. RowOK(NoSettlement)
  BY <1>1 DEF RowOK, Exists, NoSettlement
<1>3. NoPeriod \in PeriodRow
  BY DEF NoPeriod, PeriodRow
<1>4. NoSums \in Sums
  BY DEF NoSums, Sums
<1>5. today \in Days
  BY CalendarAssumption DEF Init, Days
<1> QED
  BY <1>1, <1>2, <1>3, <1>4, <1>5 DEF Init, IInv, TypeOK, RowsOK

LEMMA NumbersAreNat ==
    /\ Amounts \subseteq Nat
    /\ Adjustments \subseteq Nat
    /\ Days \subseteq Nat
    /\ Cutoffs \subseteq Days
BY AmountsAssumption, AdjustmentsAssumption, CalendarAssumption, CutoffsAssumption DEF Days

\* The ledger keeps its shape when an entry is added.
LEMMA EnteredType ==
    ASSUME TypeOK, NEW b \in Beneficiaries, NEW d, NEW entry \in Sums,
           ledger' = Entered(b, d, entry)
    PROVE  ledger' \in [Beneficiaries -> [Windows -> Sums]]
<1>1. \A w \in Windows : Plus(ledger[b][w], entry) \in Sums
  BY DEF TypeOK, Plus, Sums
<1>2. [w \in Windows |-> IF Covers(w, d) THEN Plus(ledger[b][w], entry) ELSE ledger[b][w]]
        \in [Windows -> Sums]
  BY <1>1 DEF TypeOK
<1> QED
  BY <1>2 DEF TypeOK, Entered

LEMMA EntriesAreSums ==
    ASSUME NEW amount \in Nat
    PROVE  Credit(amount) \in Sums /\ Debit(amount) \in Sums /\ Bonus(amount) \in Sums
BY DEF Credit, Debit, Bonus, Sums

\* One row replaced by another that is right.
LEMMA RowReplaced ==
    ASSUME IInv, NEW b \in Beneficiaries, NEW w \in Windows, NEW row, RowOK(row),
           settlements' = [settlements EXCEPT ![b][w] = row],
           UNCHANGED <<today, ledger, manualKeys, periods>>
    PROVE  IInv'
<1>1. row \in SettlementRow
  BY DEF RowOK
<1>2. settlements' \in [Beneficiaries -> [Windows -> SettlementRow]]
  BY <1>1 DEF IInv, TypeOK
<1>3. \A c \in Beneficiaries, v \in Windows :
        settlements'[c][v] = IF c = b /\ v = w THEN row ELSE settlements[c][v]
  BY DEF IInv, TypeOK
<1> QED
  BY <1>2, <1>3 DEF IInv, TypeOK, RowsOK

LEMMA PreviousTyped ==
    ASSUME TypeOK, NEW b \in Beneficiaries, NEW w \in Windows,
           NEW previous \in PreviousRows(b, w)
    PROVE  /\ previous \in SettlementRow
           /\ previous.reversalCarryover \in Nat
           /\ Carryover(previous) \in Nat
<1>1. NoSettlement \in SettlementRow
  BY DEF NoSettlement, SettlementRow
<1>2. previous \in SettlementRow
  BY <1>1 DEF PreviousRows, LatestBefore, Before, TypeOK
<1> QED
  BY <1>2 DEF SettlementRow, Carryover

\* What one row becomes in a generation.
GenerationStep(b, w, new) ==
    LET old == settlements[b][w]
    IN  \/ new = old
        \/ /\ old.status # "PAID"
           /\ Exists(new)
           /\ new.paid = old.paid
           /\ \E previous \in PreviousRows(b, w) :
                Debt(new) = ledger[b][w].reversal + previous.reversalCarryover

LEMMA GeneratedRowsEffect ==
    ASSUME IInv, NEW b \in Beneficiaries, NEW w \in Windows,
           NEW new \in GeneratedRows(settlements[b][w], b, w)
    PROVE  RowOK(new) /\ GenerationStep(b, w, new)
<1> DEFINE old == settlements[b][w]
<1>1. RowOK(old) /\ old \in SettlementRow /\ ledger[b][w] \in Sums
  BY DEF IInv, RowsOK, TypeOK
<1>2. PICK previous \in PreviousRows(b, w), deferring \in PreviousRows(b, w) :
        new = IF Concerned(b, w, previous) /\ old.status # "PAID"
              THEN Generated(old, ledger[b][w], Carryover(deferring),
                             ledger[b][w].reversal + previous.reversalCarryover)
              ELSE old
  BY DEF GeneratedRows
<1>3. CASE Concerned(b, w, previous) /\ old.status # "PAID"
  <2> DEFINE debt == ledger[b][w].reversal + previous.reversalCarryover
             carryover == Carryover(deferring)
             sums == ledger[b][w]
  <2>1. debt \in Nat /\ carryover \in Nat
    BY <1>1, PreviousTyped DEF IInv, Sums
  <2>2. new = Generated(old, sums, carryover, debt)
    BY <1>2, <1>3
  <2>3. sums \in Sums
    BY <1>1
  <2> HIDE DEF debt, carryover, old, sums
  <2>4. RowOK(new) /\ Exists(new) /\ Debt(new) = debt /\ new.paid = old.paid
    BY <1>1, <2>1, <2>2, <2>3, GeneratedEffect
  <2> QED
    BY <1>3, <2>4 DEF GenerationStep, debt, old, sums
<1>4. CASE ~(Concerned(b, w, previous) /\ old.status # "PAID")
  BY <1>1, <1>2, <1>4 DEF GenerationStep
<1> QED
  BY <1>3, <1>4

\* A generation in full.
LEMMA GenerateEffect ==
    ASSUME IInv, NEW w \in Windows, Generate(w)
    PROVE  /\ ~Frozen(w)
           /\ settlements' \in [Beneficiaries -> [Windows -> SettlementRow]]
           /\ \A b \in Beneficiaries :
                /\ RowOK(settlements'[b][w])
                /\ GenerationStep(b, w, settlements'[b][w])
                /\ \A v \in Windows \ {w} : settlements'[b][v] = settlements[b][v]
           /\ UNCHANGED <<today, ledger, manualKeys, periods>>
<1>1. PICK new :
        /\ \A b \in Beneficiaries : new[b] \in GeneratedRows(settlements[b][w], b, w)
        /\ settlements' = [b \in Beneficiaries |-> [settlements[b] EXCEPT ![w] = new[b]]]
  BY DEF Generate
<1>2. \A b \in Beneficiaries : RowOK(new[b]) /\ GenerationStep(b, w, new[b])
  BY <1>1, GeneratedRowsEffect
<1>3. \A b \in Beneficiaries :
        /\ settlements'[b][w] = new[b]
        /\ \A v \in Windows \ {w} : settlements'[b][v] = settlements[b][v]
  BY <1>1 DEF IInv, TypeOK
<1>4. \A b \in Beneficiaries : new[b] \in SettlementRow
  BY <1>2 DEF RowOK
<1>5. settlements' \in [Beneficiaries -> [Windows -> SettlementRow]]
  BY <1>1, <1>4 DEF IInv, TypeOK
<1> QED
  BY <1>2, <1>3, <1>5 DEF Generate, EnsureOpen

LEMMA GenerateIInv ==
    ASSUME IInv, NEW w \in Windows, Generate(w)
    PROVE  IInv'
<1>1. /\ settlements' \in [Beneficiaries -> [Windows -> SettlementRow]]
      /\ \A b \in Beneficiaries :
            /\ RowOK(settlements'[b][w])
            /\ \A v \in Windows \ {w} : settlements'[b][v] = settlements[b][v]
      /\ UNCHANGED <<today, ledger, manualKeys, periods>>
  BY GenerateEffect
<1> QED
  BY <1>1 DEF IInv, TypeOK, RowsOK

LEMMA EnterIInv ==
    ASSUME IInv, NEW b \in Beneficiaries, NEW d \in Days, Enter(b, d)
    PROVE  IInv'
<1>1. PICK amount \in Amounts :
        \/ CreditCommission(b, d, amount)
        \/ DebitCommission(b, d, amount)
        \/ \E key \in Users \X Keys :
            AddBkoEntry(b, d, amount, key) \/ AddFinalizationEntry(b, d, amount, key)
  BY DEF Enter
<1>2. /\ TypeOK
      /\ Credit(amount) \in Sums /\ Debit(amount) \in Sums /\ Bonus(amount) \in Sums
  BY NumbersAreNat, EntriesAreSums DEF IInv
<1>3. /\ UNCHANGED <<today, settlements, periods>>
      /\ manualKeys' \subseteq Users \X Keys
  BY <1>1, <1>2 DEF CreditCommission, DebitCommission, AddBkoEntry, AddFinalizationEntry,
                    AddManualEntry, TypeOK
<1>4. \E entry \in Sums : ledger' = Entered(b, d, entry)
  BY <1>1, <1>2 DEF CreditCommission, DebitCommission, AddBkoEntry, AddFinalizationEntry,
                    AddManualEntry
<1>5. ledger' \in [Beneficiaries -> [Windows -> Sums]]
  BY <1>2, <1>4, EnteredType
<1> QED
  BY <1>2, <1>3, <1>5 DEF IInv, TypeOK, RowsOK

\* An adjustment in full.
LEMMA AdjustEffect ==
    ASSUME IInv, NEW b \in Beneficiaries, NEW w \in Windows,
           NEW bonus \in Adjustments, NEW discount \in Adjustments,
           NEW deferred \in Adjustments, Adjust(b, w, bonus, discount, deferred)
    PROVE  \E row :
             /\ RowOK(row) /\ Exists(row)
             /\ Debt(row) = Debt(settlements[b][w])
             /\ row.paid = settlements[b][w].paid
             /\ Exists(settlements[b][w]) /\ settlements[b][w].status # "PAID"
             /\ ~Frozen(w)
             /\ settlements' = [settlements EXCEPT ![b][w] = row]
             /\ UNCHANGED <<today, ledger, manualKeys, periods>>
<1> DEFINE row == Adjusted(settlements[b][w], bonus, discount, deferred)
<1>1. settlements[b][w] \in SettlementRow
  BY DEF IInv, TypeOK
<1>2. /\ RowOK(row) /\ Exists(row)
      /\ Debt(row) = Debt(settlements[b][w])
      /\ row.paid = settlements[b][w].paid
  BY <1>1, NumbersAreNat, AdjustedEffect
<1> QED
  BY <1>2 DEF Adjust, EnsureOpen, CanAdjust

\* A payment in full.
LEMMA PayEffect ==
    ASSUME IInv, NEW b \in Beneficiaries, NEW w \in Windows,
           NEW amount \in 1..settlements[b][w].payable, Pay(b, w, amount)
    PROVE  \E row :
             /\ RowOK(row) /\ Exists(row)
             /\ Debt(row) = Debt(settlements[b][w])
             /\ row = [settlements[b][w] EXCEPT !.paid = row.paid, !.payable = row.payable,
                                                !.status = row.status]
             /\ row.paid = settlements[b][w].paid + amount
             /\ row.payable = settlements[b][w].payable - amount
             /\ amount \in Nat \ {0}
             /\ Exists(settlements[b][w]) /\ settlements[b][w].status # "PAID"
             /\ settlements' = [settlements EXCEPT ![b][w] = row]
             /\ UNCHANGED <<today, ledger, manualKeys, periods>>
<1> DEFINE old == settlements[b][w]
           row == PaidWith(old, amount)
<1>1. RowOK(old) /\ amount \in Nat \ {0}
  BY DEF IInv, RowsOK, TypeOK, SettlementRow
<1>2. /\ CanPay(old, amount)
      /\ settlements' = [settlements EXCEPT ![b][w] = row]
      /\ UNCHANGED <<today, ledger, manualKeys, periods>>
  BY DEF Pay
<1>3. Exists(old) /\ old.status # "PAID"
  BY <1>2 DEF CanPay
<1> HIDE DEF old
<1>4. /\ RowOK(row) /\ Exists(row)
      /\ Debt(row) = Debt(old)
      /\ row = [old EXCEPT !.paid = row.paid, !.payable = row.payable, !.status = row.status]
      /\ row.paid = old.paid + amount
      /\ row.payable = old.payable - amount
  BY <1>1, <1>2, PaidEffect
<1> QED
  BY <1>1, <1>2, <1>3, <1>4 DEF old

LEMMA SettleIInv ==
    ASSUME IInv, NEW b \in Beneficiaries, NEW w \in Windows, Settle(b, w)
    PROVE  IInv'
<1>1. CASE \E bonus, discount, deferred \in Adjustments : Adjust(b, w, bonus, discount, deferred)
  <2>1. \E row :
          /\ RowOK(row)
          /\ settlements' = [settlements EXCEPT ![b][w] = row]
          /\ UNCHANGED <<today, ledger, manualKeys, periods>>
    BY <1>1, AdjustEffect
  <2> QED
    BY <2>1, RowReplaced
<1>2. CASE \E amount \in 1..settlements[b][w].payable : Pay(b, w, amount)
  <2>1. \E row :
          /\ RowOK(row)
          /\ settlements' = [settlements EXCEPT ![b][w] = row]
          /\ UNCHANGED <<today, ledger, manualKeys, periods>>
    BY <1>2, PayEffect
  <2> QED
    BY <2>1, RowReplaced
<1> QED
  BY <1>1, <1>2 DEF Settle

\* A change of one period in full: which row it writes.
PeriodStep(w, row) ==
    LET old == periods[w]
    IN  \/ /\ \A v \in Windows : periods[v].status # "NONE" => ~Overlap(v, w)
           /\ row.status = "OPEN" /\ row.requestedBy = Nobody /\ row.reopenedBy = Nobody
        \/ /\ old.status = "OPEN" /\ row = [old EXCEPT !.status = "CLOSED"]
        \/ /\ old.status = "CLOSED"
           /\ row = [old EXCEPT !.status = "REOPENING_PENDING", !.requestedBy = row.requestedBy]
        \/ /\ old.status = "REOPENING_PENDING"
           /\ row.reopenedBy # old.requestedBy
           /\ row = [old EXCEPT !.status = "OPEN", !.reopenedBy = row.reopenedBy]

LEMMA ChangePeriodEffect ==
    ASSUME TypeOK, NEW w \in Windows, ChangePeriod(w)
    PROVE  /\ \E row \in PeriodRow :
                PeriodStep(w, row) /\ periods' = [periods EXCEPT ![w] = row]
           /\ UNCHANGED <<today, ledger, manualKeys, settlements>>
<1> DEFINE old == periods[w]
<1>1. old \in PeriodRow
  BY DEF TypeOK
<1>2. CASE \E cutoff \in Cutoffs : CreatePeriod(w, cutoff)
  <2>1. PICK cutoff \in Cutoffs : CreatePeriod(w, cutoff)
    BY <1>2
  <2> DEFINE row == [NoPeriod EXCEPT !.status = "OPEN", !.cutoff = cutoff]
  <2>2. row \in PeriodRow
    BY NumbersAreNat DEF NoPeriod, PeriodRow, PeriodStatus
  <2>3. row.status = "OPEN" /\ row.requestedBy = Nobody /\ row.reopenedBy = Nobody
    BY DEF NoPeriod
  <2>4. periods' = [periods EXCEPT ![w] = row]
    BY <2>1 DEF CreatePeriod
  <2>5. PeriodStep(w, row)
    BY <2>1, <2>3 DEF CreatePeriod, PeriodStep
  <2> QED
    BY <2>1, <2>2, <2>4, <2>5 DEF CreatePeriod
<1>3. CASE ClosePeriod(w)
  <2> DEFINE row == [old EXCEPT !.status = "CLOSED"]
  <2>1. row \in PeriodRow
    BY <1>1 DEF PeriodRow, PeriodStatus
  <2>2. periods' = [periods EXCEPT ![w] = row]
    BY <1>3 DEF ClosePeriod
  <2>3. PeriodStep(w, row)
    BY <1>3 DEF ClosePeriod, PeriodStep
  <2> QED
    BY <1>3, <2>1, <2>2, <2>3 DEF ClosePeriod
<1>4. CASE \E user \in Users : RequestReopen(w, user)
  <2>1. PICK user \in Users : RequestReopen(w, user)
    BY <1>4
  <2> DEFINE row == [old EXCEPT !.status = "REOPENING_PENDING", !.requestedBy = user]
  <2>2. row \in PeriodRow /\ row.requestedBy = user
    BY <1>1 DEF PeriodRow, PeriodStatus
  <2>3. periods' = [periods EXCEPT ![w] = row]
    BY <1>1, <2>1 DEF RequestReopen, TypeOK
  <2>4. PeriodStep(w, row)
    BY <2>1, <2>2 DEF RequestReopen, PeriodStep
  <2> QED
    BY <2>1, <2>2, <2>3, <2>4 DEF RequestReopen
<1>5. CASE \E user \in Users : ApproveReopen(w, user)
  <2>1. PICK user \in Users : ApproveReopen(w, user)
    BY <1>5
  <2> DEFINE row == [old EXCEPT !.status = "OPEN", !.reopenedBy = user]
  <2>2. row \in PeriodRow /\ row.reopenedBy = user
    BY <1>1 DEF PeriodRow, PeriodStatus
  <2>3. periods' = [periods EXCEPT ![w] = row]
    BY <1>1, <2>1 DEF ApproveReopen, TypeOK
  <2>4. PeriodStep(w, row)
    BY <2>1, <2>2 DEF ApproveReopen, PeriodStep
  <2> QED
    BY <2>1, <2>2, <2>3, <2>4 DEF ApproveReopen
<1> QED
  BY <1>2, <1>3, <1>4, <1>5 DEF ChangePeriod

LEMMA ChangePeriodIInv ==
    ASSUME IInv, NEW w \in Windows, ChangePeriod(w)
    PROVE  IInv'
<1>1. TypeOK
  BY DEF IInv
<1>2. /\ \E row \in PeriodRow : periods' = [periods EXCEPT ![w] = row]
      /\ UNCHANGED <<today, ledger, manualKeys, settlements>>
  BY <1>1, ChangePeriodEffect
<1>3. periods' \in [Windows -> PeriodRow]
  BY <1>1, <1>2 DEF TypeOK
<1> QED
  BY <1>2, <1>3 DEF IInv, TypeOK, RowsOK

LEMMA StepIInv == IInv /\ [Next]_vars => IInv'
<1> SUFFICES ASSUME IInv, [Next]_vars PROVE IInv'
  OBVIOUS
<1>1. CASE \E b \in Beneficiaries, d \in Days : Enter(b, d)
  BY <1>1, EnterIInv
<1>2. CASE \E w \in Windows : Generate(w)
  BY <1>2, GenerateIInv
<1>3. CASE \E b \in Beneficiaries, w \in Windows : Settle(b, w)
  BY <1>3, SettleIInv
<1>4. CASE \E w \in Windows : ChangePeriod(w)
  BY <1>4, ChangePeriodIInv
<1>5. CASE NextDay
  BY <1>5, CalendarAssumption DEF NextDay, IInv, TypeOK, RowsOK, Days
<1>6. CASE UNCHANGED vars
  BY <1>6 DEF vars, IInv, TypeOK, RowsOK
<1> QED
  BY <1>1, <1>2, <1>3, <1>4, <1>5, <1>6 DEF Next

LEMMA AlwaysIInv == Spec => []IInv
BY InitIInv, StepIInv, PTL DEF Spec

-----------------------------------------------------------------------------
(***************************************************************************)
(* Invariants.                                                             *)
(***************************************************************************)

\* The tables keep their shape and no amount becomes negative, in
\* manage_settlements.py and manage_periods.py.
THEOREM TypeCorrect == Spec => []TypeOK
BY AlwaysIInv, PTL DEF IInv

\* Balance and status are those of the other columns whatever handler wrote the
\* row last (_recalculate, manage_settlements.py:553-569).
THEOREM BalanceRight == Spec => []BalanceConsistent
<1>1. IInv => BalanceConsistent
  BY DEF IInv, RowsOK, RowOK, Balanced, BalanceConsistent
<1> QED
  BY <1>1, AlwaysIInv, PTL

\* No money is payable while the row still owes a reversal
\* (_apply_reversal_discount, manage_settlements.py:533-551).
THEOREM DebtBeforePayment == Spec => []NothingPayableOverDebt
<1>1. IInv => NothingPayableOverDebt
  BY DEF IInv, RowsOK, RowOK, NothingPayableOverDebt
<1> QED
  BY <1>1, AlwaysIInv, PTL

\* What a generation writes is left alone by the next one.
LEMMA GeneratedTwice ==
    ASSUME NEW row \in SettlementRow, NEW sums \in Sums,
           NEW carryover \in Nat, NEW debt \in Nat
    PROVE  LET once == Generated(row, sums, carryover, debt)
           IN  Generated(once, sums, carryover, debt) = once
<1> DEFINE bonus == IF sums.bonus > 0 THEN sums.bonus ELSE row.bonus
           base == [row EXCEPT !.gross = sums.gross, !.carryover = carryover,
                               !.bonus = bonus, !.reversalDiscount = 0,
                               !.reversalCarryover = debt]
           once == Generated(row, sums, carryover, debt)
           bonusAgain == IF sums.bonus > 0 THEN sums.bonus ELSE once.bonus
           baseAgain == [once EXCEPT !.gross = sums.gross, !.carryover = carryover,
                               !.bonus = bonusAgain, !.reversalDiscount = 0,
                               !.reversalCarryover = debt]
           mid == ApplyReversalDiscount(base)
           midAgain == ApplyReversalDiscount(baseAgain)
<1>1. once = Recalculate(mid) /\ Generated(once, sums, carryover, debt) = Recalculate(midAgain)
  BY DEF Generated
<1>2. bonus \in Nat /\ sums.gross \in Nat
  BY DEF SettlementRow, Sums
<1>3. base \in SettlementRow
  <2> HIDE DEF bonus
  <2> QED  BY <1>2 DEF SettlementRow
<1>4. /\ once \in SettlementRow
      /\ once = [base EXCEPT !.reversalDiscount = once.reversalDiscount,
                             !.reversalCarryover = once.reversalCarryover,
                             !.discount = once.discount,
                             !.payable = once.payable, !.status = once.status]
  <2> HIDE DEF base, once
  <2> QED  BY <1>1, <1>3, FinishedRow DEF RowOK, mid
<1>5. base.bonus = bonus
  <2> HIDE DEF bonus
  <2> QED  BY DEF SettlementRow
<1>6. once.bonus = bonus
  <2> HIDE DEF base, once, bonus
  <2> QED  BY <1>4, <1>3, <1>5 DEF SettlementRow
<1>7. bonusAgain = bonus
  <2> HIDE DEF once
  <2> QED  BY <1>6
<1>8. baseAgain = [base EXCEPT !.discount = once.discount, !.payable = once.payable,
                               !.status = once.status]
  <2>1. once = [row EXCEPT !.gross = sums.gross, !.carryover = carryover, !.bonus = bonus,
                           !.reversalDiscount = once.reversalDiscount,
                           !.reversalCarryover = once.reversalCarryover,
                           !.discount = once.discount,
                           !.payable = once.payable, !.status = once.status]
    <3> HIDE DEF once, bonus
    <3> QED  BY <1>4 DEF SettlementRow
  <2> HIDE DEF once, bonus, bonusAgain
  <2> QED  BY <1>7, <2>1 DEF SettlementRow
<1> HIDE DEF base, once, baseAgain, bonus, bonusAgain
<1>9. /\ Debt(baseAgain) = Debt(base) /\ Available(baseAgain) = Available(base)
      /\ baseAgain.manualDiscount = base.manualDiscount
  BY <1>3, <1>8 DEF SettlementRow, Debt, Available, Earned
<1>10. midAgain = [mid EXCEPT !.payable = once.payable, !.status = once.status]
  BY <1>3, <1>8, <1>9 DEF ApplyReversalDiscount, SettlementRow
<1>11. mid \in SettlementRow
  BY <1>3, ApplyColumns
<1> HIDE DEF mid, midAgain
<1>12. Balance(midAgain) = Balance(mid)
       /\ midAgain.deferred = mid.deferred /\ midAgain.paid = mid.paid
  BY <1>10, <1>11 DEF Balance, Earned, SettlementRow
<1>13. Recalculate(midAgain) = Recalculate(mid)
  BY <1>10, <1>11, <1>12 DEF Recalculate, SettlementRow
<1> QED
  BY <1>1, <1>13 DEF once

\* Generating the same window twice is generating it once
\* (generate, manage_settlements.py:168-318).
THEOREM GenerationRepeats == Spec => []GenerationIdempotent
<1>1. ASSUME IInv, NEW b \in Beneficiaries, NEW w \in Windows,
             NEW new \in GeneratedRows(settlements[b][w], b, w)
      PROVE  new \in GeneratedRows(new, b, w)
  <2> DEFINE old == settlements[b][w]
             sums == ledger[b][w]
  <2>1. old \in SettlementRow /\ sums \in Sums
    BY <1>1 DEF IInv, TypeOK
  <2>2. PICK previous \in PreviousRows(b, w), deferring \in PreviousRows(b, w) :
          new = IF Concerned(b, w, previous) /\ old.status # "PAID"
                THEN Generated(old, sums, Carryover(deferring),
                               sums.reversal + previous.reversalCarryover)
                ELSE old
    BY <1>1 DEF GeneratedRows
  <2> DEFINE debt == sums.reversal + previous.reversalCarryover
             carryover == Carryover(deferring)
             again == IF Concerned(b, w, previous) /\ new.status # "PAID"
                      THEN Generated(new, sums, carryover, debt)
                      ELSE new
  <2>3. debt \in Nat /\ carryover \in Nat
    BY <1>1, <2>1, PreviousTyped DEF IInv, Sums
  <2>4. again \in GeneratedRows(new, b, w)
    BY DEF GeneratedRows
  <2>5. again = new
    <3> HIDE DEF old, sums, debt, carryover
    <3>1. CASE Concerned(b, w, previous) /\ old.status # "PAID"
      <4>1. new = Generated(old, sums, carryover, debt)
        BY <2>2, <3>1 DEF debt, carryover
      <4> QED
        BY <2>1, <2>3, <4>1, GeneratedTwice
    <3>2. CASE ~(Concerned(b, w, previous) /\ old.status # "PAID")
      BY <2>2, <3>2
    <3> QED
      BY <3>1, <3>2
  <2> QED
    BY <2>4, <2>5
<1>2. IInv => GenerationIdempotent
  BY <1>1 DEF GenerationIdempotent
<1> QED
  BY <1>2, AlwaysIInv, PTL

-----------------------------------------------------------------------------
(***************************************************************************)
(* Periods.                                                                *)
(***************************************************************************)

PInv == TypeOK /\ PeriodsDisjoint /\ ReopenedByTwo

LEMMA InitPInv == Init => PInv
<1> SUFFICES ASSUME Init PROVE PInv
  OBVIOUS
<1>1. TypeOK
  BY InitIInv DEF IInv
<1>2. \A w \in Windows : periods[w].status = "NONE" /\ periods[w].reopenedBy = Nobody
  BY DEF Init, NoPeriod
<1> QED
  BY <1>1, <1>2 DEF PInv, PeriodsDisjoint, ReopenedByTwo

LEMMA OverlapSymmetric ==
    ASSUME NEW v \in Windows, NEW w \in Windows
    PROVE  Overlap(v, w) <=> Overlap(w, v)
BY DEF Overlap

LEMMA ChangePeriodPInv ==
    ASSUME PInv, NEW w \in Windows, ChangePeriod(w)
    PROVE  PeriodsDisjoint' /\ ReopenedByTwo'
<1>1. PICK row \in PeriodRow : PeriodStep(w, row) /\ periods' = [periods EXCEPT ![w] = row]
  BY ChangePeriodEffect DEF PInv
<1>2. \A v \in Windows : periods'[v] = IF v = w THEN row ELSE periods[v]
  BY <1>1 DEF PInv, TypeOK
<1>3. periods[w] \in PeriodRow
  BY DEF PInv, TypeOK
<1>4. periods[w].status = "NONE" =>
        \A v \in Windows : periods[v].status # "NONE" => ~Overlap(v, w)
  BY <1>1, <1>3 DEF PeriodStep, PeriodRow
<1>5. PeriodsDisjoint'
  <2> SUFFICES ASSUME NEW u \in Windows, NEW v \in Windows,
                      periods'[u].status # "NONE", periods'[v].status # "NONE",
                      Overlap(u, v)
               PROVE  u = v
    BY DEF PeriodsDisjoint
  <2>1. CASE periods[w].status = "NONE"
    BY <1>2, <1>4, <2>1, OverlapSymmetric DEF PInv, PeriodsDisjoint
  <2>2. CASE periods[w].status # "NONE"
    BY <1>2, <2>2 DEF PInv, PeriodsDisjoint
  <2> QED
    BY <2>1, <2>2
<1>6. row.status # "REOPENING_PENDING" /\ row.reopenedBy # Nobody =>
        row.reopenedBy # row.requestedBy
  BY <1>1, <1>3 DEF PeriodStep, PeriodRow, PInv, ReopenedByTwo
<1>7. ReopenedByTwo'
  BY <1>2, <1>6 DEF PInv, ReopenedByTwo
<1> QED
  BY <1>5, <1>7

LEMMA StepPInv == IInv /\ PInv /\ [Next]_vars => PInv'
<1> SUFFICES ASSUME IInv, PInv, [Next]_vars PROVE PInv'
  OBVIOUS
<1>1. TypeOK'
  BY StepIInv DEF IInv
<1>2. CASE \E w \in Windows : ChangePeriod(w)
  BY <1>1, <1>2, ChangePeriodPInv DEF PInv
<1>3. CASE UNCHANGED periods
  BY <1>1, <1>3 DEF PInv, PeriodsDisjoint, ReopenedByTwo
<1>4. (\E w \in Windows : ChangePeriod(w)) \/ UNCHANGED periods
  <2>1. \A b \in Beneficiaries, d \in Days : Enter(b, d) => UNCHANGED periods
    BY DEF Enter, CreditCommission, DebitCommission, AddBkoEntry, AddFinalizationEntry,
           AddManualEntry
  <2>2. \A w \in Windows : Generate(w) => UNCHANGED periods
    BY DEF Generate
  <2>3. \A b \in Beneficiaries, w \in Windows : Settle(b, w) => UNCHANGED periods
    BY DEF Settle, Adjust, Pay
  <2>4. NextDay => UNCHANGED periods
    BY DEF NextDay
  <2> QED
    BY <2>1, <2>2, <2>3, <2>4 DEF Next, vars
<1> QED
  BY <1>2, <1>3, <1>4

LEMMA AlwaysPInv == Spec => []PInv
BY InitPInv, StepPInv, AlwaysIInv, PTL DEF Spec

\* Periods never share a day (create, manage_periods.py:47-96).
THEOREM NoSharedDay == Spec => []PeriodsDisjoint
BY AlwaysPInv, PTL DEF PInv

\* A reopening takes two people (approve_reopen, manage_periods.py:204-255).
THEOREM TwoToReopen == Spec => []ReopenedByTwo
BY AlwaysPInv, PTL DEF PInv

-----------------------------------------------------------------------------
(***************************************************************************)
(* What a step may do to one settlement.                                   *)
(***************************************************************************)

\* It is calculated, while its period is not frozen.
Calculated(b, w) ==
    LET old == settlements[b][w]
        new == settlements'[b][w]
    IN  /\ ~Frozen(w)
        /\ old.status # "PAID"
        /\ Exists(new)
        /\ new.paid = old.paid
        /\ \/ Debt(new) = Debt(old)
           \/ \E previous \in PreviousRows(b, w) :
                Debt(new) = ledger[b][w].reversal + previous.reversalCarryover

\* Or it is paid.
PaidSome(b, w) ==
    LET old == settlements[b][w]
        new == settlements'[b][w]
    IN  /\ Exists(old) /\ old.status # "PAID"
        /\ Exists(new)
        /\ new = [old EXCEPT !.paid = new.paid, !.payable = new.payable, !.status = new.status]
        /\ old.paid < new.paid
        /\ new.paid + new.payable = old.paid + old.payable
        /\ Debt(new) = Debt(old)

LEMMA RowStep ==
    ASSUME IInv, [Next]_vars, NEW b \in Beneficiaries, NEW w \in Windows
    PROVE  \/ settlements'[b][w] = settlements[b][w]
           \/ Calculated(b, w)
           \/ PaidSome(b, w)
<1>1. CASE UNCHANGED settlements
  BY <1>1
<1>2. ASSUME NEW v \in Windows, Generate(v)
      PROVE  settlements'[b][w] = settlements[b][w] \/ Calculated(b, w)
  BY <1>2, GenerateEffect DEF GenerationStep, Calculated
<1>3. ASSUME NEW c \in Beneficiaries, NEW v \in Windows,
             NEW bonus \in Adjustments, NEW discount \in Adjustments,
             NEW deferred \in Adjustments, Adjust(c, v, bonus, discount, deferred)
      PROVE  settlements'[b][w] = settlements[b][w] \/ Calculated(b, w)
  <2>1. PICK row :
          /\ Exists(row) /\ Debt(row) = Debt(settlements[c][v])
          /\ row.paid = settlements[c][v].paid
          /\ settlements[c][v].status # "PAID" /\ ~Frozen(v)
          /\ settlements' = [settlements EXCEPT ![c][v] = row]
    BY <1>3, AdjustEffect
  <2>2. settlements'[b][w] = IF b = c /\ w = v THEN row ELSE settlements[b][w]
    BY <2>1 DEF IInv, TypeOK
  <2> QED
    BY <2>1, <2>2 DEF Calculated
<1>4. ASSUME NEW c \in Beneficiaries, NEW v \in Windows,
             NEW amount \in 1..settlements[c][v].payable, Pay(c, v, amount)
      PROVE  settlements'[b][w] = settlements[b][w] \/ PaidSome(b, w)
  <2> DEFINE old == settlements[c][v]
  <2>1. PICK row :
          /\ RowOK(row) /\ Exists(row)
          /\ Debt(row) = Debt(settlements[c][v])
          /\ row = [settlements[c][v] EXCEPT !.paid = row.paid, !.payable = row.payable,
                                             !.status = row.status]
          /\ row.paid = settlements[c][v].paid + amount
          /\ row.payable = settlements[c][v].payable - amount
          /\ amount \in Nat \ {0}
          /\ Exists(settlements[c][v]) /\ settlements[c][v].status # "PAID"
          /\ settlements' = [settlements EXCEPT ![c][v] = row]
          /\ UNCHANGED <<today, ledger, manualKeys, periods>>
    BY <1>4, PayEffect, Zenon
  <2>2. settlements'[b][w] = IF b = c /\ w = v THEN row ELSE settlements[b][w]
    BY <2>1 DEF IInv, TypeOK
  <2>3. old.paid \in Nat /\ old.payable \in Nat
    BY DEF IInv, TypeOK, SettlementRow
  <2>4. old.paid < row.paid /\ row.paid + row.payable = old.paid + old.payable
    BY <2>1, <2>3
  <2> QED
    BY <2>1, <2>2, <2>4 DEF PaidSome
<1>5. \/ UNCHANGED settlements
      \/ \E v \in Windows : Generate(v)
      \/ \E c \in Beneficiaries, v \in Windows : Settle(c, v)
  <2>1. \A c \in Beneficiaries, d \in Days : Enter(c, d) => UNCHANGED settlements
    BY DEF Enter, CreditCommission, DebitCommission, AddBkoEntry, AddFinalizationEntry,
           AddManualEntry
  <2>2. \A v \in Windows : ChangePeriod(v) => UNCHANGED settlements
    BY DEF ChangePeriod, CreatePeriod, ClosePeriod, RequestReopen, ApproveReopen
  <2>3. NextDay => UNCHANGED settlements
    BY DEF NextDay
  <2> QED
    BY <2>1, <2>2, <2>3 DEF Next, vars
<1> QED
  BY <1>1, <1>2, <1>3, <1>4, <1>5 DEF Settle

PaidIsFinalStep ==
    \A b \in Beneficiaries, w \in Windows :
        settlements[b][w].status = "PAID" => settlements'[b][w] = settlements[b][w]

\* A settled row stays as it is (generate, adjust and pay all refuse it,
\* manage_settlements.py:268-269, 360-361, 400).
THEOREM PaidStays == Spec => PaidIsFinal
<1>1. IInv /\ [Next]_vars => PaidIsFinalStep
  BY RowStep DEF PaidIsFinalStep, Calculated, PaidSome
<1>2. Spec => [][PaidIsFinalStep]_vars
  BY <1>1, AlwaysIInv, PTL DEF Spec
<1> QED
  BY <1>2 DEF PaidIsFinal, PaidIsFinalStep

FrozenOnlyPaidStep ==
    \A b \in Beneficiaries, w \in Windows :
        Frozen(w) =>
            LET old == settlements[b][w]
                new == settlements'[b][w]
            IN  /\ new = [old EXCEPT !.paid = new.paid, !.payable = new.payable,
                                     !.status = new.status]
                /\ old.paid <= new.paid
                /\ new.paid + new.payable = old.paid + old.payable

LEMMA UnmovedRow ==
    ASSUME NEW old \in SettlementRow, NEW new, new = old
    PROVE  /\ new = [old EXCEPT !.paid = new.paid, !.payable = new.payable,
                                !.status = new.status]
           /\ old.paid <= new.paid
           /\ new.paid + new.payable = old.paid + old.payable
<1>1. old.paid \in Nat
  BY DEF SettlementRow
<1>2. old = [old EXCEPT !.paid = old.paid, !.payable = old.payable, !.status = old.status]
  BY DEF SettlementRow
<1> QED
  BY <1>1, <1>2

\* Freezing a period freezes its calculation and its adjustments, not its
\* payments (_ensure_open, manage_settlements.py:459-470).
THEOREM FrozenMeansPaymentsOnly == Spec => FrozenOnlyPaid
<1>1. ASSUME IInv, [Next]_vars, NEW b \in Beneficiaries, NEW w \in Windows, Frozen(w)
      PROVE  LET old == settlements[b][w]
                 new == settlements'[b][w]
             IN  /\ new = [old EXCEPT !.paid = new.paid, !.payable = new.payable,
                                      !.status = new.status]
                 /\ old.paid <= new.paid
                 /\ new.paid + new.payable = old.paid + old.payable
  <2>1. settlements[b][w] \in SettlementRow
    BY <1>1 DEF IInv, TypeOK
  <2>2. CASE settlements'[b][w] = settlements[b][w]
    BY <2>1, <2>2, UnmovedRow
  <2>3. CASE PaidSome(b, w)
    <3>1. /\ settlements[b][w].paid \in Nat
          /\ settlements'[b][w].paid \in Nat
      BY <1>1, StepIInv DEF IInv, TypeOK, SettlementRow
    <3> QED
      BY <2>3, <3>1 DEF PaidSome
  <2> QED
    BY <1>1, <2>2, <2>3, RowStep DEF Calculated
<1>2. IInv /\ [Next]_vars => FrozenOnlyPaidStep
  BY <1>1 DEF FrozenOnlyPaidStep
<1>3. Spec => [][FrozenOnlyPaidStep]_vars
  BY <1>2, AlwaysIInv, PTL DEF Spec
<1> QED
  BY <1>3 DEF FrozenOnlyPaid, FrozenOnlyPaidStep

DebtComesFromReversalsStep ==
    \A b \in Beneficiaries, w \in Windows :
        Debt(settlements'[b][w]) # Debt(settlements[b][w]) =>
            \E previous \in PreviousRows(b, w) :
                Debt(settlements'[b][w]) =
                    ledger[b][w].reversal + previous.reversalCarryover

\* Adjustments and payments move a debt between absorbed and owed and never
\* change its amount (_apply_reversal_discount, manage_settlements.py:533-551).
THEOREM DebtIsKept == Spec => DebtComesFromReversals
<1>1. IInv /\ [Next]_vars => DebtComesFromReversalsStep
  BY RowStep DEF DebtComesFromReversalsStep, Calculated, PaidSome
<1>2. Spec => [][DebtComesFromReversalsStep]_vars
  BY <1>1, AlwaysIInv, PTL DEF Spec
<1> QED
  BY <1>2 DEF DebtComesFromReversals, DebtComesFromReversalsStep

-----------------------------------------------------------------------------
(***************************************************************************)
(* The contract of the payments.                                           *)
(***************************************************************************)

LEMMA PhaseOf ==
    \A b \in Beneficiaries, w \in Windows :
        /\ phaseOf[b][w] = Phase(settlements[b][w])
        /\ paidOf[b][w] = settlements[b][w].paid
        /\ frozenOf[w] = Frozen(w)
BY DEF phaseOf, paidOf, frozenOf

LEMMA PhaseOfNext ==
    \A b \in Beneficiaries, w \in Windows :
        /\ phaseOf'[b][w] = Phase(settlements'[b][w])
        /\ paidOf'[b][w] = settlements'[b][w].paid
        /\ frozenOf'[w] = Frozen(w)'
BY DEF phaseOf, paidOf, frozenOf

LEMMA Phases ==
    ASSUME NEW row
    PROVE  /\ Phase(row) \in {"none", "open", "settled"}
           /\ Phase(row) = "none" <=> ~Exists(row)
           /\ Phase(row) = "settled" <=> row.status = "PAID"
BY DEF Phase, Exists

LEMMA ContractInit == Init => Contract!Init
<1> SUFFICES ASSUME Init PROVE Contract!Init
  OBVIOUS
<1>1. phaseOf = [b \in Beneficiaries |-> [w \in Windows |-> "none"]]
  BY DEF Init, phaseOf, Phase, NoSettlement
<1>2. paidOf = [b \in Beneficiaries |-> [w \in Windows |-> 0]]
  BY DEF Init, paidOf, NoSettlement
<1>3. frozenOf = [w \in Windows |-> FALSE]
  <2>1. \A w \in Windows : Frozen(w) = FALSE
    BY DEF Init, Frozen, NoPeriod
  <2> QED  BY <2>1 DEF frozenOf
<1> QED
  BY <1>1, <1>2, <1>3 DEF Contract!Init

\* A row that is only calculated makes a step its account allows.
LEMMA CalculatedAccount ==
    ASSUME IInv, IInv', NEW b \in Beneficiaries, NEW w \in Windows,
           settlements'[b][w] = settlements[b][w] \/ Calculated(b, w)
    PROVE  /\ phaseOf'[b][w] \in Contract!MayBecome(b, w)
           /\ paidOf'[b][w] = paidOf[b][w]
<1> DEFINE old == settlements[b][w]
           new == settlements'[b][w]
<1>1. /\ new.status = "PAID" => new.paid > 0
      /\ old.paid \in Nat /\ new.paid \in Nat
  BY DEF IInv, RowsOK, RowOK, Balanced, StatusFor, SettlementRow, Exists
<1>2. new.paid = old.paid
  BY DEF Calculated
<1>3. old.status = "PAID" => new = old
  BY DEF Calculated
<1>4. Exists(old) => Exists(new)
  BY DEF Calculated
<1> HIDE DEF old, new
<1>5. Phase(new) \in CASE Phase(old) = "none" -> {"none", "open"}
                       [] Phase(old) = "open" ->
                            IF old.paid > 0 THEN {"open", "settled"} ELSE {"open"}
                       [] OTHER -> {Phase(old)}
  <2>1. /\ Phase(old) \in {"none", "open", "settled"}
        /\ Phase(old) = "none" <=> ~Exists(old)
        /\ Phase(old) = "settled" <=> old.status = "PAID"
        /\ Phase(new) \in {"none", "open", "settled"}
        /\ Phase(new) = "none" <=> ~Exists(new)
        /\ Phase(new) = "settled" <=> new.status = "PAID"
    BY Phases
  <2>2. ~Exists(old) => Phase(new) # "settled"
    BY <1>1, <1>2, <2>1 DEF old, IInv, RowsOK, RowOK
  <2> QED
    BY <1>1, <1>2, <1>3, <1>4, <2>1, <2>2
<1> QED
  BY <1>2, <1>5, PhaseOf, PhaseOfNext DEF old, new, Contract!MayBecome

LEMMA ContractStep == IInv /\ IInv' /\ [Next]_vars => [Contract!Next]_Contract!vars
<1> SUFFICES ASSUME IInv, IInv', [Next]_vars PROVE [Contract!Next]_Contract!vars
  OBVIOUS
<1> USE DEF Contract!Next, Contract!vars
<1>1. CASE UNCHANGED <<settlements, periods>>
  BY <1>1 DEF phaseOf, paidOf, frozenOf, Frozen
<1>2. ASSUME NEW w \in Windows, ~Frozen(w), UNCHANGED periods,
             \A b \in Beneficiaries :
                /\ settlements'[b][w] = settlements[b][w] \/ Calculated(b, w)
                /\ \A v \in Windows \ {w} : settlements'[b][v] = settlements[b][v]
      PROVE  Contract!Calculate(w)
  <2> DEFINE new == [b \in Beneficiaries |-> Phase(settlements'[b][w])]
  <2>1. \A b \in Beneficiaries :
            /\ phaseOf'[b][w] \in Contract!MayBecome(b, w)
            /\ paidOf'[b][w] = paidOf[b][w]
    BY <1>2, CalculatedAccount
  <2>2. new \in [Beneficiaries -> {"none", "open", "settled"}]
    BY Phases
  <2>3. \A b \in Beneficiaries : new[b] \in Contract!MayBecome(b, w)
    BY <2>1, PhaseOfNext
  <2>4. phaseOf' = [b \in Beneficiaries |-> [phaseOf[b] EXCEPT ![w] = new[b]]]
    <3>1. \A b \in Beneficiaries :
            [v \in Windows |-> Phase(settlements'[b][v])] =
                [[v \in Windows |-> Phase(settlements[b][v])] EXCEPT ![w] = new[b]]
      BY <1>2
    <3> QED
      BY <3>1 DEF phaseOf
  <2>5. paidOf' = paidOf
    <3>1. \A b \in Beneficiaries, v \in Windows :
            settlements'[b][v].paid = settlements[b][v].paid
      BY <1>2, <2>1, PhaseOf, PhaseOfNext
    <3> QED
      BY <3>1 DEF paidOf
  <2>6. frozenOf' = frozenOf /\ ~frozenOf[w]
    BY <1>2 DEF frozenOf, Frozen
  <2> HIDE DEF new
  <2> QED
    BY <2>2, <2>3, <2>4, <2>5, <2>6 DEF Contract!Calculate
<1>3. ASSUME NEW w \in Windows, Generate(w)
      PROVE  Contract!Calculate(w)
  <2>1. \A b \in Beneficiaries :
            settlements'[b][w] = settlements[b][w] \/ Calculated(b, w)
    BY <1>3, GenerateEffect DEF GenerationStep, Calculated
  <2> QED
    BY <1>2, <1>3, <2>1, GenerateEffect
<1>4. ASSUME NEW b \in Beneficiaries, NEW w \in Windows,
             NEW bonus \in Adjustments, NEW discount \in Adjustments,
             NEW deferred \in Adjustments, Adjust(b, w, bonus, discount, deferred)
      PROVE  Contract!Calculate(w)
  <2>1. PICK row :
          /\ Exists(row) /\ Debt(row) = Debt(settlements[b][w])
          /\ row.paid = settlements[b][w].paid
          /\ settlements[b][w].status # "PAID" /\ ~Frozen(w)
          /\ settlements' = [settlements EXCEPT ![b][w] = row]
          /\ UNCHANGED periods
    BY <1>4, AdjustEffect
  <2>2. \A c \in Beneficiaries, v \in Windows :
            settlements'[c][v] = IF c = b /\ v = w THEN row ELSE settlements[c][v]
    BY <2>1 DEF IInv, TypeOK
  <2>3. \A c \in Beneficiaries :
            /\ settlements'[c][w] = settlements[c][w] \/ Calculated(c, w)
            /\ \A v \in Windows \ {w} : settlements'[c][v] = settlements[c][v]
    BY <2>1, <2>2 DEF Calculated
  <2> QED
    BY <1>2, <2>1, <2>3
<1>5. ASSUME NEW b \in Beneficiaries, NEW w \in Windows,
             NEW amount \in 1..settlements[b][w].payable, Pay(b, w, amount)
      PROVE  Contract!Pay(b, w)
  <2>1. PICK row :
          /\ RowOK(row) /\ Exists(row)
          /\ Debt(row) = Debt(settlements[b][w])
          /\ row = [settlements[b][w] EXCEPT !.paid = row.paid, !.payable = row.payable,
                                             !.status = row.status]
          /\ row.paid = settlements[b][w].paid + amount
          /\ row.payable = settlements[b][w].payable - amount
          /\ amount \in Nat \ {0}
          /\ Exists(settlements[b][w]) /\ settlements[b][w].status # "PAID"
          /\ settlements' = [settlements EXCEPT ![b][w] = row]
          /\ UNCHANGED <<today, ledger, manualKeys, periods>>
    BY <1>5, PayEffect, Zenon
  <2>2. \A c \in Beneficiaries, v \in Windows :
            settlements'[c][v] = IF c = b /\ v = w THEN row ELSE settlements[c][v]
    BY <2>1 DEF IInv, TypeOK
  <2>3. phaseOf[b][w] = "open" /\ Phase(row) \in {"open", "settled"}
    BY <2>1, PhaseOf, Phases
  <2>4. paidOf[b][w] \in Nat /\ paidOf'[b][w] = paidOf[b][w] + amount
    <3>1. settlements[b][w].paid \in Nat
      BY DEF IInv, TypeOK, SettlementRow
    <3> QED
      BY <2>1, <2>2, <3>1, PhaseOf, PhaseOfNext
  <2>5. paidOf' = [paidOf EXCEPT ![b][w] = paidOf'[b][w]]
    <3>1. \A c \in Beneficiaries, v \in Windows :
            paidOf'[c][v] = IF c = b /\ v = w THEN row.paid ELSE paidOf[c][v]
      BY <2>2, PhaseOf, PhaseOfNext
    <3>2. \A c \in Beneficiaries :
            paidOf'[c] = IF c = b THEN [paidOf[c] EXCEPT ![w] = row.paid] ELSE paidOf[c]
      BY <3>1 DEF paidOf
    <3>3. paidOf'[b][w] = row.paid
      BY <3>1
    <3>4. paidOf' = [paidOf EXCEPT ![b][w] = row.paid]
      BY <3>1, <3>2 DEF paidOf
    <3> QED
      BY <3>3, <3>4
  <2>6. phaseOf' = [phaseOf EXCEPT ![b][w] = Phase(row)]
    <3>1. \A c \in Beneficiaries, v \in Windows :
            phaseOf'[c][v] = IF c = b /\ v = w THEN Phase(row) ELSE phaseOf[c][v]
      BY <2>2, PhaseOf, PhaseOfNext
    <3>2. \A c \in Beneficiaries :
            phaseOf'[c] = IF c = b THEN [phaseOf[c] EXCEPT ![w] = Phase(row)] ELSE phaseOf[c]
      BY <3>1 DEF phaseOf
    <3> QED
      BY <3>1, <3>2 DEF phaseOf
  <2>7. frozenOf' = frozenOf
    BY <2>1 DEF frozenOf, Frozen
  <2>8. paidOf'[b][w] > paidOf[b][w]
    BY <2>1, <2>4
  <2> QED
    BY <2>3, <2>5, <2>6, <2>7, <2>8 DEF Contract!Pay
<1>6. ASSUME NEW w \in Windows, ChangePeriod(w)
      PROVE  Contract!Freeze(w) \/ UNCHANGED <<phaseOf, paidOf, frozenOf>>
  <2>1. PICK row : periods' = [periods EXCEPT ![w] = row] /\ UNCHANGED settlements
    BY <1>6, ChangePeriodEffect DEF IInv
  <2>2. \A v \in Windows : periods'[v] = IF v = w THEN row ELSE periods[v]
    BY <2>1 DEF IInv, TypeOK
  <2>3. UNCHANGED <<phaseOf, paidOf>>
    BY <2>1 DEF phaseOf, paidOf
  <2>4. \A v \in Windows \ {w} : Frozen(v)' = Frozen(v)
    BY <2>2 DEF Frozen
  <2>5. CASE Frozen(w)' = Frozen(w)
    <3>1. \A v \in Windows : Frozen(v)' = Frozen(v)
      BY <2>4, <2>5
    <3>2. frozenOf' = frozenOf
      BY <3>1 DEF frozenOf
    <3> QED  BY <2>3, <3>2
  <2>6. CASE Frozen(w)' = ~Frozen(w)
    <3>1. frozenOf' = [frozenOf EXCEPT ![w] = ~frozenOf[w]]
      BY <2>4, <2>6 DEF frozenOf
    <3> QED  BY <2>3, <3>1 DEF Contract!Freeze
  <2>7. Frozen(w)' \in BOOLEAN /\ Frozen(w) \in BOOLEAN
    BY DEF Frozen
  <2> QED
    BY <2>5, <2>6, <2>7
<1>7. \/ UNCHANGED <<settlements, periods>>
      \/ \E w \in Windows : Generate(w) \/ ChangePeriod(w)
      \/ \E b \in Beneficiaries, w \in Windows : Settle(b, w)
  <2>1. \A b \in Beneficiaries, d \in Days :
            Enter(b, d) => UNCHANGED <<settlements, periods>>
    BY DEF Enter, CreditCommission, DebitCommission, AddBkoEntry, AddFinalizationEntry,
           AddManualEntry
  <2>2. NextDay => UNCHANGED <<settlements, periods>>
    BY DEF NextDay
  <2> QED
    BY <2>1, <2>2 DEF Next, vars
<1> QED
  BY <1>1, <1>3, <1>4, <1>5, <1>6, <1>7 DEF Settle

\* The settlements implement the accounts of PayoutContract.
THEOREM ContractKept == Spec => KeepsContract
<1>1. Spec => Contract!Init /\ [][Contract!Next]_Contract!vars
  BY ContractInit, ContractStep, AlwaysIInv, PTL DEF Spec
<1> QED
  BY <1>1 DEF KeepsContract, Contract!Spec
=============================================================================
