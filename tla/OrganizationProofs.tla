------------------------- MODULE OrganizationProofs -------------------------
(***************************************************************************)
(* Proofs about Organization, for any people, functions, calendar and      *)
(* number of requests at the same time.                                    *)
(***************************************************************************)
EXTENDS Organization, FiniteSetTheorems, TLAPS

-----------------------------------------------------------------------------
(***************************************************************************)
(* The invariant.  A request in flight p is known by what it is about to   *)
(* write; what is said of it is split into what its own data say           *)
(* (WritesOK), whatever was committed since, and what the tables still say *)
(* while no other request changed a person of it (CurrentOK).              *)
(***************************************************************************)

Operacoes ==
    {"CreateCollaborator", "AddFunction", "CloseFunction", "ChangeModality", "ChangeKey",
     "AssignLeader", "CloseAssignment", "Deactivate", "Activate", "LinkAccount"}

\* What a request changes of the row of a collaborator.
Registro == [existe : {TRUE}, ativo : {TRUE}, desde : {0}, conta : Contas \union {Ninguem}]
Saida == [ativo : {FALSE}, desde : Dias]
Volta == [ativo : {TRUE}, desde : {0}]
Ligacao == [conta : Contas \union {Ninguem}]

Mudanca == Registro \union Saida \union Volta \union Ligacao

Gravacao ==
    [quem : SUBSET Colaboradores, funcoes : SUBSET Funcao, canceladas : SUBSET Funcao,
     vinculos : SUBSET Vinculo, chaves : SUBSET Colaboradores,
     cadastro : UNION {[S -> Mudanca] : S \in SUBSET Colaboradores}]

Pedido == [op : Operacoes, n : Ns, dia : Dias, obsoleto : BOOLEAN, escrita : Gravacao]

TypesOK == OrganizationTypeOK /\ pedidos \in [Slots -> Pedido \union {Vago}]

EmCurso(s) == pedidos[s] # Vago

\* No two requests, and no link and request in flight, have one number.
NumbersOK ==
    /\ \A s \in Slots : EmCurso(s) =>
           /\ pedidos[s].n <= iniciados
           /\ \A t \in Slots : EmCurso(t) /\ pedidos[t].n = pedidos[s].n => s = t
           /\ \A v \in vinculos : v.n # pedidos[s].n
    /\ \A v \in vinculos : v.n <= iniciados
    /\ \A v, w \in vinculos : Mesma(v, w) => v = w

\* A request writes rows of its own people only.  A transfer ends every row it
\* touches on the eve of the one it adds.
WritesOK(p) ==
    /\ \A x \in p.escrita.funcoes \union p.escrita.canceladas : x.quem \in p.escrita.quem
    /\ DOMAIN p.escrita.cadastro \union p.escrita.chaves \subseteq p.escrita.quem
    /\ \A x \in p.escrita.vinculos :
           /\ x.quem \in p.escrita.quem
           /\ x.ate = Sempre => x.n = p.n
           /\ x.n = p.n => p.op = "AssignLeader" /\ x.ate = Sempre /\ x.lider \in p.escrita.quem
           /\ \A y \in p.escrita.vinculos : Mesma(x, y) \/ (x.n = p.n /\ y.n = p.n) => x = y
    /\ p.op = "AssignLeader" =>
           \E x \in p.escrita.vinculos :
               /\ x.n = p.n
               /\ \A y \in p.escrita.vinculos \ {x} :
                      y.quem = x.quem /\ y.tipo = x.tipo /\ y.ate = x.de - 1
    /\ \A c \in DOMAIN p.escrita.cadastro :
           p.escrita.cadastro[c] \in Saida => p.op = "Deactivate" /\ p.escrita.cadastro[c].desde = p.dia
    /\ p.op = "Deactivate" => \A x \in p.escrita.funcoes : x.ate < p.dia

\* The links a request ends are there, and the one it adds follows them all.
LinksCurrent(p) ==
    \A x \in p.escrita.vinculos :
        IF x.n = p.n
        THEN /\ Ativo(x.quem) /\ Ativo(x.lider)
             /\ \A v \in DoConsultor(x.quem, x.tipo) :
                    v.ate < x.de \/ \E y \in p.escrita.vinculos : Mesma(v, y) /\ y.ate < x.de
        ELSE \E v \in vinculos : Mesma(v, x) /\ x.ate <= v.ate

\* Everything a deactivation has to end, it ends.
DepartureCurrent(p) ==
    p.op = "Deactivate" =>
        \A c \in DOMAIN p.escrita.cadastro :
            /\ \A f \in DoColaborador(c) :
                   \/ f.ate < p.dia
                   \/ \E x \in p.escrita.funcoes \union p.escrita.canceladas : Mesma(f, x)
            /\ \A v \in vinculos :
                   v.ate = Sempre /\ (v.quem = c \/ (v.lider = c /\ v.de <= p.dia)) =>
                       \E x \in p.escrita.vinculos : Mesma(v, x)

\* A change of modality cuts the one in force where the new one starts.
ModalityCurrent(p) ==
    p.op = "ChangeModality" =>
        /\ p.escrita.canceladas = {}
        /\ \E f \in funcoes, x \in p.escrita.funcoes :
               /\ p.escrita.funcoes = {Ate(f, x.de - 1), x}
               /\ x.de >= p.dia /\ Vige(f, x.de)

\* Nobody gains or keeps a function he left.
FunctionsCurrent(p) ==
    \A x \in p.escrita.funcoes : cadastro[x.quem].existe => cadastro[x.quem].ativo

KeysCurrent(p) == \A k \in chaves : k.quem \in p.escrita.chaves => k.de <= p.dia

CurrentOK(p) ==
    /\ LinksCurrent(p)
    /\ DepartureCurrent(p)
    /\ ModalityCurrent(p)
    /\ correu \/ FunctionsCurrent(p)
    /\ correu \/ KeysCurrent(p)

RequestOK(p) ==
    /\ WritesOK(p)
    /\ p.dia <= hoje
    /\ p.obsoleto \/ CurrentOK(p)

RequestsOK == \A s \in Slots : EmCurso(s) => RequestOK(pedidos[s])

\* A person with keys has one without an end, and it is the latest.
KeysOK ==
    correu \/ \A k \in chaves : \E j \in chaves :
        /\ j.quem = k.quem /\ j.de <= hoje /\ j.ate = Sempre
        /\ \A i \in chaves : i.quem = k.quem => i.de <= j.de /\ (i.ate = Sempre => i = j)

OInv ==
    /\ TypesOK
    /\ NumbersOK
    /\ RequestsOK
    /\ KeysOK
    /\ InactiveIsOut
    /\ correu \/ UmLiderPorDia
-----------------------------------------------------------------------------
\* Rows: two are the same but for their end, or one is the other ended.

LEMMA LinkRows ==
    /\ \A a, b \in Vinculo : Mesma(a, b) <=>
           a.n = b.n /\ a.quem = b.quem /\ a.lider = b.lider /\ a.tipo = b.tipo /\ a.de = b.de
    /\ \A a \in Vinculo, d \in 0..Sempre :
           /\ Ate(a, d) \in Vinculo /\ Ate(a, d).ate = d /\ Mesma(a, Ate(a, d))
           /\ Ate(a, d).n = a.n /\ Ate(a, d).quem = a.quem /\ Ate(a, d).lider = a.lider
           /\ Ate(a, d).tipo = a.tipo /\ Ate(a, d).de = a.de
BY DEF Vinculo, Mesma, Ate

LEMMA FunctionRows ==
    /\ \A a, b \in Funcao : Mesma(a, b) <=>
           a.n = b.n /\ a.quem = b.quem /\ a.papel = b.papel /\ a.de = b.de
    /\ \A a \in Funcao, d \in 0..Sempre :
           /\ Ate(a, d) \in Funcao /\ Ate(a, d).ate = d /\ Mesma(a, Ate(a, d))
           /\ Ate(a, d).n = a.n /\ Ate(a, d).quem = a.quem /\ Ate(a, d).papel = a.papel
           /\ Ate(a, d).de = a.de
BY DEF Funcao, Mesma, Ate

LEMMA KeyRows ==
    \A k \in Chave, d \in 0..Sempre :
        /\ Ate(k, d) \in Chave /\ Ate(k, d).ate = d
        /\ Ate(k, d).n = k.n /\ Ate(k, d).quem = k.quem /\ Ate(k, d).de = k.de
BY DEF Chave, Ate

\* Where each row after a write comes from, and where each one before it went.
LEMMA Written ==
    ASSUME NEW linhas, NEW novas, NEW n
    PROVE  /\ \A r \in Gravadas(linhas, novas, n) :
                  \/ r \in linhas /\ \A x \in novas : ~Mesma(r, x)
                  \/ r \in novas /\ (r.n = n \/ \E q \in linhas : Mesma(q, r))
           /\ \A r \in linhas :
                  \/ r \in Gravadas(linhas, novas, n) /\ \A x \in novas : ~Mesma(r, x)
                  \/ \E x \in novas : Mesma(r, x) /\ x \in Gravadas(linhas, novas, n)
           /\ \A x \in novas : x.n = n => x \in Gravadas(linhas, novas, n)
<1> DEFINE ended(r) == CHOOSE x \in novas : Mesma(r, x)
           after(r) == IF \E x \in novas : Mesma(r, x) THEN ended(r) ELSE r
<1>1. \A r : (\E x \in novas : Mesma(r, x)) => ended(r) \in novas /\ Mesma(r, ended(r))
  OBVIOUS
<1>2. Gravadas(linhas, novas, n) = {after(r) : r \in linhas} \union {x \in novas : x.n = n}
  BY DEF Gravadas
<1> HIDE DEF ended
<1> QED  BY <1>1, <1>2

LEMMA Calendar == Sempre \in Nat /\ UltimoDia \in Nat /\ UltimoDia < Sempre /\ Dias \subseteq Nat \ {0}
BY OrganizationAssumption DEF Sempre, Dias

-----------------------------------------------------------------------------
\* A request begins.

LEMMA BeginKeeps ==
    ASSUME OInv, NEW s \in Slots, NEW op, NEW escrita, Inicia(s, op, escrita), NEW p,
           p = [op |-> op, n |-> N, dia |-> hoje, obsoleto |-> FALSE, escrita |-> escrita],
           op \in Operacoes, escrita \in Gravacao, WritesOK(p), CurrentOK(p)
    PROVE  OInv'
<1> USE DEF OInv
<1>1. /\ ~EmCurso(s) /\ iniciados' = iniciados + 1 /\ iniciados' \in Ns
      /\ pedidos' = [pedidos EXCEPT ![s] = p]
      /\ UNCHANGED <<hoje, cadastro, funcoes, vinculos, chaves, correu>>
  BY OrganizationAssumption DEF Inicia, EmCurso, N, TypesOK, OrganizationTypeOK, Ns
<1>2. p \in Pedido /\ p.n = iniciados + 1 /\ p.dia = hoje /\ p.obsoleto = FALSE
  BY <1>1 DEF Pedido, N, TypesOK, OrganizationTypeOK
<1>3. p # Vago
  BY DEF Vago, Operacoes
<1>4. pedidos'[s] = p /\ \A t \in Slots \ {s} : pedidos'[t] = pedidos[t]
  BY <1>1 DEF TypesOK
<1>5. TypesOK'
  BY <1>1, <1>2 DEF TypesOK, OrganizationTypeOK
<1>6. NumbersOK'
  <2>1. iniciados \in Int
    BY DEF TypesOK, OrganizationTypeOK, Ns
  <2>2. \A v \in vinculos : v.n \in Int
    BY DEF TypesOK, OrganizationTypeOK, Ns, Vinculo
  <2>3. \A t \in Slots : EmCurso(t) => pedidos[t].n \in Int
    BY DEF TypesOK, Ns, Pedido, EmCurso
  <2>4. \A t \in Slots : EmCurso(t)' <=> t = s \/ EmCurso(t)
    BY <1>3, <1>4 DEF EmCurso
  <2>5. \A t \in Slots : EmCurso(t)' =>
            /\ pedidos'[t].n <= iniciados'
            /\ \A v \in vinculos' : v.n # pedidos'[t].n
            /\ \A u \in Slots : EmCurso(u)' /\ pedidos'[u].n = pedidos'[t].n => t = u
    BY <1>1, <1>2, <1>4, <2>1, <2>2, <2>3, <2>4 DEF NumbersOK
  <2>6. /\ \A v \in vinculos' : v.n <= iniciados'
        /\ \A v, w \in vinculos' : Mesma(v, w) => v = w
    BY <1>1, <2>1, <2>2 DEF NumbersOK
  <2> QED  BY <2>5, <2>6 DEF NumbersOK
<1>7. ASSUME NEW r, RequestOK(r) PROVE RequestOK(r)'
  BY <1>1, <1>7 DEF RequestOK, WritesOK, CurrentOK, LinksCurrent, DepartureCurrent,
      ModalityCurrent, FunctionsCurrent, KeysCurrent, DoConsultor, DoColaborador, Ativo
<1>8. RequestOK(p)
  <2>1. hoje <= hoje
    BY DEF TypesOK, OrganizationTypeOK, Dias
  <2> QED  BY <1>2, <2>1 DEF RequestOK
<1>9. RequestsOK'
  BY <1>4, <1>7, <1>8 DEF RequestsOK, EmCurso
<1>10. KeysOK' /\ InactiveIsOut' /\ (correu' \/ UmLiderPorDia')
  BY <1>1 DEF KeysOK, InactiveIsOut, UmLiderPorDia, EquipesAtivas, DoColaborador
<1> QED  BY <1>5, <1>6, <1>9, <1>10

\* What a request that writes no link and changes no function has to show.
LEMMA NoLinks ==
    ASSUME NEW p, p.escrita.vinculos = {}, p.op \notin {"AssignLeader", "Deactivate"},
           \A c \in DOMAIN p.escrita.cadastro : p.escrita.cadastro[c] \notin Saida,
           \A x \in p.escrita.funcoes : x.quem \in p.escrita.quem, p.escrita.canceladas = {},
           DOMAIN p.escrita.cadastro \union p.escrita.chaves \subseteq p.escrita.quem
    PROVE  WritesOK(p) /\ LinksCurrent(p) /\ DepartureCurrent(p)
BY DEF WritesOK, LinksCurrent, DepartureCurrent

\* The keys there are started by today.
LEMMA KeysStarted ==
    ASSUME OInv, NEW p, p.dia = hoje
    PROVE  correu \/ KeysCurrent(p)
<1> SUFFICES ASSUME ~correu, NEW k \in chaves PROVE k.de <= hoje
  BY DEF KeysCurrent
<1>1. PICK j \in chaves : j.de <= hoje /\ k.de <= j.de
  BY DEF OInv, KeysOK
<1>2. k.de \in Int /\ j.de \in Int /\ hoje \in Int
  BY DEF OInv, TypesOK, OrganizationTypeOK, Chave, Dias
<1> QED  BY <1>1, <1>2

\* The rows it may add.
LEMMA NewRows ==
    ASSUME OInv, NEW s, NEW op, NEW escrita, Inicia(s, op, escrita)
    PROVE  /\ N \in Ns /\ N = iniciados + 1
           /\ \A c \in Colaboradores, papel \in PapelDeColaborador, de \in Dias, ate \in 0..Sempre :
                  /\ Nova(c, papel, de, ate) \in Funcao
                  /\ Nova(c, papel, de, ate).quem = c /\ Nova(c, papel, de, ate).papel = papel
                  /\ Nova(c, papel, de, ate).de = de /\ Nova(c, papel, de, ate).ate = ate
<1>1. N \in Ns /\ N = iniciados + 1
  BY OrganizationAssumption DEF Inicia, N, OInv, TypesOK, OrganizationTypeOK, Ns
<1>2. Dias \subseteq 0..UltimoDia
  BY Calendar DEF Dias
<1> QED  BY <1>1, <1>2 DEF Nova, Funcao

LEMMA CreateKeeps ==
    ASSUME OInv, NEW s \in Slots, NEW c \in Colaboradores, NEW u \in Contas \union {Ninguem},
           NEW papel \in Papeis, NEW de \in Dias,
           CreateCollaborator(s, c, {Nova(c, papel, de, Sempre)}, u, {c})
    PROVE  OInv'
<1> DEFINE row == [existe |-> TRUE, ativo |-> TRUE, desde |-> 0, conta |-> u]
           f == Nova(c, papel, de, Sempre)
           w == [Escrita EXCEPT !.quem = {c}, !.funcoes = {f}, !.chaves = {c},
                                !.cadastro = [x \in {c} |-> row]]
           p == [op |-> "CreateCollaborator", n |-> N, dia |-> hoje, obsoleto |-> FALSE,
                 escrita |-> w]
<1>1. Inicia(s, "CreateCollaborator", w) /\ ~cadastro[c].existe
  BY DEF CreateCollaborator
<1>2. row \in Registro /\ row \notin Saida
  BY DEF Registro, Saida
<1>3. f \in Funcao /\ f.quem = c
  <2>1. papel \in PapelDeColaborador /\ Sempre \in 0..Sempre
    BY PapeisAssumption, Calendar
  <2> QED  BY <1>1, <2>1, NewRows
<1>4. /\ w.quem = {c} /\ w.funcoes = {f} /\ w.canceladas = {} /\ w.vinculos = {}
      /\ w.chaves = {c} /\ w.cadastro = [x \in {c} |-> row]
      /\ DOMAIN w.cadastro = {c} /\ w.cadastro[c] = row
      /\ w \in Gravacao
  <2>1. [x \in {c} |-> row] \in UNION {[S -> Mudanca] : S \in SUBSET Colaboradores}
    BY <1>2 DEF Mudanca
  <2> HIDE DEF row, f
  <2> QED  BY <1>3, <2>1 DEF Escrita, Gravacao
<1>5. /\ p.op = "CreateCollaborator" /\ p.n = N /\ p.dia = hoje /\ p.escrita = w
  OBVIOUS
<1> HIDE DEF w, p, f, row
<1>6. WritesOK(p) /\ LinksCurrent(p) /\ DepartureCurrent(p)
  BY <1>2, <1>3, <1>4, <1>5, NoLinks
<1>7. ModalityCurrent(p) /\ FunctionsCurrent(p)
  BY <1>1, <1>3, <1>4, <1>5 DEF ModalityCurrent, FunctionsCurrent
<1>8. CurrentOK(p)
  BY <1>5, <1>6, <1>7, KeysStarted DEF CurrentOK
<1> QED  BY <1>1, <1>4, <1>6, <1>8, BeginKeeps DEF p, Operacoes

\* A request that writes no row of the register carries an empty table of them.
LEMMA NoChange == [x \in {} |-> NaoCadastrado] \in UNION {[S -> Mudanca] : S \in SUBSET Colaboradores}
<1>1. {} \in SUBSET Colaboradores /\ [x \in {} |-> NaoCadastrado] \in [{} -> Mudanca]
  OBVIOUS
<1> QED  BY <1>1

\* A request that only writes functions.
LEMMA FunctionsBegin ==
    ASSUME OInv, NEW s \in Slots, NEW op \in {"AddFunction", "CloseFunction", "ChangeModality"},
           NEW c \in Colaboradores, NEW F \in SUBSET Funcao,
           Inicia(s, op, [Escrita EXCEPT !.quem = {c}, !.funcoes = F]),
           \A x \in F : x.quem = c,
           correu \/ (cadastro[c].existe => cadastro[c].ativo),
           op = "ChangeModality" =>
               \E f \in funcoes, x \in F :
                   F = {Ate(f, x.de - 1), x} /\ x.de >= hoje /\ Vige(f, x.de)
    PROVE  OInv'
<1> DEFINE w == [Escrita EXCEPT !.quem = {c}, !.funcoes = F]
           p == [op |-> op, n |-> N, dia |-> hoje, obsoleto |-> FALSE, escrita |-> w]
<1>1. /\ w.quem = {c} /\ w.funcoes = F /\ w.canceladas = {} /\ w.vinculos = {} /\ w.chaves = {}
      /\ DOMAIN w.cadastro = {} /\ w \in Gravacao
  BY NoChange DEF Escrita, Gravacao
<1>2. p.op = op /\ p.n = N /\ p.dia = hoje /\ p.escrita = w
  OBVIOUS
<1>3. p = [op |-> op, n |-> N, dia |-> hoje, obsoleto |-> FALSE, escrita |-> w]
  OBVIOUS
<1>4. Inicia(s, op, w)
  OBVIOUS
<1> HIDE DEF w, p
<1>5. WritesOK(p) /\ LinksCurrent(p) /\ DepartureCurrent(p)
  BY <1>1, <1>2, NoLinks
<1>6. ModalityCurrent(p)
  BY <1>1, <1>2 DEF ModalityCurrent
<1>7. correu \/ FunctionsCurrent(p)
  BY <1>1, <1>2 DEF FunctionsCurrent
<1>8. CurrentOK(p)
  BY <1>2, <1>5, <1>6, <1>7, KeysStarted DEF CurrentOK
<1> QED  BY <1>1, <1>3, <1>4, <1>5, <1>8, BeginKeeps DEF Operacoes

LEMMA AddFunctionKeeps ==
    ASSUME OInv, NEW s \in Slots, NEW c \in Colaboradores, NEW papel \in Papeis, NEW de \in Dias,
           NEW ate \in Prazos, AddFunction(s, c, papel, de, ate)
    PROVE  OInv'
<1> DEFINE f == Nova(c, papel, de, ate)
<1>1. Inicia(s, "AddFunction", [Escrita EXCEPT !.quem = {c}, !.funcoes = {f}]) /\ Ativo(c)
  BY DEF AddFunction
<1>2. f \in Funcao /\ f.quem = c
  <2>1. papel \in PapelDeColaborador /\ ate \in 0..Sempre
    BY PapeisAssumption, PrazosAssumption, Calendar DEF Dias
  <2> QED  BY <1>1, <2>1, NewRows
<1> DEFINE F == {f}
<1>3. F \in SUBSET Funcao /\ \A x \in F : x.quem = c
  BY <1>2
<1>4. Inicia(s, "AddFunction", [Escrita EXCEPT !.quem = {c}, !.funcoes = F])
  BY <1>1
<1>5. cadastro[c].existe => cadastro[c].ativo
  BY <1>1 DEF Ativo
<1> HIDE DEF F
<1> QED  BY <1>3, <1>4, <1>5, FunctionsBegin

LEMMA CloseFunctionKeeps ==
    ASSUME OInv, NEW s \in Slots, NEW f \in funcoes, NEW ate \in Dias, CloseFunction(s, f, ate)
    PROVE  OInv'
<1> DEFINE c == f.quem
           g == Ate(f, ate)
<1>1. f.ate = Sempre /\ Inicia(s, "CloseFunction", [Escrita EXCEPT !.quem = {c}, !.funcoes = {g}])
  BY DEF CloseFunction
<1>2. f \in Funcao /\ c \in Colaboradores
  BY DEF OInv, TypesOK, OrganizationTypeOK, Funcao
<1>3. g \in Funcao /\ g.quem = c
  BY <1>2, Calendar, FunctionRows DEF Dias
<1>4. correu \/ (cadastro[c].existe => cadastro[c].ativo)
  <2>1. cadastro[c].desde <= UltimoDia
    BY <1>2, Calendar DEF OInv, TypesOK, OrganizationTypeOK, Cadastro
  <2>2. cadastro[c].desde \in Int
    BY <1>2, Calendar DEF OInv, TypesOK, OrganizationTypeOK, Cadastro
  <2> QED  BY <1>1, <1>2, <2>1, <2>2, Calendar DEF OInv, InactiveIsOut, DoColaborador
<1> DEFINE F == {g}
<1>5. F \in SUBSET Funcao /\ \A x \in F : x.quem = c
  BY <1>3
<1>6. Inicia(s, "CloseFunction", [Escrita EXCEPT !.quem = {c}, !.funcoes = F])
  BY <1>1
<1> HIDE DEF c, g, F
<1> QED  BY <1>2, <1>4, <1>5, <1>6, FunctionsBegin

LEMMA ChangeModalityKeeps ==
    ASSUME OInv, NEW s \in Slots, NEW c \in Colaboradores, NEW papel \in Papeis, NEW de \in Dias,
           papel \in Modalidades, ChangeModality(s, c, papel, de)
    PROVE  OInv'
<1>1. PICK f \in DoColaborador(c) :
          /\ Vige(f, de) /\ f.de <= de - 1
          /\ Inicia(s, "ChangeModality",
                 [Escrita EXCEPT !.quem = {c},
                     !.funcoes = {Ate(f, de - 1), Nova(c, papel, de, Sempre)}])
  BY DEF ChangeModality
<1>2. Ativo(c) /\ de >= hoje
  BY DEF ChangeModality, NaoRetroativa
<1> DEFINE x == Nova(c, papel, de, Sempre)
           F == {Ate(f, de - 1), x}
<1>3. f \in funcoes /\ f \in Funcao /\ f.quem = c
  BY DEF DoColaborador, OInv, TypesOK, OrganizationTypeOK
<1>4. x \in Funcao /\ x.quem = c /\ x.de = de
  <2>1. papel \in PapelDeColaborador /\ Sempre \in 0..Sempre
    BY PapeisAssumption, Calendar
  <2> QED  BY <1>1, <2>1, NewRows
<1>5. Ate(f, de - 1) \in Funcao /\ Ate(f, de - 1).quem = c
  <2>1. de - 1 \in 0..Sempre
    BY Calendar DEF Dias
  <2> QED  BY <1>3, <2>1, FunctionRows
<1>6. x \in F /\ F = {Ate(f, x.de - 1), x} /\ F \in SUBSET Funcao /\ \A y \in F : y.quem = c
  BY <1>4, <1>5
<1>7. Inicia(s, "ChangeModality", [Escrita EXCEPT !.quem = {c}, !.funcoes = F])
  BY <1>1
<1> HIDE DEF x, F
<1>8. \E g \in funcoes, y \in F : F = {Ate(g, y.de - 1), y} /\ y.de >= hoje /\ Vige(g, y.de)
  BY <1>1, <1>2, <1>3, <1>4, <1>6
<1> QED  BY <1>2, <1>6, <1>7, <1>8, FunctionsBegin DEF Ativo

\* A request that only writes the register and the keys of one person.
LEMMA RegisterBegin ==
    ASSUME OInv, NEW s \in Slots, NEW op \in {"ChangeKey", "Activate", "LinkAccount"},
           NEW c \in Colaboradores, NEW w \in Gravacao, Inicia(s, op, w),
           w.quem = {c}, w.funcoes = {}, w.canceladas = {}, w.vinculos = {}, w.chaves \subseteq {c},
           DOMAIN w.cadastro \subseteq {c},
           \A x \in DOMAIN w.cadastro : w.cadastro[x] \notin Saida
    PROVE  OInv'
<1> DEFINE p == [op |-> op, n |-> N, dia |-> hoje, obsoleto |-> FALSE, escrita |-> w]
<1>1. p.op = op /\ p.n = N /\ p.dia = hoje /\ p.escrita = w
  OBVIOUS
<1>2. p = [op |-> op, n |-> N, dia |-> hoje, obsoleto |-> FALSE, escrita |-> w]
  OBVIOUS
<1> HIDE DEF p
<1>3. WritesOK(p) /\ LinksCurrent(p) /\ DepartureCurrent(p)
  BY <1>1, NoLinks
<1>4. ModalityCurrent(p) /\ FunctionsCurrent(p)
  BY <1>1 DEF ModalityCurrent, FunctionsCurrent
<1>5. CurrentOK(p)
  BY <1>1, <1>3, <1>4, KeysStarted DEF CurrentOK
<1> QED  BY <1>2, <1>3, <1>5, BeginKeeps DEF Operacoes

LEMMA RegisterKeeps ==
    ASSUME OInv, NEW s \in Slots, NEW c \in Colaboradores
    PROVE  /\ ChangeKey(s, c) => OInv'
           /\ ActivateCollaborator(s, c) => OInv'
           /\ \A u \in Contas \union {Ninguem} : LinkAccount(s, c, u) => OInv'
<1> DEFINE Tabelas == UNION {[S -> Mudanca] : S \in SUBSET Colaboradores}
<1>1. ASSUME ChangeKey(s, c) PROVE OInv'
  <2> DEFINE w == [Escrita EXCEPT !.quem = {c}, !.chaves = {c}]
  <2>1. Inicia(s, "ChangeKey", w)
    BY <1>1 DEF ChangeKey
  <2>2. [x \in {} |-> NaoCadastrado] \in Tabelas
    BY NoChange
  <2>3. /\ w.quem = {c} /\ w.funcoes = {} /\ w.canceladas = {} /\ w.vinculos = {}
        /\ w.chaves = {c} /\ DOMAIN w.cadastro = {} /\ w \in Gravacao
    BY <2>2 DEF Escrita, Gravacao
  <2> HIDE DEF w
  <2> QED  BY <2>1, <2>3, RegisterBegin
<1>2. ASSUME NEW row \in Mudanca, row \notin Saida, NEW op \in {"Activate", "LinkAccount"},
             Inicia(s, op, [Escrita EXCEPT !.quem = {c}, !.cadastro = [x \in {c} |-> row]])
      PROVE  OInv'
  <2> DEFINE w == [Escrita EXCEPT !.quem = {c}, !.cadastro = [x \in {c} |-> row]]
  <2>1. [x \in {c} |-> row] \in Tabelas
    <3>1. {c} \in SUBSET Colaboradores /\ [x \in {c} |-> row] \in [{c} -> Mudanca]
      OBVIOUS
    <3> QED  BY <3>1
  <2>2. /\ w.quem = {c} /\ w.funcoes = {} /\ w.canceladas = {} /\ w.vinculos = {}
        /\ w.chaves = {} /\ w.cadastro = [x \in {c} |-> row] /\ w \in Gravacao
    BY <2>1 DEF Escrita, Gravacao
  <2>3. Inicia(s, op, w)
    BY <1>2
  <2> HIDE DEF w
  <2> QED  BY <1>2, <2>2, <2>3, RegisterBegin
<1>3. ASSUME ActivateCollaborator(s, c) PROVE OInv'
  <2> DEFINE row == [ativo |-> TRUE, desde |-> 0]
  <2>1. Inicia(s, "Activate", [Escrita EXCEPT !.quem = {c}, !.cadastro = [x \in {c} |-> row]])
    BY <1>3 DEF ActivateCollaborator
  <2>2. row \in Mudanca /\ row \notin Saida
    BY DEF Mudanca, Volta, Saida
  <2> HIDE DEF row
  <2> QED  BY <1>2, <2>1, <2>2
<1>4. ASSUME NEW u \in Contas \union {Ninguem}, LinkAccount(s, c, u) PROVE OInv'
  <2> DEFINE row == [conta |-> u]
  <2>1. Inicia(s, "LinkAccount", [Escrita EXCEPT !.quem = {c}, !.cadastro = [x \in {c} |-> row]])
    BY <1>4 DEF LinkAccount
  <2>2. row \in Mudanca
    BY DEF Mudanca, Ligacao
  <2>3. row \notin Saida
    <3>1. DOMAIN row = {"conta"} /\ \A x \in Saida : "ativo" \in DOMAIN x
      BY DEF Saida
    <3> QED  BY <3>1
  <2> HIDE DEF row
  <2> QED  BY <1>2, <2>1, <2>2, <2>3
<1> QED  BY <1>1, <1>3, <1>4

\* A request that writes links only.
EmVinculos(Q, V) == [Escrita EXCEPT !.quem = Q, !.vinculos = V]

Iniciado(op, w) == [op |-> op, n |-> N, dia |-> hoje, obsoleto |-> FALSE, escrita |-> w]

LEMMA OnlyLinks ==
    ASSUME NEW Q, NEW V, Q \subseteq Colaboradores, V \subseteq Vinculo
    PROVE  /\ EmVinculos(Q, V) \in Gravacao
           /\ EmVinculos(Q, V).quem = Q /\ EmVinculos(Q, V).vinculos = V
           /\ EmVinculos(Q, V).funcoes = {} /\ EmVinculos(Q, V).canceladas = {}
           /\ EmVinculos(Q, V).chaves = {} /\ DOMAIN EmVinculos(Q, V).cadastro = {}
BY NoChange DEF EmVinculos, Escrita, Gravacao

LEMMA LinksBegin ==
    ASSUME OInv, NEW s \in Slots, NEW op \in {"AssignLeader", "CloseAssignment"},
           NEW w \in Gravacao, Inicia(s, op, w), w.funcoes = {}, w.chaves = {},
           WritesOK(Iniciado(op, w)), LinksCurrent(Iniciado(op, w))
    PROVE  OInv'
<1> DEFINE p == Iniciado(op, w)
<1>1. /\ p.op = op /\ p.n = N /\ p.dia = hoje /\ p.escrita = w
      /\ p = [op |-> op, n |-> N, dia |-> hoje, obsoleto |-> FALSE, escrita |-> w]
  BY DEF Iniciado
<1>2. WritesOK(p) /\ LinksCurrent(p)
  OBVIOUS
<1> HIDE DEF p
<1>3. DepartureCurrent(p) /\ ModalityCurrent(p) /\ FunctionsCurrent(p)
  BY <1>1 DEF DepartureCurrent, ModalityCurrent, FunctionsCurrent
<1>4. CurrentOK(p)
  BY <1>1, <1>2, <1>3, KeysStarted DEF CurrentOK
<1> QED  BY <1>1, <1>2, <1>4, BeginKeeps DEF Operacoes

LEMMA AssignLeaderKeeps ==
    ASSUME OInv, NEW s \in Slots, NEW c \in Colaboradores, NEW l \in Colaboradores,
           NEW tipo \in Tipos, NEW de \in Dias, AssignLeader(s, c, l, tipo, de)
    PROVE  OInv'
<1> DEFINE x == [n |-> N, quem |-> c, lider |-> l, tipo |-> tipo, de |-> de, ate |-> Sempre]
<1>1. PICK atual \in SUBSET LideresVigentes(c, tipo, de) :
          /\ SemConflitoFuturo(DoConsultor(c, tipo) \ atual, de)
          /\ Inicia(s, "AssignLeader",
                 [Escrita EXCEPT !.quem = {c, l},
                     !.vinculos = Encerrados(atual, de) \union {x}])
  BY DEF AssignLeader
<1> DEFINE V == Encerrados(atual, de) \union {x}
           w == EmVinculos({c, l}, V)
           p == Iniciado("AssignLeader", w)
<1>2. Inicia(s, "AssignLeader", w)
  BY <1>1 DEF EmVinculos
<1>3. N \in Ns /\ N = iniciados + 1 /\ iniciados \in Int
  BY <1>2, NewRows DEF OInv, TypesOK, OrganizationTypeOK, Ns
<1>4. \A v \in atual : /\ v \in vinculos /\ v \in Vinculo /\ v.n \in Int /\ v.n <= iniciados
                       /\ v.quem = c /\ v.tipo = tipo /\ de <= v.ate
  BY DEF LideresVigentes, DoConsultor, Vige, OInv, TypesOK, OrganizationTypeOK, NumbersOK,
         Vinculo, Ns
<1>5. de - 1 \in 0..Sempre /\ de - 1 < de /\ de - 1 # Sempre /\ de \in Int
  BY Calendar DEF Dias
<1>6. x \in Vinculo /\ x.n = N /\ x.quem = c /\ x.lider = l /\ x.tipo = tipo /\ x.de = de
      /\ x.ate = Sempre
  BY <1>3, Calendar DEF Vinculo
<1> HIDE DEF x
<1>7. \A y \in V : \/ y = x
                   \/ \E v \in atual : y = Ate(v, de - 1)
  BY DEF Encerrados
<1>8. \A v \in atual : /\ Ate(v, de - 1) \in V
                       /\ Ate(v, de - 1) \in Vinculo /\ Ate(v, de - 1).ate = de - 1
                       /\ Mesma(v, Ate(v, de - 1)) /\ Ate(v, de - 1).n = v.n
                       /\ Ate(v, de - 1).quem = c /\ Ate(v, de - 1).tipo = tipo
  BY <1>4, <1>5, LinkRows DEF Encerrados
<1>9. x \in V /\ V \in SUBSET Vinculo
  BY <1>6, <1>7, <1>8
<1>10. p = Iniciado("AssignLeader", w) /\ w = EmVinculos({c, l}, V)
  OBVIOUS
<1> HIDE DEF p, w, V
<1>11. /\ p.op = "AssignLeader" /\ p.n = N /\ p.dia = hoje /\ p.escrita = w
       /\ w.quem = {c, l} /\ w.vinculos = V /\ w.funcoes = {} /\ w.canceladas = {}
       /\ w.chaves = {} /\ DOMAIN w.cadastro = {} /\ w \in Gravacao
  <2>1. {c, l} \subseteq Colaboradores /\ V \subseteq Vinculo
    BY <1>9
  <2> QED  BY <1>10, <2>1, OnlyLinks DEF Iniciado
<1>12. \A v \in atual : v.n # N
  BY <1>3, <1>4
<1>13. \A y \in V : IF y = x THEN y.n = N ELSE y.n # N /\ y.ate = de - 1 /\ y.quem = c /\ y.tipo = tipo
  BY <1>6, <1>7, <1>8, <1>12
<1>14. \A y, z \in V : Mesma(y, z) \/ (y.n = N /\ z.n = N) => y = z
  <2> SUFFICES ASSUME NEW y \in V, NEW z \in V, Mesma(y, z) \/ (y.n = N /\ z.n = N) PROVE y = z
    OBVIOUS
  <2>1. Mesma(y, z) => y.n = z.n
    BY <1>9, LinkRows
  <2>2. CASE y.n = N
    BY <1>13, <2>1, <2>2
  <2>3. CASE y.n # N
    <3>1. PICK v \in atual, u \in atual : y = Ate(v, de - 1) /\ z = Ate(u, de - 1)
      BY <1>6, <1>7, <2>1, <2>3
    <3>2. Mesma(v, u)
      <4>1. Mesma(v, y) /\ Mesma(u, z) /\ Mesma(y, z)
        BY <1>8, <2>3, <3>1
      <4> QED  BY <1>4, <1>9, <4>1, LinkRows
    <3> QED  BY <1>4, <3>1, <3>2 DEF OInv, NumbersOK
  <2> QED  BY <2>2, <2>3
<1>15. WritesOK(p)
  <2>1. \A y \in V : /\ y.quem \in {c, l}
                     /\ y.ate = Sempre => y.n = N
                     /\ y.n = N => y.ate = Sempre /\ y.lider \in {c, l}
    BY <1>5, <1>6, <1>13
  <2>2. \E y \in V : /\ y.n = N
                     /\ \A z \in V \ {y} : z.quem = y.quem /\ z.tipo = y.tipo /\ z.ate = y.de - 1
    BY <1>6, <1>9, <1>13
  <2> QED  BY <1>11, <1>14, <2>1, <2>2 DEF WritesOK
<1>16. LinksCurrent(p)
  <2>1. ASSUME NEW y \in V, y.n = N
        PROVE  /\ Ativo(y.quem) /\ Ativo(y.lider)
               /\ \A v \in DoConsultor(y.quem, y.tipo) :
                      v.ate < y.de \/ \E z \in V : Mesma(v, z) /\ z.ate < y.de
    <3>1. y = x
      BY <1>13, <2>1
    <3>2. Ativo(c) /\ Ativo(l)
      BY DEF AssignLeader
    <3>3. \A v \in DoConsultor(c, tipo) :
              v.ate < de \/ \E z \in V : Mesma(v, z) /\ z.ate < de
      BY <1>1, <1>5, <1>8 DEF SemConflitoFuturo
    <3> QED  BY <1>6, <3>1, <3>2, <3>3
  <2>2. ASSUME NEW y \in V, y.n # N PROVE \E v \in vinculos : Mesma(v, y) /\ y.ate <= v.ate
    <3>1. PICK v \in atual : y = Ate(v, de - 1)
      BY <1>6, <1>7, <2>2
    <3>2. v.ate \in Int
      BY <1>4, Calendar DEF Vinculo
    <3> QED  BY <1>4, <1>5, <1>8, <3>1, <3>2
  <2> QED  BY <1>11, <2>1, <2>2 DEF LinksCurrent
<1> QED  BY <1>2, <1>10, <1>11, <1>15, <1>16, LinksBegin

LEMMA CloseAssignmentKeeps ==
    ASSUME OInv, NEW s \in Slots, NEW v \in vinculos, NEW ate \in Dias, CloseAssignment(s, v, ate)
    PROVE  OInv'
<1> DEFINE x == Ate(v, ate)
           Q == {v.quem, v.lider}
           V == {x}
           w == EmVinculos(Q, V)
           p == Iniciado("CloseAssignment", w)
<1>1. v.ate = Sempre /\ Inicia(s, "CloseAssignment", w)
  BY DEF CloseAssignment, EmVinculos
<1>2. v \in Vinculo /\ v.n \in Int /\ v.n <= iniciados
  BY DEF OInv, TypesOK, OrganizationTypeOK, NumbersOK, Vinculo, Ns
<1>3. N = iniciados + 1 /\ iniciados \in Int
  BY <1>1, NewRows DEF OInv, TypesOK, OrganizationTypeOK, Ns
<1>4. ate \in 0..Sempre /\ ate <= Sempre /\ ate # Sempre
  BY Calendar DEF Dias
<1>5. x \in Vinculo /\ x.ate = ate /\ Mesma(v, x) /\ x.n = v.n /\ x.quem = v.quem
  BY <1>2, <1>4, LinkRows
<1>6. Q \in SUBSET Colaboradores /\ V \in SUBSET Vinculo
  BY <1>2, <1>5 DEF Vinculo
<1>7. /\ p = Iniciado("CloseAssignment", w) /\ w = EmVinculos(Q, V)
      /\ V = {x} /\ v.quem \in Q
  OBVIOUS
<1> HIDE DEF x, Q, V, w, p
<1>8. /\ p.op = "CloseAssignment" /\ p.n = N /\ p.dia = hoje /\ p.escrita = w
      /\ w.quem = Q /\ w.vinculos = V /\ w.funcoes = {} /\ w.canceladas = {}
      /\ w.chaves = {} /\ DOMAIN w.cadastro = {} /\ w \in Gravacao
  BY <1>6, <1>7, OnlyLinks DEF Iniciado
<1>9. x.n # N
  BY <1>2, <1>3, <1>5
<1>10. WritesOK(p)
  <2>1. \A y \in w.vinculos : /\ y.quem \in w.quem /\ y.ate # Sempre /\ y.n # p.n
                              /\ \A z \in w.vinculos : y = z
    BY <1>4, <1>5, <1>7, <1>8, <1>9
  <2> QED  BY <1>8, <2>1 DEF WritesOK
<1>11. LinksCurrent(p)
  BY <1>1, <1>4, <1>5, <1>7, <1>8, <1>9 DEF LinksCurrent
<1> QED  BY <1>1, <1>7, <1>8, <1>10, <1>11, LinksBegin

LEMMA DeactivateKeeps ==
    ASSUME OInv, NEW s \in Slots, NEW c \in Colaboradores, Deactivate(s, c)
    PROVE  OInv'
<1> DEFINE Q == {c} \union {v.quem : v \in EquipeDoLider(c, hoje)}
           F == {Ate(f, hoje - 1) : f \in {g \in FuncoesAEncerrar(c) : g.de < hoje}}
           X == {f \in FuncoesAEncerrar(c) : f.de >= hoje}
           L == {w \in vinculos : w.ate = Sempre /\ (w.quem = c \/ w \in EquipeDoLider(c, hoje))}
           V == {Ate(v, hoje) : v \in L}
           row == [ativo |-> FALSE, desde |-> hoje]
           w == [Escrita EXCEPT !.quem = Q, !.funcoes = F, !.canceladas = X, !.vinculos = V,
                                !.cadastro = [x \in {c} |-> row]]
           p == Iniciado("Deactivate", w)
<1>1. Ativo(c) /\ Inicia(s, "Deactivate", w)
  BY DEF Deactivate
<1>2. /\ \A v \in vinculos : v \in Vinculo /\ v.n \in Int /\ v.n <= iniciados
      /\ \A f \in funcoes : f \in Funcao /\ f.de \in Int /\ f.ate \in Int
  BY Calendar DEF OInv, TypesOK, OrganizationTypeOK, NumbersOK, Vinculo, Ns, Funcao
<1>3. N = iniciados + 1 /\ iniciados \in Int
  BY <1>1, NewRows DEF OInv, TypesOK, OrganizationTypeOK, Ns
<1>4. /\ hoje \in Dias /\ hoje \in Int /\ hoje \in 0..Sempre /\ hoje - 1 \in 0..Sempre
      /\ hoje < Sempre /\ hoje - 1 < hoje
  BY Calendar DEF OInv, TypesOK, OrganizationTypeOK, Dias
<1>5. \A f \in FuncoesAEncerrar(c) : f \in funcoes /\ f.quem = c
  BY DEF FuncoesAEncerrar, DoColaborador
<1>6. \A f \in funcoes : f.quem = c => f.ate < hoje \/ f \in FuncoesAEncerrar(c)
  BY <1>2, <1>4 DEF FuncoesAEncerrar, DoColaborador
<1>7. \A x \in F : x \in Funcao /\ x.quem = c /\ x.ate = hoje - 1
  BY <1>2, <1>4, <1>5, FunctionRows
<1>8. \A x \in X : x \in Funcao /\ x.quem = c
  BY <1>2, <1>5
<1>9. \A f \in FuncoesAEncerrar(c) : \E x \in F \union X : Mesma(f, x)
  <2> SUFFICES ASSUME NEW f \in FuncoesAEncerrar(c) PROVE \E x \in F \union X : Mesma(f, x)
    OBVIOUS
  <2>1. CASE f.de >= hoje
    <3>1. f \in X /\ Mesma(f, f)
      BY <2>1 DEF Mesma
    <3> QED  BY <3>1
  <2>2. CASE f.de < hoje
    <3>1. Ate(f, hoje - 1) \in F /\ Mesma(f, Ate(f, hoje - 1))
      BY <1>2, <1>4, <1>5, <2>2, FunctionRows
    <3> QED  BY <3>1
  <2> QED  BY <1>2, <1>4, <1>5, <2>1, <2>2
<1>10. \A v \in L : /\ Ate(v, hoje) \in V /\ v \in vinculos /\ v.ate = Sempre /\ v.quem \in Q
                    /\ Ate(v, hoje) \in Vinculo /\ Ate(v, hoje).ate = hoje
                    /\ Mesma(v, Ate(v, hoje)) /\ Ate(v, hoje).n = v.n
                    /\ Ate(v, hoje).quem = v.quem
  BY <1>2, <1>4, LinkRows
<1>11. \A v \in vinculos : v.ate = Sempre /\ (v.quem = c \/ (v.lider = c /\ v.de <= hoje)) => v \in L
  BY <1>4 DEF EquipeDoLider, Vige
<1>12. \A x \in V : \E v \in L : x = Ate(v, hoje)
  OBVIOUS
<1>13. Q \subseteq Colaboradores /\ c \in Q
  BY <1>2 DEF EquipeDoLider, Vinculo
<1>14. row \in Saida /\ row.desde = hoje
  BY <1>4 DEF Saida
<1> HIDE DEF Q, F, X, L, V, row
<1>15. F \subseteq Funcao /\ X \subseteq Funcao /\ V \subseteq Vinculo
  BY <1>7, <1>8, <1>10, <1>12
<1>16. /\ w.quem = Q /\ w.funcoes = F /\ w.canceladas = X /\ w.vinculos = V /\ w.chaves = {}
       /\ DOMAIN w.cadastro = {c} /\ w.cadastro[c] = row
       /\ w \in Gravacao
  <2>1. [x \in {c} |-> row] \in UNION {[S -> Mudanca] : S \in SUBSET Colaboradores}
    <3>1. {c} \in SUBSET Colaboradores /\ row \in Mudanca
      BY <1>14 DEF Mudanca
    <3>2. [x \in {c} |-> row] \in [{c} -> Mudanca]
      BY <3>1
    <3> QED  BY <3>1, <3>2
  <2> QED  BY <1>13, <1>15, <2>1 DEF Escrita, Gravacao
<1>17. /\ p.op = "Deactivate" /\ p.n = N /\ p.dia = hoje /\ p.escrita = w
       /\ p = [op |-> "Deactivate", n |-> N, dia |-> hoje, obsoleto |-> FALSE, escrita |-> w]
  BY DEF Iniciado
<1> HIDE DEF w, p
<1>18. \A x \in V : x.n # N /\ x.ate = hoje /\ x.quem \in Q
  BY <1>2, <1>3, <1>10, <1>12
<1>19. \A x, y \in V : Mesma(x, y) => x = y
  <2> SUFFICES ASSUME NEW x \in V, NEW y \in V, Mesma(x, y) PROVE x = y
    OBVIOUS
  <2>1. PICK v \in L, u \in L : x = Ate(v, hoje) /\ y = Ate(u, hoje)
    BY <1>12
  <2>2. v \in vinculos /\ u \in vinculos /\ Mesma(v, x) /\ Mesma(u, y)
    BY <1>10, <2>1
  <2>3. Mesma(v, u)
    BY <1>2, <1>15, <2>2, LinkRows
  <2> QED  BY <2>1, <2>2, <2>3 DEF OInv, NumbersOK
<1>20. WritesOK(p)
  <2>1. \A x \in V : /\ x.quem \in Q /\ x.ate # Sempre /\ x.n # N
                     /\ \A y \in V : Mesma(x, y) => x = y
    BY <1>4, <1>18, <1>19
  <2>2. \A x \in F \union X : x.quem \in Q
    BY <1>7, <1>8, <1>13
  <2>3. \A x \in F : x.ate < hoje
    BY <1>4, <1>7
  <2> QED  BY <1>13, <1>14, <1>16, <1>17, <2>1, <2>2, <2>3 DEF WritesOK
<1>21. LinksCurrent(p)
  <2>1. \A x \in V : x.n # N /\ \E v \in vinculos : Mesma(v, x) /\ x.ate <= v.ate
    BY <1>4, <1>10, <1>12, <1>18
  <2> QED  BY <1>16, <1>17, <2>1 DEF LinksCurrent
<1>22. DepartureCurrent(p)
  <2>1. \A f \in DoColaborador(c) : f.ate < hoje \/ \E x \in F \union X : Mesma(f, x)
    BY <1>6, <1>9 DEF DoColaborador
  <2>2. \A v \in vinculos : v.ate = Sempre /\ (v.quem = c \/ (v.lider = c /\ v.de <= hoje)) =>
            \E x \in V : Mesma(v, x)
    BY <1>10, <1>11
  <2> QED  BY <1>16, <1>17, <2>1, <2>2 DEF DepartureCurrent
<1>23. ModalityCurrent(p) /\ FunctionsCurrent(p)
  BY <1>1, <1>7, <1>16, <1>17 DEF ModalityCurrent, FunctionsCurrent, Ativo
<1>24. CurrentOK(p)
  BY <1>17, <1>21, <1>22, <1>23, KeysStarted DEF CurrentOK
<1> QED  BY <1>1, <1>16, <1>17, <1>20, <1>24, BeginKeeps DEF Operacoes

LEMMA BeginStep ==
    ASSUME OInv, NEW s \in Slots, Begin(s)
    PROVE  OInv'
BY CreateKeeps, RegisterKeeps, AddFunctionKeeps, ChangeModalityKeeps, CloseFunctionKeeps,
   AssignLeaderKeeps, CloseAssignmentKeeps, DeactivateKeeps DEF Begin

-----------------------------------------------------------------------------
\* A request commits.  What it finds, what it leaves and what it brings.

Estranhas(r, novas) == \A x \in novas : ~Mesma(r, x)

LEMMA Commit ==
    ASSUME OInv, NEW s \in Slots, Efetivar(s), NEW p, p = pedidos[s]
    PROVE  /\ p \in Pedido /\ EmCurso(s) /\ RequestOK(p)
           /\ \A f \in funcoes' :
                  \/ f \in funcoes /\ Estranhas(f, p.escrita.funcoes \union p.escrita.canceladas)
                  \/ f \in p.escrita.funcoes
           /\ \A f \in funcoes :
                  Estranhas(f, p.escrita.funcoes \union p.escrita.canceladas) => f \in funcoes'
           /\ \A v \in vinculos' :
                  \/ v \in vinculos /\ Estranhas(v, p.escrita.vinculos)
                  \/ v \in p.escrita.vinculos /\ (v.n = p.n \/ \E q \in vinculos : Mesma(q, v))
           /\ \A v \in vinculos :
                  \/ v \in vinculos' /\ Estranhas(v, p.escrita.vinculos)
                  \/ \E x \in p.escrita.vinculos : Mesma(v, x) /\ x \in vinculos'
           /\ \A x \in p.escrita.vinculos : x.n = p.n => x \in vinculos'
<1>1. p \in Pedido /\ EmCurso(s) /\ RequestOK(p)
  BY DEF Efetivar, OInv, TypesOK, RequestsOK, EmCurso
<1>2. /\ funcoes' = FuncoesGravadas(p.escrita, p.n)
      /\ vinculos' = Gravadas(vinculos, p.escrita.vinculos, p.n)
  BY DEF Efetivar, VinculosGravados
<1>3. /\ \A v \in vinculos' :
             \/ v \in vinculos /\ \A x \in p.escrita.vinculos : ~Mesma(v, x)
             \/ v \in p.escrita.vinculos /\ (v.n = p.n \/ \E q \in vinculos : Mesma(q, v))
      /\ \A v \in vinculos :
             \/ v \in vinculos' /\ \A x \in p.escrita.vinculos : ~Mesma(v, x)
             \/ \E x \in p.escrita.vinculos : Mesma(v, x) /\ x \in vinculos'
      /\ \A x \in p.escrita.vinculos : x.n = p.n => x \in vinculos'
  BY <1>2, Written
<1> DEFINE G == Gravadas(funcoes, p.escrita.funcoes, p.n)
<1>4. funcoes' = {f \in G : ~\E x \in p.escrita.canceladas : Mesma(f, x)}
  BY <1>2 DEF FuncoesGravadas
<1>5. /\ \A f \in G : \/ f \in funcoes /\ \A x \in p.escrita.funcoes : ~Mesma(f, x)
                      \/ f \in p.escrita.funcoes
      /\ \A f \in funcoes : \/ f \in G
                            \/ \E x \in p.escrita.funcoes : Mesma(f, x)
  BY Written
<1> HIDE DEF G
<1> QED  BY <1>1, <1>3, <1>4, <1>5 DEF Estranhas

\* Nothing about the people of Q is written.
Untouched(Q) ==
    /\ \A f \in funcoes \union funcoes' : f.quem \in Q => f \in funcoes \intersect funcoes'
    /\ \A v \in vinculos \union vinculos' : v.quem \in Q => v \in vinculos \intersect vinculos'
    /\ \A k \in chaves \union chaves' : k.quem \in Q => k \in chaves \intersect chaves'
    /\ \A c \in Q : cadastro'[c] = cadastro[c]
    /\ \A v \in vinculos' : v.ate = Sempre /\ v.lider \in Q => v \in vinculos

LEMMA CommitTouches ==
    ASSUME OInv, NEW s \in Slots, Efetivar(s), NEW Q \in SUBSET Colaboradores,
           Q \intersect pedidos[s].escrita.quem = {}
    PROVE  Untouched(Q)
<1> DEFINE p == pedidos[s]
           w == p.escrita
<1>1. /\ p \in Pedido /\ RequestOK(p) /\ Q \intersect w.quem = {}
      /\ \A f \in funcoes' : \/ f \in funcoes /\ Estranhas(f, w.funcoes \union w.canceladas)
                             \/ f \in w.funcoes
      /\ \A f \in funcoes : Estranhas(f, w.funcoes \union w.canceladas) => f \in funcoes'
      /\ \A v \in vinculos' : \/ v \in vinculos /\ Estranhas(v, w.vinculos)
                              \/ v \in w.vinculos
      /\ \A v \in vinculos : \/ v \in vinculos' /\ Estranhas(v, w.vinculos)
                             \/ \E x \in w.vinculos : Mesma(v, x) /\ x \in vinculos'
  BY Commit
<1>2. /\ chaves' = ChavesTrocadas(w, p.n, p.dia) /\ cadastro' = CadastroGravado(w.cadastro)
  BY DEF Efetivar
<1>3. WritesOK(p)
  BY <1>1 DEF RequestOK
<1>4. /\ w.funcoes \subseteq Funcao /\ w.canceladas \subseteq Funcao /\ w.vinculos \subseteq Vinculo
      /\ funcoes \subseteq Funcao /\ vinculos \subseteq Vinculo
  BY <1>1 DEF Pedido, Gravacao, OInv, TypesOK, OrganizationTypeOK
<1> HIDE DEF p
<1>5. \A x \in w.funcoes \union w.canceladas \union w.vinculos : x.quem \notin Q
  BY <1>1, <1>3 DEF WritesOK
<1>6. \A f \in funcoes \union funcoes' : f.quem \in Q => f \in funcoes \intersect funcoes'
  <2>1. \A f \in funcoes : f.quem \in Q => Estranhas(f, w.funcoes \union w.canceladas)
    BY <1>4, <1>5, FunctionRows DEF Estranhas
  <2> QED  BY <1>1, <1>5, <2>1
<1>7. \A v \in vinculos \union vinculos' : v.quem \in Q => v \in vinculos \intersect vinculos'
  BY <1>1, <1>4, <1>5, LinkRows
<1>8. \A k \in chaves \union chaves' : k.quem \in Q => k \in chaves \intersect chaves'
  <2>1. w.chaves \intersect Q = {}
    BY <1>1, <1>3 DEF WritesOK
  <2>2. \A k \in chaves : k \in Chave
    BY DEF OInv, TypesOK, OrganizationTypeOK
  <2>3. \A k \in chaves : k.quem \notin w.chaves => k \in chaves'
    BY <1>2 DEF ChavesTrocadas
  <2>4. \A k \in chaves' : k \in chaves \/ k.quem \in w.chaves
    <3> SUFFICES ASSUME NEW k \in chaves', k \notin chaves PROVE k.quem \in w.chaves
      OBVIOUS
    <3>1. CASE \E c \in w.chaves : k = [n |-> p.n, quem |-> c, de |-> p.dia, ate |-> Sempre]
      BY <3>1
    <3>2. CASE \E j \in chaves : j.quem \in w.chaves /\ k = Ate(j, p.dia)
      BY <2>2, <3>2 DEF Ate, Chave
    <3> QED  BY <1>2, <3>1, <3>2 DEF ChavesTrocadas
  <2> QED  BY <2>1, <2>3, <2>4
<1>9. \A c \in Q : cadastro'[c] = cadastro[c]
  <2>1. DOMAIN w.cadastro \intersect Q = {}
    BY <1>1, <1>3 DEF WritesOK
  <2> QED  BY <1>2, <2>1 DEF CadastroGravado
<1>10. \A v \in vinculos' : v.ate = Sempre /\ v.lider \in Q => v \in vinculos
  <2> SUFFICES ASSUME NEW v \in w.vinculos, v.ate = Sempre PROVE v.lider \notin Q
    BY <1>1
  <2>1. v.lider \in w.quem
    BY <1>3 DEF WritesOK
  <2> QED  BY <1>1, <2>1
<1> QED  BY <1>6, <1>7, <1>8, <1>9, <1>10 DEF Untouched

\* What a request read stays true while nobody writes about its people.
LEMMA CurrentKept ==
    ASSUME TypesOK, TypesOK', NEW p \in Pedido, WritesOK(p), CurrentOK(p),
           Untouched(p.escrita.quem), correu => correu'
    PROVE  CurrentOK(p)'
<1> DEFINE w == p.escrita
           Q == w.quem
<1>1. /\ w.funcoes \subseteq Funcao /\ w.canceladas \subseteq Funcao /\ w.vinculos \subseteq Vinculo
      /\ funcoes \subseteq Funcao /\ vinculos \subseteq Vinculo
      /\ funcoes' \subseteq Funcao /\ vinculos' \subseteq Vinculo
  BY DEF Pedido, Gravacao, TypesOK, OrganizationTypeOK
<1>2. LinksCurrent(p)'
  <2>1. ASSUME NEW x \in w.vinculos, x.n = p.n
        PROVE  /\ Ativo(x.quem)' /\ Ativo(x.lider)'
               /\ \A v \in DoConsultor(x.quem, x.tipo)' :
                      v.ate < x.de \/ \E y \in w.vinculos : Mesma(v, y) /\ y.ate < x.de
    <3>1. x.quem \in Q /\ x.lider \in Q
      BY <2>1 DEF WritesOK
    <3>2. DoConsultor(x.quem, x.tipo)' \subseteq DoConsultor(x.quem, x.tipo)
      BY <3>1 DEF Untouched, DoConsultor
    <3>3. /\ Ativo(x.quem) /\ Ativo(x.lider)
          /\ \A v \in DoConsultor(x.quem, x.tipo) :
                 v.ate < x.de \/ \E y \in w.vinculos : Mesma(v, y) /\ y.ate < x.de
      BY <2>1 DEF CurrentOK, LinksCurrent
    <3>4. Ativo(x.quem)' /\ Ativo(x.lider)'
      BY <3>1, <3>3 DEF Untouched, Ativo
    <3> QED  BY <3>2, <3>3, <3>4
  <2>2. ASSUME NEW x \in w.vinculos, x.n # p.n
        PROVE  \E v \in vinculos' : Mesma(v, x) /\ x.ate <= v.ate
    <3>1. PICK v \in vinculos : Mesma(v, x) /\ x.ate <= v.ate
      BY <2>2 DEF CurrentOK, LinksCurrent
    <3>2. v.quem \in Q
      BY <1>1, <3>1, LinkRows DEF WritesOK
    <3> QED  BY <3>1, <3>2 DEF Untouched
  <2> QED  BY <2>1, <2>2 DEF LinksCurrent
<1>3. DepartureCurrent(p)'
  <2> SUFFICES ASSUME p.op = "Deactivate", NEW c \in DOMAIN w.cadastro
               PROVE  /\ \A f \in DoColaborador(c)' :
                             \/ f.ate < p.dia
                             \/ \E x \in w.funcoes \union w.canceladas : Mesma(f, x)
                      /\ \A v \in vinculos' :
                             v.ate = Sempre /\ (v.quem = c \/ (v.lider = c /\ v.de <= p.dia)) =>
                                 \E x \in w.vinculos : Mesma(v, x)
    BY DEF DepartureCurrent
  <2>1. c \in Q
    BY DEF WritesOK
  <2>2. DoColaborador(c)' \subseteq DoColaborador(c)
    BY <2>1 DEF Untouched, DoColaborador
  <2>3. \A v \in vinculos' : v.ate = Sempre /\ (v.quem = c \/ v.lider = c) => v \in vinculos
    BY <2>1 DEF Untouched
  <2> QED  BY <2>2, <2>3 DEF CurrentOK, DepartureCurrent
<1>4. ModalityCurrent(p)'
  <2> SUFFICES ASSUME p.op = "ChangeModality"
               PROVE  /\ w.canceladas = {}
                      /\ \E f \in funcoes', x \in w.funcoes :
                             /\ w.funcoes = {Ate(f, x.de - 1), x}
                             /\ x.de >= p.dia /\ Vige(f, x.de)
    BY DEF ModalityCurrent, Vige
  <2>1. PICK f \in funcoes, x \in w.funcoes : /\ w.funcoes = {Ate(f, x.de - 1), x}
                                             /\ x.de >= p.dia /\ Vige(f, x.de)
    BY DEF CurrentOK, ModalityCurrent
  <2>2. Ate(f, x.de - 1).quem = f.quem
    BY <1>1 DEF Ate, Funcao
  <2>3. f.quem \in Q
    BY <2>1, <2>2 DEF WritesOK
  <2>4. f \in funcoes'
    BY <2>3 DEF Untouched
  <2> QED  BY <2>1, <2>4 DEF CurrentOK, ModalityCurrent
<1>5. FunctionsCurrent(p) => FunctionsCurrent(p)'
  BY DEF FunctionsCurrent, WritesOK, Untouched
<1>6. KeysCurrent(p) => KeysCurrent(p)'
  BY DEF KeysCurrent, WritesOK, Untouched
<1> QED  BY <1>2, <1>3, <1>4, <1>5, <1>6 DEF CurrentOK

\* A row of the register after a change of it.
Mesclada(r, m) == [k \in DOMAIN r |-> IF k \in DOMAIN m THEN m[k] ELSE r[k]]

LEMMA Merged ==
    ASSUME NEW r \in Cadastro, NEW m \in Mudanca
    PROVE  /\ Mesclada(r, m) \in Cadastro
           /\ m \in Saida => /\ Mesclada(r, m).existe = r.existe /\ ~Mesclada(r, m).ativo
                             /\ Mesclada(r, m).desde = m.desde
           /\ m \notin Saida => \/ Mesclada(r, m).ativo
                                \/ /\ Mesclada(r, m).existe = r.existe
                                   /\ Mesclada(r, m).ativo = r.ativo
                                   /\ Mesclada(r, m).desde = r.desde
<1> DEFINE q == Mesclada(r, m)
<1>1. /\ DOMAIN r = {"existe", "ativo", "desde", "conta"}
      /\ r.existe \in BOOLEAN /\ r.ativo \in BOOLEAN /\ r.desde \in 0..UltimoDia
      /\ r.conta \in Contas \union {Ninguem}
  BY DEF Cadastro
<1>2. /\ q.existe = IF "existe" \in DOMAIN m THEN m.existe ELSE r.existe
      /\ q.ativo = IF "ativo" \in DOMAIN m THEN m.ativo ELSE r.ativo
      /\ q.desde = IF "desde" \in DOMAIN m THEN m.desde ELSE r.desde
      /\ q.conta = IF "conta" \in DOMAIN m THEN m.conta ELSE r.conta
  BY <1>1 DEF Mesclada
<1>3. q = [existe |-> q.existe, ativo |-> q.ativo, desde |-> q.desde, conta |-> q.conta]
  BY <1>1 DEF Mesclada
<1> HIDE DEF q
<1>4. 0 \in 0..UltimoDia /\ Dias \subseteq 0..UltimoDia
  BY Calendar DEF Dias
<1>5. ASSUME q.existe \in BOOLEAN, q.ativo \in BOOLEAN, q.desde \in 0..UltimoDia,
             q.conta \in Contas \union {Ninguem}
      PROVE  q \in Cadastro
  BY <1>3, <1>5 DEF Cadastro
<1>6. CASE m \in Registro
  <2>1. /\ DOMAIN m = {"existe", "ativo", "desde", "conta"} /\ m.existe = TRUE /\ m.ativo = TRUE
        /\ m.desde = 0 /\ m.conta \in Contas \union {Ninguem} /\ m \notin Saida
    BY <1>6 DEF Registro, Saida
  <2>2. q \in Cadastro /\ q.ativo
    BY <1>2, <1>4, <1>5, <2>1
  <2> QED  BY <2>1, <2>2 DEF q
<1>7. CASE m \in Saida
  <2>1. DOMAIN m = {"ativo", "desde"} /\ m.ativo = FALSE /\ m.desde \in Dias
    BY <1>7 DEF Saida
  <2>2. q \in Cadastro /\ q.existe = r.existe /\ ~q.ativo /\ q.desde = m.desde
    BY <1>1, <1>2, <1>4, <1>5, <2>1
  <2> QED  BY <1>7, <2>2 DEF q
<1>8. CASE m \in Volta
  <2>1. DOMAIN m = {"ativo", "desde"} /\ m.ativo = TRUE /\ m.desde = 0 /\ m \notin Saida
    BY <1>8 DEF Volta, Saida
  <2>2. q \in Cadastro /\ q.ativo
    BY <1>1, <1>2, <1>4, <1>5, <2>1
  <2> QED  BY <2>1, <2>2 DEF q
<1>9. CASE m \in Ligacao
  <2>1. DOMAIN m = {"conta"} /\ m.conta \in Contas \union {Ninguem}
    BY <1>9 DEF Ligacao
  <2>2. m \notin Saida
    <3>1. \A x \in Saida : "ativo" \in DOMAIN x
      BY DEF Saida
    <3> QED  BY <2>1, <3>1
  <2>3. q \in Cadastro /\ q.existe = r.existe /\ q.ativo = r.ativo /\ q.desde = r.desde
    BY <1>1, <1>2, <1>5, <2>1
  <2> QED  BY <2>2, <2>3 DEF q
<1> QED  BY <1>6, <1>7, <1>8, <1>9 DEF Mudanca

LEMMA Registered ==
    ASSUME OInv, NEW s \in Slots, Efetivar(s)
    PROVE  /\ cadastro' \in [Colaboradores -> Cadastro]
           /\ \A c \in Colaboradores :
                  IF c \in DOMAIN pedidos[s].escrita.cadastro
                  THEN /\ pedidos[s].escrita.cadastro[c] \in Mudanca
                       /\ cadastro'[c] = Mesclada(cadastro[c], pedidos[s].escrita.cadastro[c])
                  ELSE cadastro'[c] = cadastro[c]
<1> DEFINE w == pedidos[s].escrita.cadastro
<1>1. cadastro \in [Colaboradores -> Cadastro]
  BY DEF OInv, TypesOK, OrganizationTypeOK
<1>2. \A c \in DOMAIN w : w[c] \in Mudanca
  <2>1. pedidos[s] \in Pedido
    BY Commit
  <2>2. PICK S \in SUBSET Colaboradores : w \in [S -> Mudanca]
    BY <2>1 DEF Pedido, Gravacao
  <2> QED  BY <2>2
<1>3. cadastro' = CadastroGravado(w)
  BY DEF Efetivar
<1> HIDE DEF w
<1>4. \A c \in Colaboradores :
          IF c \in DOMAIN w THEN cadastro'[c] = Mesclada(cadastro[c], w[c])
          ELSE cadastro'[c] = cadastro[c]
  BY <1>3 DEF CadastroGravado, Mesclada
<1>5. cadastro' \in [Colaboradores -> Cadastro]
  <2>1. \A c \in Colaboradores : cadastro'[c] \in Cadastro
    BY <1>1, <1>2, <1>4, Merged
  <2> QED  BY <1>3, <2>1 DEF CadastroGravado
<1> QED  BY <1>2, <1>4, <1>5 DEF w

LEMMA CommitTypes ==
    ASSUME OInv, NEW s \in Slots, Efetivar(s)
    PROVE  /\ TypesOK' /\ hoje' = hoje /\ iniciados' = iniciados /\ (correu => correu')
           /\ ~correu' => ~correu /\ ~pedidos[s].obsoleto
           /\ ~EmCurso(s)'
           /\ \A t \in Slots : EmCurso(t)' =>
                  /\ t # s /\ EmCurso(t)
                  /\ pedidos'[t] = [pedidos[t] EXCEPT !.obsoleto = pedidos'[t].obsoleto]
                  /\ \/ pedidos'[t].obsoleto
                     \/ /\ pedidos[t].escrita.quem \intersect pedidos[s].escrita.quem = {}
                        /\ pedidos'[t] = pedidos[t]
<1> DEFINE p == pedidos[s]
           w == p.escrita
<1>1. /\ p \in Pedido
      /\ \A f \in funcoes' : f \in funcoes \/ f \in w.funcoes
      /\ \A v \in vinculos' : v \in vinculos \/ v \in w.vinculos
  BY Commit
<1>2. /\ chaves' = ChavesTrocadas(w, p.n, p.dia) /\ correu' = (correu \/ p.obsoleto)
      /\ hoje' = hoje /\ iniciados' = iniciados
      /\ pedidos' = [t \in Slots |->
             IF t = s THEN Vago
             ELSE IF pedidos[t] # Vago /\ pedidos[t].escrita.quem \intersect w.quem # {}
                  THEN [pedidos[t] EXCEPT !.obsoleto = TRUE]
                  ELSE pedidos[t]]
  BY DEF Efetivar
<1> HIDE DEF p
<1>3. /\ w.funcoes \subseteq Funcao /\ w.vinculos \subseteq Vinculo /\ w.chaves \subseteq Colaboradores
      /\ p.n \in Ns /\ p.dia \in Dias /\ p.obsoleto \in BOOLEAN
  BY <1>1 DEF Pedido, Gravacao
<1>4. /\ hoje \in Dias /\ funcoes \subseteq Funcao /\ vinculos \subseteq Vinculo /\ chaves \subseteq Chave
      /\ iniciados \in Ns /\ correu \in BOOLEAN
      /\ \A t \in Slots : pedidos[t] \in Pedido \union {Vago}
  BY DEF OInv, TypesOK, OrganizationTypeOK
<1>5. chaves' \subseteq Chave
  <2> SUFFICES ASSUME NEW k \in chaves' PROVE k \in Chave
    OBVIOUS
  <2>1. p.dia \in 0..Sempre /\ Sempre \in 0..Sempre
    BY <1>3, Calendar DEF Dias
  <2>2. CASE \E c \in w.chaves : k = [n |-> p.n, quem |-> c, de |-> p.dia, ate |-> Sempre]
    BY <1>3, <2>1, <2>2 DEF Chave
  <2>3. CASE \E j \in chaves : k = j \/ k = Ate(j, p.dia)
    BY <1>4, <2>1, <2>3, KeyRows
  <2> QED  BY <1>2, <2>2, <2>3 DEF ChavesTrocadas
<1>6. \A t \in Slots : pedidos[t] # Vago => [pedidos[t] EXCEPT !.obsoleto = TRUE] \in Pedido
  BY <1>4 DEF Pedido
<1>7. pedidos' \in [Slots -> Pedido \union {Vago}]
  BY <1>2, <1>4, <1>6
<1>8. OrganizationTypeOK'
  BY <1>1, <1>2, <1>3, <1>4, <1>5, Registered DEF OrganizationTypeOK
<1>9. \A r \in Pedido : Vago # [r EXCEPT !.obsoleto = TRUE] /\ [r EXCEPT !.obsoleto = r.obsoleto] = r
                        /\ [r EXCEPT !.obsoleto = TRUE].obsoleto = TRUE
  BY DEF Pedido, Vago
<1>10. ASSUME NEW t \in Slots, EmCurso(t)'
       PROVE  /\ t # s /\ EmCurso(t)
              /\ pedidos'[t] = [pedidos[t] EXCEPT !.obsoleto = pedidos'[t].obsoleto]
              /\ \/ pedidos'[t].obsoleto
                 \/ /\ pedidos[t].escrita.quem \intersect w.quem = {}
                    /\ pedidos'[t] = pedidos[t]
  <2>1. t # s /\ EmCurso(t) /\ pedidos[t] \in Pedido
    BY <1>2, <1>4, <1>10 DEF EmCurso
  <2>2. CASE pedidos[t].escrita.quem \intersect w.quem # {}
    <3>1. pedidos'[t] = [pedidos[t] EXCEPT !.obsoleto = TRUE]
      BY <1>2, <2>1, <2>2 DEF EmCurso
    <3> QED  BY <1>9, <2>1, <3>1
  <2>3. CASE pedidos[t].escrita.quem \intersect w.quem = {}
    <3>1. pedidos'[t] = pedidos[t]
      BY <1>2, <2>1, <2>3
    <3> QED  BY <1>9, <2>1, <2>3, <3>1
  <2> QED  BY <2>2, <2>3
<1>11. ~EmCurso(s)'
  BY <1>2 DEF EmCurso
<1> QED  BY <1>2, <1>3, <1>4, <1>7, <1>8, <1>10, <1>11 DEF TypesOK, p

LEMMA CommitNumbers ==
    ASSUME OInv, NEW s \in Slots, Efetivar(s)
    PROVE  NumbersOK'
<1> DEFINE p == pedidos[s]
           w == p.escrita
<1>1. /\ p \in Pedido /\ RequestOK(p) /\ EmCurso(s)
      /\ \A v \in vinculos' :
             \/ v \in vinculos /\ Estranhas(v, w.vinculos)
             \/ v \in w.vinculos /\ (v.n = p.n \/ \E q \in vinculos : Mesma(q, v))
  BY Commit
<1>2. /\ iniciados' = iniciados
      /\ \A t \in Slots : EmCurso(t)' =>
             /\ t # s /\ EmCurso(t)
             /\ pedidos'[t] = [pedidos[t] EXCEPT !.obsoleto = pedidos'[t].obsoleto]
  BY CommitTypes
<1>3. \A t \in Slots : EmCurso(t)' => t # s /\ EmCurso(t) /\ pedidos'[t].n = pedidos[t].n
  BY <1>2 DEF OInv, TypesOK, EmCurso, Pedido
<1>4. w.vinculos \subseteq Vinculo /\ vinculos \subseteq Vinculo /\ vinculos' \subseteq Vinculo
  BY <1>1 DEF Pedido, Gravacao, OInv, TypesOK, OrganizationTypeOK
<1>5. p.n <= iniciados /\ \A t \in Slots : EmCurso(t) /\ t # s => pedidos[t].n # p.n
  BY <1>1 DEF OInv, NumbersOK
<1> HIDE DEF p
<1>6. \A v \in vinculos' : v.n = p.n \/ \E q \in vinculos : v.n = q.n
  BY <1>1, <1>4, LinkRows
<1>7. \A v \in vinculos' : v.n <= iniciados'
  BY <1>2, <1>5, <1>6 DEF OInv, NumbersOK
<1>8. ASSUME NEW t \in Slots, EmCurso(t)'
      PROVE  /\ pedidos'[t].n <= iniciados'
             /\ \A u \in Slots : EmCurso(u)' /\ pedidos'[u].n = pedidos'[t].n => t = u
             /\ \A v \in vinculos' : v.n # pedidos'[t].n
  <2>1. t # s /\ EmCurso(t) /\ pedidos'[t].n = pedidos[t].n
    BY <1>3, <1>8
  <2>2. \A v \in vinculos' : v.n # pedidos'[t].n
    BY <1>5, <1>6, <2>1 DEF OInv, NumbersOK
  <2> QED  BY <1>2, <1>3, <2>1, <2>2 DEF OInv, NumbersOK
<1>9. ASSUME NEW v \in vinculos', NEW u \in vinculos', Mesma(v, u) PROVE v = u
  <2>1. Mesma(u, v) /\ v \in Vinculo /\ u \in Vinculo
    BY <1>4, <1>9, LinkRows
  <2>2. CASE v \in vinculos /\ Estranhas(v, w.vinculos)
    <3>1. u \notin w.vinculos
      BY <1>9, <2>2 DEF Estranhas
    <3> QED  BY <1>1, <1>9, <2>2, <3>1 DEF OInv, NumbersOK
  <2>3. CASE v \in w.vinculos
    <3>1. u \in w.vinculos
      BY <1>1, <2>1, <2>3 DEF Estranhas
    <3> QED  BY <1>1, <1>9, <2>3, <3>1 DEF RequestOK, WritesOK
  <2> QED  BY <1>1, <2>2, <2>3
<1> QED  BY <1>7, <1>8, <1>9 DEF NumbersOK

LEMMA CommitRequests ==
    ASSUME OInv, NEW s \in Slots, Efetivar(s)
    PROVE  RequestsOK'
<1> SUFFICES ASSUME NEW t \in Slots, EmCurso(t)', NEW p, p = pedidos[t], NEW q, q = pedidos'[t]
             PROVE  RequestOK(q)'
  <2>1. \A t \in Slots : EmCurso(t)' => RequestOK(pedidos[t])'
    BY DEF RequestOK, WritesOK, CurrentOK, LinksCurrent, DepartureCurrent, ModalityCurrent,
       FunctionsCurrent, KeysCurrent
  <2> QED  BY <2>1 DEF RequestsOK
<1>1. /\ EmCurso(t) /\ q = [p EXCEPT !.obsoleto = q.obsoleto] /\ TypesOK' /\ hoje' = hoje
      /\ (correu => correu')
      /\ \/ q.obsoleto
         \/ /\ p.escrita.quem \intersect pedidos[s].escrita.quem = {}
            /\ q = p
  BY CommitTypes
<1>2. p \in Pedido /\ RequestOK(p) /\ TypesOK
  BY <1>1 DEF OInv, TypesOK, RequestsOK, EmCurso
<1>3. q.op = p.op /\ q.n = p.n /\ q.dia = p.dia /\ q.escrita = p.escrita
  BY <1>1, <1>2 DEF Pedido
<1>4. WritesOK(q) /\ q.dia <= hoje'
  BY <1>1, <1>2, <1>3 DEF RequestOK, WritesOK
<1>5. ASSUME ~q.obsoleto PROVE CurrentOK(q)'
  <2>1. q = p /\ p.escrita.quem \intersect pedidos[s].escrita.quem = {}
    BY <1>1, <1>5
  <2>2. WritesOK(p) /\ CurrentOK(p)
    BY <1>2, <1>5, <2>1 DEF RequestOK
  <2>3. p.escrita.quem \in SUBSET Colaboradores
    BY <1>2 DEF Pedido, Gravacao
  <2>4. Untouched(p.escrita.quem)
    BY <2>1, <2>3, CommitTouches
  <2>5. CurrentOK(p)'
    BY <1>1, <1>2, <2>2, <2>4, CurrentKept
  <2> QED  BY <2>1, <2>5
<1> QED  BY <1>4, <1>5 DEF RequestOK

LEMMA CommitKeys ==
    ASSUME OInv, NEW s \in Slots, Efetivar(s)
    PROVE  KeysOK'
<1> DEFINE p == pedidos[s]
           w == p.escrita
<1> SUFFICES ASSUME ~correu', NEW k \in chaves'
             PROVE  \E j \in chaves' :
                        /\ j.quem = k.quem /\ j.de <= hoje' /\ j.ate = Sempre
                        /\ \A i \in chaves' :
                               i.quem = k.quem => i.de <= j.de /\ (i.ate = Sempre => i = j)
  BY DEF KeysOK
<1>1. p \in Pedido /\ RequestOK(p) /\ ~correu /\ ~p.obsoleto /\ hoje' = hoje
  BY Commit, CommitTypes
<1>2. chaves' = ChavesTrocadas(w, p.n, p.dia)
  BY DEF Efetivar
<1> HIDE DEF p
<1>3. p.dia <= hoje /\ KeysCurrent(p)
  BY <1>1 DEF RequestOK, CurrentOK
<1>4. /\ w.chaves \subseteq Colaboradores /\ p.dia \in Dias /\ p.dia \in 0..Sempre /\ p.dia # Sempre
      /\ p.dia \in Int /\ \A i \in chaves : i \in Chave /\ i.de \in Int
  BY <1>1, Calendar DEF Pedido, Gravacao, OInv, TypesOK, OrganizationTypeOK, Chave, Dias
<1> DEFINE fresh(c) == [n |-> p.n, quem |-> c, de |-> p.dia, ate |-> Sempre]
<1>5. \A i \in chaves' :
          \/ i \in chaves /\ ~(i.quem \in w.chaves /\ i.ate = Sempre)
          \/ \E j \in chaves : j.quem \in w.chaves /\ i = Ate(j, p.dia)
          \/ \E c \in w.chaves : i = fresh(c)
  BY <1>2 DEF ChavesTrocadas
<1>6. \A j \in chaves : /\ Ate(j, p.dia).ate = p.dia /\ Ate(j, p.dia).quem = j.quem
                        /\ Ate(j, p.dia).de = j.de
  BY <1>4, KeyRows
<1>7. \A c \in w.chaves : fresh(c) \in chaves'
  BY <1>2 DEF ChavesTrocadas
<1>8. \A c : fresh(c).quem = c /\ fresh(c).de = p.dia /\ fresh(c).ate = Sempre
  OBVIOUS
<1> HIDE DEF fresh
<1>9. CASE k.quem \in w.chaves
  <2> DEFINE c == k.quem
  <2>1. ASSUME NEW i \in chaves', i.quem = c
        PROVE  i.de <= p.dia /\ (i.ate = Sempre => i = fresh(c))
    <3>1. CASE i \in chaves /\ ~(i.quem \in w.chaves /\ i.ate = Sempre)
      BY <1>3, <1>9, <2>1, <3>1 DEF KeysCurrent
    <3>2. CASE \E j \in chaves : j.quem \in w.chaves /\ i = Ate(j, p.dia)
      BY <1>3, <1>4, <1>6, <3>2 DEF KeysCurrent
    <3>3. CASE \E d \in w.chaves : i = fresh(d)
      BY <1>4, <1>8, <2>1, <3>3
    <3> QED  BY <1>5, <3>1, <3>2, <3>3
  <2> QED  BY <1>1, <1>3, <1>7, <1>8, <1>9, <2>1
<1>10. CASE k.quem \notin w.chaves
  <2>1. \A i \in chaves' : i.quem = k.quem => i \in chaves
    BY <1>5, <1>6, <1>8, <1>10
  <2>2. \A i \in chaves : i.quem = k.quem => i \in chaves'
    BY <1>2, <1>10 DEF ChavesTrocadas
  <2>3. PICK j \in chaves : /\ j.quem = k.quem /\ j.de <= hoje /\ j.ate = Sempre
                           /\ \A i \in chaves :
                                  i.quem = k.quem => i.de <= j.de /\ (i.ate = Sempre => i = j)
    BY <1>1, <2>1 DEF OInv, KeysOK
  <2> QED  BY <1>1, <2>1, <2>2, <2>3
<1> QED  BY <1>9, <1>10

LEMMA CommitInactive ==
    ASSUME OInv, NEW s \in Slots, Efetivar(s)
    PROVE  InactiveIsOut'
<1> DEFINE p == pedidos[s]
           w == p.escrita
<1> SUFFICES ASSUME ~correu', NEW c \in Colaboradores,
                    cadastro'[c].existe, ~cadastro'[c].ativo
             PROVE  /\ \A f \in funcoes' : f.quem = c => f.ate < cadastro'[c].desde
                    /\ \A v \in vinculos' : v.ate = Sempre =>
                           v.quem # c /\ (v.lider = c => v.de > cadastro'[c].desde)
  BY DEF InactiveIsOut, DoColaborador
<1>1. /\ p \in Pedido /\ RequestOK(p) /\ ~correu /\ ~p.obsoleto
      /\ \A f \in funcoes' : \/ f \in funcoes /\ Estranhas(f, w.funcoes \union w.canceladas)
                             \/ f \in w.funcoes
      /\ \A v \in vinculos' : \/ v \in vinculos /\ Estranhas(v, w.vinculos)
                              \/ v \in w.vinculos
  BY Commit, CommitTypes
<1>2. IF c \in DOMAIN w.cadastro
      THEN /\ w.cadastro[c] \in Mudanca
           /\ cadastro'[c] = Mesclada(cadastro[c], w.cadastro[c])
      ELSE cadastro'[c] = cadastro[c]
  BY Registered
<1>3. cadastro[c] \in Cadastro
  BY DEF OInv, TypesOK, OrganizationTypeOK
<1> HIDE DEF p
<1>4. WritesOK(p) /\ LinksCurrent(p) /\ DepartureCurrent(p) /\ FunctionsCurrent(p)
  BY <1>1 DEF RequestOK, CurrentOK
<1>5. CASE c \in DOMAIN w.cadastro /\ w.cadastro[c] \in Saida
  <2>1. p.op = "Deactivate" /\ cadastro'[c].desde = p.dia
    BY <1>2, <1>3, <1>4, <1>5, Merged DEF WritesOK
  <2>2. \A f \in funcoes' : f.quem = c => f.ate < p.dia
    <3> SUFFICES ASSUME NEW f \in funcoes', f.quem = c PROVE f.ate < p.dia
      OBVIOUS
    <3>1. CASE f \in w.funcoes
      BY <1>4, <2>1, <3>1 DEF WritesOK
    <3>2. CASE f \in funcoes /\ Estranhas(f, w.funcoes \union w.canceladas)
      BY <1>4, <1>5, <2>1, <3>2 DEF DepartureCurrent, DoColaborador, Estranhas
    <3> QED  BY <1>1, <3>1, <3>2
  <2>3. \A v \in vinculos' : v.ate = Sempre => v.quem # c /\ (v.lider = c => ~(v.de <= p.dia))
    <3> SUFFICES ASSUME NEW v \in vinculos', v.ate = Sempre
                 PROVE  v.quem # c /\ (v.lider = c => ~(v.de <= p.dia))
      OBVIOUS
    <3>1. CASE v \in w.vinculos
      BY <1>4, <2>1, <3>1 DEF WritesOK
    <3>2. CASE v \in vinculos /\ Estranhas(v, w.vinculos)
      BY <1>4, <1>5, <2>1, <3>2 DEF DepartureCurrent, Estranhas
    <3> QED  BY <1>1, <3>1, <3>2
  <2>4. p.dia \in Int /\ \A v \in vinculos' : v.de \in Int
    <3>1. vinculos' \subseteq Vinculo
      BY CommitTypes DEF TypesOK, OrganizationTypeOK
    <3> QED  BY <1>1, <3>1 DEF Pedido, Vinculo, Dias
  <2> QED  BY <2>1, <2>2, <2>3, <2>4
<1>6. CASE ~(c \in DOMAIN w.cadastro /\ w.cadastro[c] \in Saida)
  <2>1. /\ cadastro[c].existe /\ ~cadastro[c].ativo /\ cadastro'[c].desde = cadastro[c].desde
    BY <1>2, <1>3, <1>6, Merged
  <2>2. /\ \A f \in funcoes : f.quem = c => f.ate < cadastro[c].desde
        /\ \A v \in vinculos : v.ate = Sempre =>
               v.quem # c /\ (v.lider = c => v.de > cadastro[c].desde)
    BY <1>1, <2>1 DEF OInv, InactiveIsOut, DoColaborador
  <2>3. \A f \in w.funcoes : f.quem # c
    BY <1>4, <2>1 DEF FunctionsCurrent
  <2>4. \A v \in w.vinculos : v.ate = Sempre => v.quem # c /\ v.lider # c
    <3> SUFFICES ASSUME NEW v \in w.vinculos, v.ate = Sempre PROVE v.quem # c /\ v.lider # c
      OBVIOUS
    <3>1. v.n = p.n
      BY <1>4 DEF WritesOK
    <3>2. Ativo(v.quem) /\ Ativo(v.lider)
      BY <1>4, <3>1 DEF LinksCurrent
    <3> QED  BY <2>1, <3>2 DEF Ativo
  <2> QED  BY <1>1, <2>1, <2>2, <2>3, <2>4
<1> QED  BY <1>5, <1>6

LEMMA CommitLeaders ==
    ASSUME OInv, NEW s \in Slots, Efetivar(s)
    PROVE  correu' \/ UmLiderPorDia'
<1> DEFINE p == pedidos[s]
           w == p.escrita
<1> SUFFICES ASSUME ~correu', NEW dia \in Dias, NEW v \in vinculos', NEW u \in vinculos',
                    Vige(v, dia), Vige(u, dia), v.quem = u.quem, v.tipo = u.tipo
             PROVE  v = u
  BY DEF UmLiderPorDia, EquipesAtivas, Vige
<1>1. /\ p \in Pedido /\ RequestOK(p) /\ ~correu /\ ~p.obsoleto
      /\ \A r \in vinculos' : \/ r \in vinculos /\ Estranhas(r, w.vinculos)
                              \/ r \in w.vinculos
      /\ vinculos' \subseteq Vinculo
  BY Commit, CommitTypes DEF TypesOK, OrganizationTypeOK
<1>2. /\ w.vinculos \subseteq Vinculo /\ vinculos \subseteq Vinculo /\ dia \in Int
      /\ \A r \in Vinculo : r.de \in Int /\ r.ate \in Int
  BY <1>1, Calendar DEF Pedido, Gravacao, OInv, TypesOK, OrganizationTypeOK, Vinculo, Dias
<1> HIDE DEF p
<1>3. WritesOK(p) /\ LinksCurrent(p) /\ UmLiderPorDia
  BY <1>1 DEF RequestOK, CurrentOK, OInv
<1> DEFINE added(r) == r \in w.vinculos /\ r.n = p.n
<1>4. ASSUME NEW r \in vinculos', ~added(r), Vige(r, dia)
      PROVE  \E q \in vinculos :
                 /\ Mesma(q, r) /\ Vige(q, dia) /\ q.quem = r.quem /\ q.tipo = r.tipo
                 /\ q.ate >= r.ate
                 /\ \A y \in w.vinculos : Mesma(q, y) => y = r
  <2>1. r \in Vinculo
    BY <1>1
  <2>2. CASE r \in vinculos /\ Estranhas(r, w.vinculos)
    BY <1>2, <1>4, <2>1, <2>2, LinkRows DEF Estranhas
  <2>3. CASE r \in w.vinculos
    <3>1. PICK q \in vinculos : Mesma(q, r) /\ r.ate <= q.ate
      BY <1>3, <1>4, <2>3 DEF LinksCurrent
    <3>2. q.quem = r.quem /\ q.tipo = r.tipo /\ q.de = r.de
      BY <1>2, <2>1, <3>1, LinkRows
    <3>3. Vige(q, dia)
      BY <1>2, <1>4, <2>1, <3>1, <3>2 DEF Vige
    <3>4. \A y \in w.vinculos : Mesma(q, y) => Mesma(r, y)
      BY <1>2, <2>1, <3>1, LinkRows
    <3>5. \A y \in w.vinculos : Mesma(r, y) => y = r
      BY <1>3, <2>3 DEF WritesOK
    <3> QED  BY <1>2, <2>1, <3>1, <3>2, <3>3, <3>4, <3>5
  <2> QED  BY <1>1, <2>2, <2>3
<1>5. ASSUME NEW x \in w.vinculos, x.n = p.n, Vige(x, dia), NEW r \in vinculos', ~added(r),
             Vige(r, dia), r.quem = x.quem, r.tipo = x.tipo
      PROVE  FALSE
  <2>1. PICK q \in vinculos : /\ q.quem = r.quem /\ q.tipo = r.tipo /\ Vige(q, dia)
                             /\ \A y \in w.vinculos : Mesma(q, y) => y = r
    BY <1>4, <1>5
  <2>2. q.ate < x.de \/ \E y \in w.vinculos : Mesma(q, y) /\ y.ate < x.de
    BY <1>3, <1>5, <2>1 DEF LinksCurrent, DoConsultor
  <2>3. x.de <= dia /\ dia <= q.ate /\ dia <= r.ate
    BY <1>5, <2>1 DEF Vige
  <2> QED  BY <1>1, <1>2, <2>1, <2>2, <2>3
<1>6. CASE added(v) /\ added(u)
  BY <1>3, <1>6 DEF WritesOK
<1>7. CASE added(v) /\ ~added(u)
  BY <1>5, <1>7
<1>8. CASE ~added(v) /\ added(u)
  BY <1>5, <1>8
<1>9. CASE ~added(v) /\ ~added(u)
  <2>1. PICK q1 \in vinculos : /\ Mesma(q1, v) /\ Vige(q1, dia)
                              /\ q1.quem = v.quem /\ q1.tipo = v.tipo
    BY <1>4, <1>9
  <2>2. PICK q2 \in vinculos : /\ Mesma(q2, u) /\ Vige(q2, dia)
                              /\ q2.quem = u.quem /\ q2.tipo = u.tipo
    BY <1>4, <1>9
  <2>3. q1 = q2
    BY <1>3, <2>1, <2>2 DEF UmLiderPorDia, EquipesAtivas
  <2>4. Mesma(v, u)
    BY <1>1, <1>2, <2>1, <2>2, <2>3, LinkRows
  <2> QED  BY <2>4, CommitNumbers DEF NumbersOK
<1> QED  BY <1>6, <1>7, <1>8, <1>9

LEMMA CommitStep ==
    ASSUME OInv, NEW s \in Slots, Efetivar(s)
    PROVE  OInv'
BY CommitTypes, CommitNumbers, CommitRequests, CommitKeys, CommitInactive, CommitLeaders DEF OInv

-----------------------------------------------------------------------------
\* The other steps write no table.

LEMMA QuietKeeps ==
    ASSUME OInv, UNCHANGED <<tabelas, iniciados, correu>>, hoje' \in Dias, hoje <= hoje',
           pedidos' \in [Slots -> Pedido \union {Vago}],
           \A t \in Slots : EmCurso(t)' => pedidos'[t] = pedidos[t]
    PROVE  OInv'
<1>1. UNCHANGED <<cadastro, funcoes, vinculos, chaves, iniciados, correu>>
  BY DEF tabelas
<1>2. \A t \in Slots : EmCurso(t)' => EmCurso(t) /\ pedidos'[t] = pedidos[t]
  BY DEF EmCurso
<1>3. TypesOK'
  BY <1>1 DEF OInv, TypesOK, OrganizationTypeOK
<1>4. NumbersOK'
  BY <1>1, <1>2 DEF OInv, NumbersOK
<1>5. \A d \in Dias : d <= hoje => d <= hoje'
  BY Calendar DEF OInv, TypesOK, OrganizationTypeOK
<1>6. ASSUME NEW p \in Pedido, RequestOK(p) PROVE RequestOK(p)'
  <2>1. p.dia <= hoje'
    BY <1>5, <1>6 DEF RequestOK, Pedido
  <2> QED  BY <1>1, <1>6, <2>1 DEF RequestOK, WritesOK, CurrentOK, LinksCurrent, DepartureCurrent,
             ModalityCurrent, FunctionsCurrent, KeysCurrent, DoConsultor, DoColaborador, Ativo
<1>7. \A t \in Slots : EmCurso(t) => pedidos[t] \in Pedido
  BY DEF OInv, TypesOK, EmCurso
<1>8. RequestsOK'
  BY <1>2, <1>6, <1>7 DEF OInv, RequestsOK
<1>9. KeysOK'
  <2>1. \A k \in chaves : k.de \in Dias
    BY DEF OInv, TypesOK, OrganizationTypeOK, Chave
  <2> QED  BY <1>1, <1>5, <2>1 DEF OInv, KeysOK
<1>10. InactiveIsOut' /\ (correu' \/ UmLiderPorDia')
  BY <1>1 DEF OInv, InactiveIsOut, UmLiderPorDia, EquipesAtivas, DoColaborador
<1> QED  BY <1>3, <1>4, <1>8, <1>9, <1>10 DEF OInv

LEMMA QuietSteps ==
    ASSUME OInv
    PROVE  /\ \A s \in Slots : Desistir(s) => OInv'
           /\ PassaODia => OInv'
           /\ UNCHANGED organizationVars => OInv'
<1>1. hoje \in Dias /\ hoje <= hoje /\ pedidos \in [Slots -> Pedido \union {Vago}]
  BY Calendar DEF OInv, TypesOK, OrganizationTypeOK
<1>2. ASSUME NEW s \in Slots, Desistir(s) PROVE OInv'
  <2>1. /\ pedidos' \in [Slots -> Pedido \union {Vago}] /\ pedidos'[s] = Vago
        /\ \A t \in Slots \ {s} : pedidos'[t] = pedidos[t]
        /\ UNCHANGED <<hoje, tabelas, iniciados, correu>>
    BY <1>1, <1>2 DEF Desistir
  <2>2. \A t \in Slots : EmCurso(t)' => pedidos'[t] = pedidos[t]
    BY <2>1 DEF EmCurso
  <2> QED  BY <1>1, <2>1, <2>2, QuietKeeps
<1>3. ASSUME PassaODia PROVE OInv'
  <2>1. hoje' \in Dias /\ hoje <= hoje'
    BY <1>1, <1>3, Calendar DEF PassaODia, Dias
  <2> QED  BY <1>1, <1>3, <2>1, QuietKeeps DEF PassaODia
<1>4. ASSUME UNCHANGED organizationVars PROVE OInv'
  BY <1>1, <1>4, QuietKeeps DEF organizationVars, tabelas
<1> QED  BY <1>2, <1>3, <1>4

LEMMA OrganizationStart == OrganizationInit => OInv
<1> SUFFICES ASSUME OrganizationInit PROVE OInv
  OBVIOUS
<1> USE DEF OrganizationInit
<1>1. /\ hoje \in Dias /\ 0 \in Ns /\ 0 \in 0..UltimoDia
  BY OrganizationAssumption DEF Dias, Ns
<1>2. cadastro \in [Colaboradores -> Cadastro]
  <2>1. NaoCadastrado \in Cadastro
    BY <1>1 DEF NaoCadastrado, Cadastro
  <2>2. [NaoCadastrado EXCEPT !.existe = TRUE, !.ativo = TRUE] \in Cadastro
    BY <1>1 DEF NaoCadastrado, Cadastro
  <2> QED  BY <2>1, <2>2
<1>3. \A c \in Colaboradores : cadastro[c].existe => cadastro[c].ativo
  BY DEF NaoCadastrado
<1>4. funcoes \subseteq Funcao
  BY CadastradosAssumption
<1>5. TypesOK
  BY <1>1, <1>2, <1>4 DEF TypesOK, OrganizationTypeOK
<1>6. \A s \in Slots : ~EmCurso(s)
  BY DEF EmCurso
<1>7. NumbersOK /\ RequestsOK /\ KeysOK /\ UmLiderPorDia
  BY <1>6 DEF NumbersOK, RequestsOK, KeysOK, UmLiderPorDia, EquipesAtivas
<1>8. InactiveIsOut
  BY <1>3 DEF InactiveIsOut
<1> QED  BY <1>5, <1>7, <1>8 DEF OInv

LEMMA OrganizationStep == OInv /\ [OrganizationNext]_organizationVars => OInv'
BY BeginStep, CommitStep, QuietSteps DEF OrganizationNext

\* However the requests in flight interleave, OInv holds.
THEOREM OrganizationInvariant == OrganizationSpec => []OInv
<1>1. OrganizationInit => OInv
  BY OrganizationStart
<1>2. OInv /\ [OrganizationNext]_organizationVars => OInv'
  BY OrganizationStep
<1> QED  BY <1>1, <1>2, PTL DEF OrganizationSpec

-----------------------------------------------------------------------------
(***************************************************************************)
(* Theorem.  The tables of collaborators, functions, links and keys hold   *)
(* only what their columns may.                                            *)
(***************************************************************************)
THEOREM OrganizationIsTyped == OrganizationSpec => []OrganizationTypeOK
<1>1. OInv => OrganizationTypeOK
  BY DEF OInv, TypesOK
<1> QED  BY <1>1, OrganizationInvariant, PTL

\* Two links of one consultant and type on one day are a pair the integrity
\* job counts.
LEMMA OverlapsAreReported ==
    ASSUME OInv, ~UmLiderPorDia
    PROVE  Sobreposicoes # {}
<1>1. PICK dia \in Dias :
          \E v, u \in EquipesAtivas(dia) : v.quem = u.quem /\ v.tipo = u.tipo /\ v # u
  BY DEF UmLiderPorDia
<1>2. PICK v \in EquipesAtivas(dia), u \in EquipesAtivas(dia) :
          v.quem = u.quem /\ v.tipo = u.tipo /\ v # u
  BY <1>1
<1>3. /\ v \in vinculos /\ u \in vinculos /\ Vige(v, dia) /\ Vige(u, dia)
      /\ dia \in Int /\ v.de \in Int /\ v.ate \in Int /\ u.de \in Int /\ u.ate \in Int
  BY Calendar DEF EquipesAtivas, OInv, TypesOK, OrganizationTypeOK, Vinculo, Dias
<1>4. Sobrepoe(v, u) /\ Sobrepoe(u, v)
  BY <1>3 DEF Vige, Sobrepoe
<1>5. Cardinality({v, u}) = 2
  <2>1. IsFiniteSet({v}) /\ Cardinality({v}) = 1
    BY FS_Singleton
  <2>2. u \notin {v} /\ 1 + 1 = 2
    BY <1>2
  <2>3. Cardinality({v} \union {u}) = 2
    BY <2>1, <2>2, FS_AddElement
  <2>4. {v} \union {u} = {v, u}
    OBVIOUS
  <2> QED  BY <2>3, <2>4
<1>6. {v, u} \in Sobreposicoes
  <2>1. {v, u} \in SUBSET vinculos
    BY <1>3
  <2>2. \A a, b \in {v, u} : a # b => a.quem = b.quem /\ a.tipo = b.tipo /\ Sobrepoe(a, b)
    BY <1>2, <1>4
  <2> QED  BY <1>5, <2>1, <2>2 DEF Sobreposicoes
<1> QED  BY <1>6

(***************************************************************************)
(* Theorem.  Nobody has two leaders of one type on one day unless a        *)
(* request committed over rows another one changed meanwhile; and then the *)
(* integrity job finds the pair.  No command of this part locks the rows   *)
(* it decides on.                                                          *)
(***************************************************************************)
THEOREM LeadersAreOneOrReported == OrganizationSpec => []OneLeaderOrReported
<1>1. OInv => OneLeaderOrReported
  BY OverlapsAreReported DEF OInv, OneLeaderOrReported
<1> QED  BY <1>1, OrganizationInvariant, PTL

(***************************************************************************)
(* Theorem.  Races apart, who was deactivated holds no function from that  *)
(* day on, is led by nobody and leads nobody of that day's team without    *)
(* an end, whatever links and functions requests in flight bring.          *)
(***************************************************************************)
THEOREM DeactivationHolds == OrganizationSpec => []InactiveIsOut
<1>1. OInv => InactiveIsOut
  BY DEF OInv
<1> QED  BY <1>1, OrganizationInvariant, PTL

(***************************************************************************)
(* Theorem.  Races apart, a person with payment keys has one without an    *)
(* end, and from today on it is the one the query answers.                 *)
(***************************************************************************)
THEOREM OpenKeyIsAnswered == OrganizationSpec => []LastKeyInForce
<1>1. ASSUME OInv PROVE LastKeyInForce
  <2> SUFFICES ASSUME ~correu, NEW c \in Colaboradores, NEW k0 \in chaves, k0.quem = c
               PROVE  \E k \in chaves :
                          /\ k.quem = c
                          /\ \A j \in chaves : j.quem = c /\ j.ate = Sempre => j = k
                          /\ \A dia \in hoje..UltimoDia : \A j \in ChaveVigente(c, dia) : j.de = k.de
    BY DEF LastKeyInForce
  <2>1. PICK k \in chaves :
            /\ k.quem = c /\ k.de <= hoje /\ k.ate = Sempre
            /\ \A i \in chaves : i.quem = c => i.de <= k.de /\ (i.ate = Sempre => i = k)
    BY <1>1 DEF OInv, KeysOK
  <2>2. hoje \in Int /\ \A i \in chaves : i.de \in Int
    BY <1>1, Calendar DEF OInv, TypesOK, OrganizationTypeOK, Chave, Dias
  <2>3. ASSUME NEW dia \in hoje..UltimoDia, NEW j \in ChaveVigente(c, dia) PROVE j.de = k.de
    <3>1. Vige(k, dia)
      BY <2>1, <2>2, Calendar DEF Vige
    <3>2. j \in chaves /\ j.quem = c /\ j.de >= k.de
      BY <2>1, <3>1 DEF ChaveVigente
    <3> QED  BY <2>1, <2>2, <3>2
  <2> QED  BY <2>1, <2>3
<1> QED  BY <1>1, OrganizationInvariant, PTL

-----------------------------------------------------------------------------
\* Which step ends a request: its own commit, or one that writes no table.
LEMMA Ends ==
    ASSUME OInv, OrganizationNext, NEW s \in Slots, EmCurso(s), pedidos'[s] = Vago
    PROVE  Efetivar(s) \/ UNCHANGED <<funcoes, vinculos>>
<1>1. ASSUME NEW t \in Slots, Begin(t) PROVE UNCHANGED <<funcoes, vinculos>>
  <2> DEFINE same == UNCHANGED <<funcoes, vinculos>>
  <2>1. \A op, w : Inicia(t, op, w) => same
    BY DEF Inicia
  <2> HIDE DEF same
  <2>2. \A f \in funcoes, d \in Dias : CloseFunction(t, f, d) => same
    BY <2>1 DEF CloseFunction
  <2>3. \A v \in vinculos, d \in Dias : CloseAssignment(t, v, d) => same
    BY <2>1 DEF CloseAssignment
  <2>4. \A c \in Colaboradores : ChangeKey(t, c) \/ Deactivate(t, c) \/ ActivateCollaborator(t, c) => same
    BY <2>1 DEF ChangeKey, Deactivate, ActivateCollaborator
  <2>5. \A c, l \in Colaboradores, tipo \in Tipos, d \in Dias : AssignLeader(t, c, l, tipo, d) => same
    BY <2>1 DEF AssignLeader
  <2>6. \A c \in Colaboradores, papel \in Papeis, d \in Dias, e \in Prazos :
            AddFunction(t, c, papel, d, e) => same
    BY <2>1 DEF AddFunction
  <2>7. \A c \in Colaboradores, papel \in Papeis, d \in Dias : ChangeModality(t, c, papel, d) => same
    BY <2>1 DEF ChangeModality
  <2>8. \A c \in Colaboradores, u \in Contas \union {Ninguem}, papel \in Papeis, d \in Dias :
            CreateCollaborator(t, c, {Nova(c, papel, d, Sempre)}, u, {c}) => same
    BY <2>1 DEF CreateCollaborator
  <2>9. \A c \in Colaboradores, u \in Contas \union {Ninguem} : LinkAccount(t, c, u) => same
    BY <2>1 DEF LinkAccount
  <2>10. same
    BY <1>1, <2>2, <2>3, <2>4, <2>5, <2>6, <2>7, <2>8, <2>9 DEF Begin
  <2> QED  BY <2>10 DEF same
<1>2. ASSUME NEW t \in Slots, Efetivar(t), t # s PROVE FALSE
  <2>1. pedidos[s] \in Pedido
    BY DEF OInv, TypesOK, EmCurso
  <2>2. pedidos'[s] = pedidos[s] \/ pedidos'[s] = [pedidos[s] EXCEPT !.obsoleto = TRUE]
    BY <1>2 DEF Efetivar, EmCurso
  <2>3. \A r \in Pedido : "n" \in DOMAIN r /\ "n" \in DOMAIN [r EXCEPT !.obsoleto = TRUE]
    BY DEF Pedido
  <2>4. "n" \notin DOMAIN Vago
    BY DEF Vago
  <2> QED  BY <2>1, <2>2, <2>3, <2>4
<1>3. ASSUME NEW t \in Slots, Desistir(t) PROVE UNCHANGED <<funcoes, vinculos>>
  BY <1>3 DEF Desistir, tabelas
<1>4. ASSUME PassaODia PROVE UNCHANGED <<funcoes, vinculos>>
  BY <1>4 DEF PassaODia, tabelas
<1> QED  BY <1>1, <1>2, <1>3, <1>4 DEF OrganizationNext

(***************************************************************************)
(* Theorem.  Who is led on a day still is when a new leader is assigned,   *)
(* even by a request whose rows another one changed meanwhile: every row   *)
(* it ends, it ends on the eve of the row it adds.                         *)
(***************************************************************************)
THEOREM TransfersLeaveNoGap == OrganizationSpec => TransferLeavesNoGap
<1> DEFINE Led(s) ==
        pedidos[s].op = "AssignLeader" /\ pedidos'[s] = Vago =>
            \A c \in Colaboradores, tipo \in Tipos, dia \in Dias :
                LiderNaData(c, tipo, dia) # {} => LiderNaData(c, tipo, dia)' # {}
<1>1. ASSUME OInv, OrganizationNext, NEW s \in Slots PROVE Led(s)
  <2> SUFFICES ASSUME pedidos[s].op = "AssignLeader", pedidos'[s] = Vago,
                      NEW c \in Colaboradores, NEW tipo \in Tipos, NEW dia \in Dias,
                      NEW v \in vinculos, v.quem = c, v.tipo = tipo, Vige(v, dia)
               PROVE  \E u \in vinculos' : u.quem = c /\ u.tipo = tipo /\ Vige(u, dia)
    BY DEF LiderNaData, LideresVigentes, DoConsultor, Vige
  <2>1. EmCurso(s)
    BY DEF EmCurso, Vago
  <2>2. CASE UNCHANGED <<funcoes, vinculos>>
    BY <2>2
  <2>3. CASE Efetivar(s)
    <3> DEFINE p == pedidos[s]
               V == p.escrita.vinculos
    <3>1. /\ p \in Pedido /\ WritesOK(p) /\ p.op = "AssignLeader"
          /\ v \in vinculos' \/ \E x \in V : Mesma(v, x) /\ x \in vinculos'
          /\ \A x \in V : x.n = p.n => x \in vinculos'
      BY <1>1, <2>3, Commit DEF RequestOK
    <3>2. v.n # p.n
      BY <1>1, <2>1 DEF OInv, NumbersOK
    <3>3. V \subseteq Vinculo /\ v \in Vinculo /\ dia \in Int /\ dia <= Sempre /\ Sempre \in Int
      BY <1>1, <3>1, Calendar DEF Pedido, Gravacao, OInv, TypesOK, OrganizationTypeOK, Dias
    <3> HIDE DEF p
    <3>4. PICK x \in V : x.n = p.n /\ \A y \in V \ {x} : /\ y.quem = x.quem /\ y.tipo = x.tipo
                                                      /\ y.ate = x.de - 1
      BY <3>1 DEF WritesOK
    <3>5. CASE v \in vinculos'
      BY <3>5
    <3>6. CASE \E y \in V : Mesma(v, y) /\ y \in vinculos'
      <4>1. PICK y \in V : Mesma(v, y) /\ y \in vinculos'
        BY <3>6
      <4>2. y.n = v.n /\ y.quem = c /\ y.tipo = tipo /\ y.de = v.de
        BY <3>3, <4>1, LinkRows
      <4>3. y.ate = x.de - 1 /\ x.quem = c /\ x.tipo = tipo
        BY <3>2, <3>4, <4>2
      <4>4. x.ate = Sempre /\ x \in vinculos'
        BY <3>1, <3>4 DEF WritesOK
      <4>5. x.de \in Int /\ v.de <= dia
        BY <3>3, Calendar DEF Vinculo, Vige
      <4>6. CASE dia <= x.de - 1
        BY <4>1, <4>2, <4>3, <4>6, <4>5 DEF Vige
      <4>7. CASE x.de <= dia
        BY <3>3, <4>3, <4>4, <4>7 DEF Vige
      <4> QED  BY <3>3, <4>5, <4>6, <4>7
    <3> QED  BY <3>1, <3>5, <3>6
  <2> QED  BY <1>1, <2>1, <2>2, <2>3, Ends
<1>2. OInv /\ [OrganizationNext]_organizationVars => [\A s \in Slots : Led(s)]_organizationVars
  BY <1>1
<1> QED  BY <1>2, OrganizationInvariant, PTL DEF OrganizationSpec, TransferLeavesNoGap

(***************************************************************************)
(* Theorem.  A change of modality, races apart, leaves the functions of    *)
(* the days before it was asked for as they were: commissions were paid by *)
(* them.                                                                   *)
(***************************************************************************)
THEOREM ModalityChangesKeepThePast == OrganizationSpec => ModalityChangeKeepsThePast
<1> DEFINE Kept(s) ==
        pedidos[s].op = "ChangeModality" /\ pedidos'[s] = Vago =>
            \A c \in Colaboradores, dia \in 1..pedidos[s].dia - 1 :
                pedidos[s].obsoleto \/ PapeisEm(c, dia)' = PapeisEm(c, dia)
<1>1. ASSUME OInv, OrganizationNext, NEW s \in Slots PROVE Kept(s)
  <2> SUFFICES ASSUME pedidos[s].op = "ChangeModality", pedidos'[s] = Vago,
                      ~pedidos[s].obsoleto,
                      NEW c \in Colaboradores, NEW dia \in 1..pedidos[s].dia - 1
               PROVE  PapeisEm(c, dia)' = PapeisEm(c, dia)
    OBVIOUS
  <2>1. EmCurso(s)
    BY DEF EmCurso, Vago
  <2>2. CASE UNCHANGED <<funcoes, vinculos>>
    BY <2>2 DEF PapeisEm, DoColaborador
  <2>3. CASE Efetivar(s)
    <3> DEFINE p == pedidos[s]
               F == p.escrita.funcoes
    <3>1. p \in Pedido /\ ModalityCurrent(p) /\ p.op = "ChangeModality"
      BY <1>1, <2>3, Commit DEF RequestOK, CurrentOK
    <3>2. funcoes' = FuncoesGravadas(p.escrita, p.n)
      BY <2>3 DEF Efetivar
    <3>3. /\ F \subseteq Funcao /\ funcoes \subseteq Funcao /\ p.dia \in Int
          /\ dia \in Int /\ dia < p.dia
          /\ \A g \in Funcao : g.de \in Int /\ g.ate \in Int
      BY <1>1, <3>1, Calendar DEF Pedido, Gravacao, OInv, TypesOK, OrganizationTypeOK, Funcao, Dias
    <3> HIDE DEF p
    <3>4. PICK f \in funcoes, x \in F : /\ F = {Ate(f, x.de - 1), x}
                                       /\ x.de >= p.dia /\ Vige(f, x.de)
      BY <3>1 DEF ModalityCurrent
    <3>5. funcoes' = Gravadas(funcoes, F, p.n)
      <4>1. p.escrita.canceladas = {}
        BY <3>1 DEF ModalityCurrent
      <4> QED  BY <3>2, <4>1 DEF FuncoesGravadas
    <3> DEFINE y == Ate(f, x.de - 1)
    <3>6. y.quem = f.quem /\ y.papel = f.papel /\ y.de = f.de /\ y.ate = x.de - 1
      BY <3>3 DEF Ate, Funcao
    <3>7. ~Vige(x, dia) /\ (Vige(y, dia) => Vige(f, dia))
      BY <3>3, <3>4, <3>6 DEF Vige
    <3>8. \A g \in funcoes' : g \in funcoes \/ g \in F
      BY <3>5, Written
    <3>9. \A g \in funcoes : g \in funcoes' \/ \E z \in F : Mesma(g, z) /\ z \in funcoes'
      BY <3>5, Written
    <3> HIDE DEF y
    <3>10. ASSUME NEW g \in funcoes', g.quem = c, Vige(g, dia)
           PROVE  \E h \in funcoes : h.quem = c /\ h.papel = g.papel /\ Vige(h, dia)
      BY <3>4, <3>6, <3>7, <3>8, <3>10 DEF y
    <3>11. ASSUME NEW g \in funcoes, g.quem = c, Vige(g, dia)
           PROVE  \E h \in funcoes' : h.quem = c /\ h.papel = g.papel /\ Vige(h, dia)
      <4>1. CASE g \in funcoes'
        BY <3>11, <4>1
      <4>2. CASE \E z \in F : Mesma(g, z) /\ z \in funcoes'
        <5>1. PICK z \in F : Mesma(g, z) /\ z \in funcoes'
          BY <4>2
        <5>2. z.quem = c /\ z.papel = g.papel /\ z.de = g.de
          BY <3>3, <3>11, <5>1, FunctionRows
        <5>3. z.de <= dia
          BY <3>11, <5>2 DEF Vige
        <5>4. z = y
          BY <3>3, <3>4, <5>3 DEF y
        <5>5. Vige(z, dia)
          BY <3>3, <3>4, <3>6, <5>3, <5>4 DEF Vige
        <5> QED  BY <5>1, <5>2, <5>5
      <4> QED  BY <3>9, <4>1, <4>2
    <3>12. /\ PapeisEm(c, dia) = {g.papel : g \in {h \in funcoes : h.quem = c /\ Vige(h, dia)}}
           /\ PapeisEm(c, dia)' = {g.papel : g \in {h \in funcoes' : h.quem = c /\ Vige(h, dia)}}
      BY DEF PapeisEm, DoColaborador, Vige
    <3> QED  BY <3>10, <3>11, <3>12
  <2> QED  BY <1>1, <2>1, <2>2, <2>3, Ends
<1>2. OInv /\ [OrganizationNext]_organizationVars => [\A s \in Slots : Kept(s)]_organizationVars
  BY <1>1
<1> QED  BY <1>2, OrganizationInvariant, PTL DEF OrganizationSpec, ModalityChangeKeepsThePast

=============================================================================
