---------------------------- MODULE Organization ----------------------------
(***************************************************************************)
(* Collaborators, their functions, leaders and payment keys: records in   *)
(* force over closed intervals of days, changed by requests that run at   *)
(* the same time.                                                          *)
(*                                                                         *)
(* No command of this part locks what it reads.  A request is two steps:   *)
(* Begin reads the committed tables, checks them and computes its writes;  *)
(* Efetivar writes.  A request the code refuses is no step.  A row is the  *)
(* same row however its end moves: n, the request that wrote it, stands    *)
(* for its id.                                                             *)
(***************************************************************************)
EXTENDS Integers, FiniteSets

CONSTANTS
    Colaboradores,
    Contas,         \* accounts of the identity module
    Ninguem,        \* no account
    Papeis,         \* the functions requests ask for
    Tipos,          \* the types of link requests ask for
    UltimoDia,      \* the calendar is 1..UltimoDia
    Prazos,         \* the ends new functions are given
    Cadastrados,    \* who is registered when the model starts
    FuncoesDe,      \* the functions each of them was registered with
    Slots,          \* requests in flight
    MaxPedidos      \* bound: requests begun

ASSUME OrganizationAssumption ==
    /\ UltimoDia \in Nat \ {0}
    /\ MaxPedidos \in Nat
    /\ Ninguem \notin Contas

Dias == 1..UltimoDia

\* An end that is NULL: in force without an end.
Sempre == UltimoDia + 1

ASSUME PrazosAssumption == Prazos \subseteq Dias \union {Sempre}

Modalidades == {"CONSULTOR", "CONSULTOR_MEI_ESCALONADO"}

PapelDeColaborador ==
    Modalidades \union
        {"LIDER", "LIDER_MEI_GERAL", "BKO", "FINALIZACAO", "LIDER_FINALIZACAO"}

ASSUME PapeisAssumption == Papeis \subseteq PapelDeColaborador

PapeisDeLideranca(tipo) ==
    CASE tipo = "COMERCIAL" -> {"LIDER"}
      [] tipo = "MEI_GERAL" -> {"LIDER_MEI_GERAL"}
      [] tipo = "FINALIZACAO" -> {"LIDER_FINALIZACAO"}

PapeisLideraveis(tipo) ==
    CASE tipo = "COMERCIAL" -> Modalidades
      [] tipo = "MEI_GERAL" -> Modalidades \union {"LIDER"}
      [] tipo = "FINALIZACAO" -> {"FINALIZACAO"}

ASSUME TiposAssumption == Tipos \subseteq {"COMERCIAL", "MEI_GERAL", "FINALIZACAO"}

Ns == 0..MaxPedidos

Funcao == [n : Ns, quem : Colaboradores, papel : PapelDeColaborador, de : 0..UltimoDia, ate : 0..Sempre]

Vinculo ==
    [n : Ns, quem : Colaboradores, lider : Colaboradores, tipo : Tipos, de : Dias, ate : 0..Sempre]

Chave == [n : Ns, quem : Colaboradores, de : Dias, ate : 0..Sempre]

Cadastro ==
    [existe : BOOLEAN, ativo : BOOLEAN, desde : 0..UltimoDia, conta : Contas \union {Ninguem}]

ASSUME CadastradosAssumption ==
    /\ Cadastrados \subseteq Colaboradores
    /\ \A c \in Cadastrados : FuncoesDe[c] \subseteq {f \in Funcao : f.n = 0 /\ f.quem = c}

NaoCadastrado == [existe |-> FALSE, ativo |-> FALSE, desde |-> 0, conta |-> Ninguem]

VARIABLES
    hoje,           \* the business date
    cadastro,       \* collaborators, by collaborator
    funcoes,        \* collaborator_roles
    vinculos,       \* team_assignments
    chaves,         \* collaborator_payment_keys
    pedidos,        \* requests in flight, by slot
    iniciados,      \* requests begun
    correu          \* some request committed after another changed what it had read

tabelas == <<cadastro, funcoes, vinculos, chaves>>

organizationVars == <<hoje, cadastro, funcoes, vinculos, chaves, pedidos, iniciados, correu>>

-----------------------------------------------------------------------------
\* DateRange and the queries of the repositories.

Vige(r, dia) == r.de <= dia /\ dia <= r.ate

Sobrepoe(a, b) == ~(a.de > b.ate) /\ ~(b.de > a.ate)

SemSobreposicao(nova, existentes) == \A r \in existentes : ~Sobrepoe(nova, r)

DoColaborador(c) == {f \in funcoes : f.quem = c}

PapeisEm(c, dia) == {f.papel : f \in {g \in DoColaborador(c) : Vige(g, dia)}}

DoConsultor(c, tipo) == {v \in vinculos : v.quem = c /\ v.tipo = tipo}

LideresVigentes(c, tipo, dia) == {v \in DoConsultor(c, tipo) : Vige(v, dia)}

EquipeDoLider(l, dia) == {v \in vinculos : v.lider = l /\ Vige(v, dia)}

Ativo(c) == cadastro[c].existe /\ cadastro[c].ativo

ColaboradoresDaConta(u) == {c \in Colaboradores : cadastro[c].conta = u}

\* Who leads a consultant on a day, and who is led by whom on it.
LiderNaData(c, tipo, dia) == {v.lider : v \in LideresVigentes(c, tipo, dia)}

EquipesAtivas(dia) == {v \in vinculos : Vige(v, dia)}

\* Mutant: the key that started first.
ChaveVigentePrimeira(c, dia) ==
    LET vigentes == {k \in chaves : k.quem = c /\ Vige(k, dia)}
    IN  {k \in vigentes : \A j \in vigentes : k.de <= j.de}

\* The keys the query may answer: ordered by their first day and nothing else.
ChaveVigente(c, dia) ==
    LET vigentes == {k \in chaves : k.quem = c /\ Vige(k, dia)}
    IN  {k \in vigentes : \A j \in vigentes : k.de >= j.de}

Ate(r, dia) == [r EXCEPT !.ate = dia]

Mesma(a, b) == Ate(a, 0) = Ate(b, 0)

-----------------------------------------------------------------------------
\* Requests.  What one writes: rows ended, rows deleted, rows added, and the
\* row of each collaborator it changes.

Vago == [op |-> "idle"]

Escrita == [quem |-> {}, funcoes |-> {}, canceladas |-> {}, vinculos |-> {}, chaves |-> {},
            cadastro |-> [c \in {} |-> NaoCadastrado]]

Inicia(s, op, escrita) ==
    /\ pedidos[s] = Vago
    /\ iniciados < MaxPedidos
    /\ iniciados' = iniciados + 1
    /\ pedidos' = [pedidos EXCEPT ![s] =
           [op |-> op, n |-> iniciados + 1, dia |-> hoje, obsoleto |-> FALSE, escrita |-> escrita]]
    /\ UNCHANGED <<hoje, cadastro, funcoes, vinculos, chaves, correu>>

\* The number of the request that begins.
N == iniciados + 1

Nova(c, papel, de, ate) == [n |-> N, quem |-> c, papel |-> papel, de |-> de, ate |-> ate]

\* The two modalities of consultant exclude each other.
Conflitam(papel, outro) == papel = outro \/ {papel, outro} \subseteq Modalidades

ContaLivre(u, c) == u # Ninguem => ColaboradoresDaConta(u) \subseteq {c}

PapeisValidos(novas) ==
    \A f, g \in novas : f # g /\ Conflitam(f.papel, g.papel) => ~Sobrepoe(f, g)

\* The company and the unit exist and match, the document is not in use.
CreateCollaborator(s, c, novas, u, comChave) ==
    /\ ~cadastro[c].existe
    /\ ContaLivre(u, c)
    /\ PapeisValidos(novas)
    /\ Inicia(s, "CreateCollaborator",
           [Escrita EXCEPT
               !.quem = {c}, !.funcoes = novas,
               !.chaves = comChave,
               !.cadastro = [x \in {c} |->
                   [existe |-> TRUE, ativo |-> TRUE, desde |-> 0, conta |-> u]]])

AddFunction(s, c, papel, de, ate) ==
    /\ Ativo(c)
    /\ de <= ate
    /\ SemSobreposicao(Nova(c, papel, de, ate),
                       {f \in DoColaborador(c) : Conflitam(papel, f.papel)})
    /\ Inicia(s, "AddFunction",
           [Escrita EXCEPT !.quem = {c}, !.funcoes = {Nova(c, papel, de, ate)}])

CloseFunction(s, f, ate) ==
    /\ f.ate = Sempre
    /\ f.de <= ate
    /\ Inicia(s, "CloseFunction", [Escrita EXCEPT !.quem = {f.quem}, !.funcoes = {Ate(f, ate)}])

\* Mutant: the change may start on any day.
NaoRetroativaSempre(dia) == TRUE

NaoRetroativa(dia) == dia >= hoje

\* UpdateCollaborator with a new modality: the one in force ends the day before.
ChangeModality(s, c, papel, de) ==
    LET vigentes == {f \in DoColaborador(c) : f.papel \in Modalidades /\ Vige(f, de)}
    IN  /\ Ativo(c)
        /\ NaoRetroativa(de)
        /\ Cardinality(vigentes) = 1
        /\ \E anterior \in vigentes :
            /\ anterior.papel # papel
            /\ anterior.de <= de - 1
            /\ SemSobreposicao(Nova(c, papel, de, Sempre),
                               {f \in DoColaborador(c) : f.papel = papel})
            /\ Inicia(s, "ChangeModality",
                   [Escrita EXCEPT !.quem = {c},
                       !.funcoes = {Ate(anterior, de - 1), Nova(c, papel, de, Sempre)}])

\* UpdateCollaborator with a new payment key.
ChangeKey(s, c) ==
    /\ cadastro[c].existe
    /\ Inicia(s, "ChangeKey", [Escrita EXCEPT !.quem = {c}, !.chaves = {c}])

Compativel(c, l, tipo, dia) ==
    /\ PapeisDeLideranca(tipo) \intersect PapeisEm(l, dia) # {}
    /\ PapeisLideraveis(tipo) \intersect PapeisEm(c, dia) # {}

\* Mutant: the link in force ends one day early.
EncerradosAntes(vigentes, de) == {Ate(v, de - 2) : v \in vigentes}

\* The link in force ends the day before the new one starts.
Encerrados(vigentes, de) == {Ate(v, de - 1) : v \in vigentes}

\* Mutant: only the link in force is looked at.
SemConflitoFuturoSempre(outros, de) == TRUE

SemConflitoFuturo(outros, de) == \A v \in outros : v.ate < de

\* lider_vigente_em returns one row; more than one is in force only after a race.
AssignLeader(s, c, l, tipo, de) ==
    LET vigentes == LideresVigentes(c, tipo, de)
    IN  /\ c # l
        /\ Ativo(c) /\ Ativo(l)
        /\ Compativel(c, l, tipo, de)
        /\ \E atual \in SUBSET vigentes :
            /\ IF vigentes = {} THEN atual = {} ELSE Cardinality(atual) = 1
            /\ \A v \in atual : v.lider # l /\ v.de <= de - 1
            /\ SemConflitoFuturo(DoConsultor(c, tipo) \ atual, de)
            /\ Inicia(s, "AssignLeader",
                   [Escrita EXCEPT !.quem = {c, l},
                       !.vinculos = Encerrados(atual, de) \union
                           {[n |-> N, quem |-> c, lider |-> l, tipo |-> tipo, de |-> de,
                             ate |-> Sempre]}])

CloseAssignment(s, v, ate) ==
    /\ v.ate = Sempre
    /\ v.de <= ate
    /\ Inicia(s, "CloseAssignment",
           [Escrita EXCEPT !.quem = {v.quem, v.lider}, !.vinculos = {Ate(v, ate)}])

\* Mutant: the functions of who leaves stay open.
FuncoesAEncerrarNenhuma(c) == {}

FuncoesAEncerrar(c) == {f \in DoColaborador(c) : f.ate >= hoje}

\* Functions end yesterday, those that start later are deleted; open links end
\* today, as a leader only those already in force.
Deactivate(s, c) ==
    /\ Ativo(c)
    /\ Inicia(s, "Deactivate",
           [Escrita EXCEPT
               !.quem = {c} \union {v.quem : v \in EquipeDoLider(c, hoje)},
               !.funcoes = {Ate(f, hoje - 1) : f \in {g \in FuncoesAEncerrar(c) : g.de < hoje}},
               !.canceladas = {f \in FuncoesAEncerrar(c) : f.de >= hoje},
               !.vinculos = {Ate(v, hoje) : v \in {w \in vinculos : /\ w.ate = Sempre
                                 /\ (w.quem = c \/ w \in EquipeDoLider(c, hoje))}},
               !.cadastro = [x \in {c} |-> [ativo |-> FALSE, desde |-> hoje]]])

ActivateCollaborator(s, c) ==
    /\ cadastro[c].existe /\ ~cadastro[c].ativo
    /\ Inicia(s, "Activate",
           [Escrita EXCEPT !.quem = {c},
               !.cadastro = [x \in {c} |-> [ativo |-> TRUE, desde |-> 0]]])

\* The account is active; Ninguem undoes the link.
LinkAccount(s, c, u) ==
    /\ cadastro[c].existe
    /\ ContaLivre(u, c)
    /\ Inicia(s, "LinkAccount",
           [Escrita EXCEPT !.quem = {c},
               !.cadastro = [x \in {c} |-> [conta |-> u]]])

\* An update by id finds the row as it is now, and nothing when it was deleted.
Gravadas(linhas, novas, n) ==
    {IF \E x \in novas : Mesma(r, x) THEN CHOOSE x \in novas : Mesma(r, x) ELSE r : r \in linhas}
        \union {x \in novas : x.n = n}

FuncoesGravadas(w, n) ==
    {f \in Gravadas(funcoes, w.funcoes, n) : ~\E x \in w.canceladas : Mesma(f, x)}

VinculosGravados(w, n) == Gravadas(vinculos, w.vinculos, n)

\* Every open key ends on the day of the request that replaces it.
ChavesTrocadas(w, n, dia) ==
    {IF k.quem \in w.chaves /\ k.ate = Sempre THEN Ate(k, dia) ELSE k : k \in chaves}
        \union {[n |-> n, quem |-> c, de |-> dia, ate |-> Sempre] : c \in w.chaves}

CadastroGravado(w) ==
    [c \in Colaboradores |->
        IF c \in DOMAIN w
        THEN [k \in DOMAIN cadastro[c] |-> IF k \in DOMAIN w[c] THEN w[c][k] ELSE cadastro[c][k]]
        ELSE cadastro[c]]

\* The unique keys of the table: document and account.
ChavesUnicas(w) ==
    \A c \in DOMAIN w :
        /\ "existe" \in DOMAIN w[c] => ~cadastro[c].existe
        /\ "conta" \in DOMAIN w[c] => ContaLivre(w[c].conta, c)

Efetivar(s) ==
    /\ pedidos[s] # Vago
    /\ LET p == pedidos[s]
           w == p.escrita
       IN  /\ ChavesUnicas(w.cadastro)
           /\ cadastro' = CadastroGravado(w.cadastro)
           /\ funcoes' = FuncoesGravadas(w, p.n)
           /\ vinculos' = VinculosGravados(w, p.n)
           /\ chaves' = ChavesTrocadas(w, p.n, p.dia)
           /\ correu' = (correu \/ p.obsoleto)
           /\ pedidos' = [t \in Slots |->
                  IF t = s THEN Vago
                  ELSE IF pedidos[t] # Vago /\ pedidos[t].escrita.quem \intersect w.quem # {}
                       THEN [pedidos[t] EXCEPT !.obsoleto = TRUE]
                       ELSE pedidos[t]]
    /\ UNCHANGED <<hoje, iniciados>>

\* The process dies, or a unique key refuses the write.
Desistir(s) ==
    /\ pedidos[s] # Vago
    /\ pedidos' = [pedidos EXCEPT ![s] = Vago]
    /\ UNCHANGED <<hoje, tabelas, iniciados, correu>>

PassaODia ==
    /\ hoje < UltimoDia
    /\ hoje' = hoje + 1
    /\ UNCHANGED <<tabelas, pedidos, iniciados, correu>>

-----------------------------------------------------------------------------
OrganizationInit ==
    /\ hoje = 1
    /\ cadastro = [c \in Colaboradores |->
           IF c \in Cadastrados THEN [NaoCadastrado EXCEPT !.existe = TRUE, !.ativo = TRUE]
           ELSE NaoCadastrado]
    /\ funcoes = UNION {FuncoesDe[c] : c \in Cadastrados}
    /\ vinculos = {} /\ chaves = {}
    /\ pedidos = [s \in Slots |-> Vago]
    /\ iniciados = 0
    /\ correu = FALSE

Begin(s) ==
    \/ \E c \in Colaboradores, u \in Contas \union {Ninguem} :
          \/ \E papel \in Papeis, de \in Dias :
                CreateCollaborator(s, c, {Nova(c, papel, de, Sempre)}, u, {c})
          \/ LinkAccount(s, c, u)
    \/ \E c \in Colaboradores, papel \in Papeis, de \in Dias :
          \/ \E ate \in Prazos : AddFunction(s, c, papel, de, ate)
          \/ papel \in Modalidades /\ ChangeModality(s, c, papel, de)
    \/ \E f \in funcoes, ate \in Dias : CloseFunction(s, f, ate)
    \/ \E c, l \in Colaboradores, tipo \in Tipos, de \in Dias : AssignLeader(s, c, l, tipo, de)
    \/ \E v \in vinculos, ate \in Dias : CloseAssignment(s, v, ate)
    \/ \E c \in Colaboradores : ChangeKey(s, c) \/ Deactivate(s, c) \/ ActivateCollaborator(s, c)

OrganizationNext ==
    \/ \E s \in Slots : Begin(s) \/ Efetivar(s) \/ Desistir(s)
    \/ PassaODia

OrganizationSpec == OrganizationInit /\ [][OrganizationNext]_organizationVars

-----------------------------------------------------------------------------
OrganizationTypeOK ==
    /\ hoje \in Dias
    /\ cadastro \in [Colaboradores -> Cadastro]
    /\ funcoes \subseteq Funcao
    /\ vinculos \subseteq Vinculo
    /\ chaves \subseteq Chave
    /\ iniciados \in Ns
    /\ correu \in BOOLEAN

\* Two rows of one consultant and type that share a day, as the integrity job
\* counts them.
Sobreposicoes ==
    {par \in SUBSET vinculos :
        /\ Cardinality(par) = 2
        /\ \A a, b \in par : a # b => a.quem = b.quem /\ a.tipo = b.tipo /\ Sobrepoe(a, b)}

UmLiderPorDia ==
    \A dia \in Dias : \A v, w \in EquipesAtivas(dia) :
        v.quem = w.quem /\ v.tipo = w.tipo => v = w

\* Nobody has two leaders of one type on one day ("Nao existe momento em que o
\* consultor tem dois lideres do mesmo tipo"), unless a request decided on rows
\* that another one changed; and then the integrity job reports it.
OneLeaderOrReported == UmLiderPorDia \/ (correu /\ Sobreposicoes # {})

\* A transfer leaves no day without a leader: whoever is led on a day still is
\* when a new leader is assigned, whatever else commits in between.
TransferLeavesNoGap ==
    [][\A s \in Slots : pedidos[s].op = "AssignLeader" /\ pedidos'[s] = Vago =>
           \A c \in Colaboradores, tipo \in Tipos, dia \in Dias :
               LiderNaData(c, tipo, dia) # {} => LiderNaData(c, tipo, dia)' # {}]_organizationVars

\* Who was deactivated has no function from that day on, is led by nobody
\* without an end and leads nobody of the team of that day without an end,
\* through any number of reactivations; races apart.
InactiveIsOut ==
    correu \/ \A c \in Colaboradores :
        cadastro[c].existe /\ ~cadastro[c].ativo =>
            /\ \A f \in DoColaborador(c) : f.ate < cadastro[c].desde
            /\ \A v \in vinculos : v.ate = Sempre =>
                   v.quem # c /\ (v.lider = c => v.de > cadastro[c].desde)

\* A person with keys has one open key, and from today on it is the key that is
\* answered, though the one before it is in force on its last day too; but for
\* another one registered on the same first day, which the order of the query
\* does not tell from it.  Races apart.
LastKeyInForce ==
    correu \/ \A c \in Colaboradores : {k \in chaves : k.quem = c} # {} =>
        \E k \in chaves :
            /\ k.quem = c
            /\ \A j \in chaves : j.quem = c /\ j.ate = Sempre => j = k
            /\ \A dia \in hoje..UltimoDia : \A j \in ChaveVigente(c, dia) : j.de = k.de

\* A change of modality on the edit of a collaborator leaves the days before it
\* was asked for as they were, for they were paid already.
ModalityChangeKeepsThePast ==
    [][\A s \in Slots : pedidos[s].op = "ChangeModality" /\ pedidos'[s] = Vago =>
           \A c \in Colaboradores, dia \in 1..pedidos[s].dia - 1 :
               pedidos[s].obsoleto \/ PapeisEm(c, dia)' = PapeisEm(c, dia)]_organizationVars
=============================================================================
