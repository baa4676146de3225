---------------------------- MODULE LegacyImport ----------------------------
(***************************************************************************)
(* The importer of the legacy system (modules/legacy): a rehearsal that    *)
(* reads four tables of the former database row by row, translates each    *)
(* row to a candidate, puts what it cannot decide in a queue of issues and *)
(* commits the report once, at the end.                                    *)
(*                                                                         *)
(* A field is a number, a name or a key, or Vazio (NULL or blank), or      *)
(* Ilegivel (it does not convert).  Names are equal when normalizar makes  *)
(* them so, the legacy id of a row is its place in its table, and a column *)
(* a table does not have is Vazio in its rows.                             *)
(***************************************************************************)
EXTENDS ProposalDomain, Sequences, FiniteSetsExt, Functions

CONSTANTS
    Vazio, Ilegivel,
    LinhasDe,           \* table -> rows it may hold
    MaxLinhas,          \* bound: rows of one execution, over all tables
    Arredondamento      \* a commission off by more is not a rounding

\* A text is there or not: only numbers, dates and documents do not convert
\* (campos_legados.py:93, texto).
ASSUME ImportAssumption ==
    \A t \in {"proposals", "propostas", "sales"} : \A l \in LinhasDe[t] : l.consultor # Ilegivel

VARIABLES
    lidas,              \* table -> rows read so far
    colaboradores,      \* candidates of consultants
    candidatos,         \* candidates of the commercial tables
    issues,             \* the queue of exceptions
    relatorio           \* the committed report

importVars == <<lidas, colaboradores, candidatos, issues, relatorio>>

Tabelas == <<"consultants", "proposals", "propostas", "sales">>

Paralelas == {"propostas", "sales"}

SemRelatorio == [totais |-> <<>>, bloqueios |-> 0]

Legivel(campo) == campo \notin {Vazio, Ilegivel}

Se(condicao, codigo) == IF condicao THEN {codigo} ELSE {}

\* bloqueio: the row cannot be imported; atencao: it can, but look at it.
Bloqueio(t, n, codigos) ==
    {[origem |-> t, linha |-> n, codigo |-> c, bloqueia |-> TRUE, com |-> {}] : c \in codigos}

Atencao(t, n, codigos, com) ==
    {[origem |-> t, linha |-> n, codigo |-> c, bloqueia |-> FALSE, com |-> com] : c \in codigos}

-----------------------------------------------------------------------------
\* The readers of fields: LeitorDeCampos turns a fault into an issue.  An
\* amount that is missing is no fault to it.

Dinheiros(l) == {l.operacao, l.pago, l.comissao}

\* Mutant: an amount that does not convert is taken for a missing one.
FaltasSemValor(l) ==
    Se(l.consultor = Vazio, "consultor-nao-encontrado")
        \union Se(~Legivel(l.tps), "valor-invalido")
        \union Se(~Legivel(l.data), "linha-ilegivel")

Faltas(l) ==
    Se(l.consultor = Vazio, "consultor-nao-encontrado")
        \union Se(Ilegivel \in Dinheiros(l) \/ ~Legivel(l.tps), "valor-invalido")
        \union Se(~Legivel(l.data), "linha-ilegivel")

OuZero(campo) == IF Legivel(campo) THEN campo ELSE 0

Traduzivel(l) == \A c \in {l.consultor, l.operacao, l.tps, l.data} : Legivel(c)

Calculada(l) == l.tps * l.operacao

\* What the three commercial tables have in common.
Candidato(t, n, l, pago) ==
    [origem |-> t, linha |-> n, chave |-> <<l.consultor, l.data, l.operacao>>,
     comissao |-> Calculada(l), legado |-> OuZero(l.comissao),
     status |-> StatusPara(Calculada(l), pago), redmine |-> Vazio, pessoas |-> <<>>]

-----------------------------------------------------------------------------
\* The queue and the order of the tables.

\* One more row of table t: those of the tables before it are all read.
Ler(t, l) ==
    /\ relatorio = SemRelatorio
    /\ \A i, j \in DOMAIN Tabelas : i < j /\ Tabelas[i] = t => lidas[Tabelas[j]] = <<>>
    /\ MapThenSumSet(LAMBDA u : Len(lidas[u]), Range(Tabelas)) < MaxLinhas
    /\ lidas' = [lidas EXCEPT ![t] = Append(@, l)]
    /\ UNCHANGED relatorio

Traduz(novas, colabs, cands) ==
    /\ issues' = issues \union novas
    /\ colaboradores' = colaboradores \union colabs
    /\ candidatos' = candidatos \union cands

SemId(t, l) ==
    /\ ~l.id
    /\ Ler(t, l)
    /\ Traduz(Bloqueio(t, Len(lidas'[t]), {"linha-ilegivel"}), {}, {})

-----------------------------------------------------------------------------
\* consultants.  The first row of a document is the one that stays.

CandidatoAColaborador(n, l) == [linha |-> n, nome |-> l.nome, documento |-> l.documento]

Duplicados(l) == {c \in colaboradores : c.documento = l.documento}

LerConsultant(l) ==
    LET t == "consultants"  n == Len(lidas'[t])
        valido == Legivel(l.documento) /\ l.nome # Vazio
        repetido == valido /\ Duplicados(l) # {}
    IN  /\ l.id
        /\ Ler(t, l)
        /\ Traduz(Bloqueio(t, n, Se(l.nome = Vazio, "linha-ilegivel")
                                   \union Se(~Legivel(l.documento), "documento-invalido")
                                   \union Se(repetido, "documento-duplicado"))
                     \union Atencao(t, n, {"vigencia-presumida"}
                                   \union Se(l.papel = Ilegivel, "papel-desconhecido")
                                   \union Se(l.empresa # Vazio, "empresa-sem-destino"), {}),
                  IF valido /\ ~repetido
                  THEN {CandidatoAColaborador(n, l)} ELSE {},
                  {})

-----------------------------------------------------------------------------
\* proposals.  IndiceDeColaboradores: a name of BKO or finalization stands for
\* a person only when it is the name of exactly one.

\* Mutant: of several people with one name, the last one read.
ResolverNoUltimo(nome) ==
    LET homonimos == {c.linha : c \in {x \in colaboradores : x.nome = nome}}
    IN  IF homonimos = {} THEN {} ELSE {Max(homonimos)}

Resolver(nome) ==
    LET homonimos == {c.linha : c \in {x \in colaboradores : x.nome = nome}}
    IN  IF Cardinality(homonimos) = 1 THEN homonimos ELSE {}

RedmineRepetido(l) == l.redmine # Vazio /\ \E c \in candidatos : c.redmine = l.redmine

Absoluta(x) == IF x < 0 THEN -x ELSE x

\* _conferir_comissao: a rounding asks for a look, more than that blocks.
ConferirComissao(t, n, l) ==
    LET diferenca == Absoluta(Calculada(l) - OuZero(l.comissao))
    IN  Bloqueio(t, n, Se(diferenca > Arredondamento, "comissao-divergente"))
            \union Atencao(t, n, Se(diferenca \in 1..Arredondamento, "comissao-divergente"), {})

StatusDoLegado == [ABERTA |-> "OPEN", PENDENTE |-> "PARTIALLY_PAID", FINALIZADA |-> "PAID"]

StatusDiverge(l) ==
    l.status \notin DOMAIN StatusDoLegado
        \/ StatusDoLegado[l.status] # StatusPara(Calculada(l), OuZero(l.pago))

LerProposal(l) ==
    LET t == "proposals"  n == Len(lidas'[t])
        positiva == Traduzivel(l) /\ l.operacao > 0
        repetido == positiva /\ RedmineRepetido(l)
        nomes == {l.bko, l.finalizacao} \ {Vazio}
        pessoas == [nome \in {x \in nomes : Resolver(x) # {}} |-> Resolver(nome)]
    IN  /\ l.id
        /\ Ler(t, l)
        /\ Traduz(Bloqueio(t, n, Faltas(l)
                       \union Se(Traduzivel(l) /\ ~positiva, "valor-invalido")
                       \union Se(repetido, "redmine-duplicado"))
                     \union (IF positiva
                             THEN ConferirComissao(t, n, l)
                                  \union Atencao(t, n, Se(StatusDiverge(l), "status-divergente")
                                         \union Se(~Legivel(l.cliente), "documento-invalido"), {})
                             ELSE {})
                     \union Atencao(t, n, Se(positiva /\ ~repetido /\ DOMAIN pessoas # nomes,
                                             "participante-nao-resolvido"), {}),
                  {},
                  IF positiva /\ ~repetido
                  THEN {[Candidato(t, n, l, OuZero(l.pago))
                            EXCEPT !.redmine = l.redmine, !.pessoas = pessoas]}
                  ELSE {})

-----------------------------------------------------------------------------
\* propostas and sales: a candidate of staging, which nobody has paid.

LerParalela(t, l) ==
    LET n == Len(lidas'[t])
    IN  /\ l.id
        /\ Ler(t, l)
        /\ Traduz(Bloqueio(t, n, Faltas(l))
                     \union Atencao(t, n, Se(Traduzivel(l) /\ t = "sales" /\ ~Legivel(l.cliente),
                                             "documento-invalido"), {}),
                  {},
                  IF Traduzivel(l) THEN {Candidato(t, n, l, 0)} ELSE {})

-----------------------------------------------------------------------------
\* The report.

Da(origem) == {c \in candidatos : c.origem = origem}

\* deteccao_de_duplicidade: every parallel row is a question, with the
\* proposals of the same consultant, date and amount it may repeat.
Detectar ==
    UNION {Atencao(p.origem, p.linha, {"estrutura-duplicada"},
                   {c.linha : c \in {x \in Da("proposals") : x.chave = p.chave}})
           : p \in UNION {Da(t) : t \in Paralelas}}

Totalizar(t) ==
    [lidos |-> Len(lidas[t]), traduzidos |-> Cardinality(Da(t)),
     operacao |-> MapThenSumSet(LAMBDA c : c.chave[3], Da(t)),
     legado |-> MapThenSumSet(LAMBDA c : c.legado, Da(t)),
     calculada |-> MapThenSumSet(LAMBDA c : c.comissao, Da(t)),
     status |-> [s \in {c.status : c \in Da(t)} |-> Cardinality({c \in Da(t) : c.status = s})]]

\* The single commit, and the exit code: bloqueios is what stops the load.
Fechar ==
    /\ relatorio = SemRelatorio
    /\ issues' = issues \union Detectar
    /\ relatorio' = [totais |-> [t \in Range(Tabelas) \ {"consultants"} |-> Totalizar(t)],
                     bloqueios |-> Cardinality({i \in issues : i.bloqueia})]
    /\ UNCHANGED <<lidas, colaboradores, candidatos>>

ImportInit ==
    /\ lidas = [t \in Range(Tabelas) |-> <<>>]
    /\ colaboradores = {} /\ candidatos = {} /\ issues = {}
    /\ relatorio = SemRelatorio

\* The next execution, or this one fails and nothing of it is committed.
Executar ==
    /\ ~ImportInit
    /\ lidas' = [t \in Range(Tabelas) |-> <<>>]
    /\ colaboradores' = {} /\ candidatos' = {} /\ issues' = {}
    /\ relatorio' = SemRelatorio

ImportNext ==
    \/ \E t \in Range(Tabelas) : \E l \in LinhasDe[t] : SemId(t, l)
    \/ \E l \in LinhasDe["consultants"] : LerConsultant(l)
    \/ \E l \in LinhasDe["proposals"] : LerProposal(l)
    \/ \E t \in Paralelas : \E l \in LinhasDe[t] : LerParalela(t, l)
    \/ Fechar
    \/ Executar

ImportSpec == ImportInit /\ [][ImportNext]_importVars

-----------------------------------------------------------------------------
\* Properties.

TemIssue(t, n) == \E i \in issues : i.origem = t /\ i.linha = n

\* A row whose amount is missing: the reader finds nothing wrong with it and
\* the translator no candidate in it.
SemValor(t, n) == t # "consultants" /\ lidas[t][n].id /\ lidas[t][n].operacao = Vazio

\* Whatever a report is about, each row that was read is in it: a proposal is a
\* candidate or an issue and a row of the other tables an issue, so that
\* nothing of the former system is lost without somebody being told (legado-
\* mapeamento.md, "Fila de exceção").  A row without an amount is the one
\* exception the code makes: it may vanish with no issue at all.
RowsAreAnswered ==
    relatorio # SemRelatorio =>
        \A t \in Range(Tabelas) : \A n \in DOMAIN lidas[t] :
            \/ TemIssue(t, n)
            \/ t = "proposals" /\ \E c \in Da(t) : c.linha = n
            \/ SemValor(t, n)

\* A report without a blocking issue is one a load may follow.  Every
\* consultant is then a candidate and every proposal with an amount too, no two
\* share a document or a redmine, and a person found for a name is the only one
\* of the former system with that name - also among the rows the index of names
\* never saw, because they were refused.
CleanReportIsFaithful ==
    relatorio # SemRelatorio /\ relatorio.bloqueios = 0 =>
        /\ Cardinality(colaboradores) = Len(lidas["consultants"])
        /\ Cardinality({c.documento : c \in colaboradores}) = Cardinality(colaboradores)
        /\ relatorio.totais["proposals"].traduzidos
             = Cardinality({n \in DOMAIN lidas["proposals"] : ~SemValor("proposals", n)})
        /\ \A c, d \in Da("proposals") : c # d /\ c.redmine = d.redmine => c.redmine = Vazio
        /\ \A c \in Da("proposals") : \A nome \in DOMAIN c.pessoas :
             c.pessoas[nome] = {n \in DOMAIN lidas["consultants"] : lidas["consultants"][n].nome = nome}
=============================================================================
