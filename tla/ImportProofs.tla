----------------------------- MODULE ImportProofs -----------------------------
(***************************************************************************)
(* Proofs about what is registered and what is imported: ReceivingCatalog, *)
(* for any keys, places and number of commands at the same time, and       *)
(* LegacyImport, for any tables of the former system.                      *)
(***************************************************************************)
EXTENDS ReceivingCatalog, LegacyImport, FiniteSetTheorems, WellFoundedInduction, TLAPS

-----------------------------------------------------------------------------
(***************************************************************************)
(* The import.  Rows are only added, each with its answer: what a row says *)
(* depends on the rows before it, and these do not change.                 *)
(***************************************************************************)

Linhas(t) == DOMAIN lidas[t]

QueBloqueiam(S) == {i \in S : i.bloqueia}

Bloqueios == QueBloqueiam(issues)

Bloqueada(t, n) == \E i \in issues : i.bloqueia /\ i.origem = t /\ i.linha = n

Candidata(t, n) == \E c \in candidatos : c.origem = t /\ c.linha = n

Homonimos(nome) == {c.linha : c \in {x \in colaboradores : x.nome = nome}}

LidasOK ==
    /\ DOMAIN lidas = Range(Tabelas)
    /\ \A t \in Range(Tabelas) : lidas[t] \in Seq(LinhasDe[t])

\* A candidate is that of one row, and every row is answered.
ConsultoresOK ==
    /\ \A c \in colaboradores : /\ c.linha \in Linhas("consultants")
                                /\ c.nome = lidas["consultants"][c.linha].nome
    /\ \A c, d \in colaboradores : c.linha = d.linha \/ c.documento = d.documento => c = d
    /\ \A n \in Linhas("consultants") :
           /\ TemIssue("consultants", n)
           /\ Bloqueada("consultants", n) \/ \E c \in colaboradores : c.linha = n

PropostasOK ==
    /\ \A n \in Linhas("proposals") :
           Bloqueada("proposals", n) \/ Candidata("proposals", n) \/ SemValor("proposals", n)
    /\ \A c \in Da("proposals") :
           /\ ~SemValor("proposals", c.linha)
           /\ \A nome \in DOMAIN c.pessoas : c.pessoas[nome] = Homonimos(nome)
           /\ \A d \in Da("proposals") : c # d /\ c.redmine = d.redmine => c.redmine = Vazio

ParalelasOK ==
    \A t \in Paralelas : \A n \in Linhas(t) :
        TemIssue(t, n) \/ Candidata(t, n) \/ SemValor(t, n)

CandidatosOK ==
    /\ \A c \in candidatos : c.origem \in Range(Tabelas) /\ c.linha \in Linhas(c.origem)
    /\ \A c, d \in candidatos : c.origem = d.origem /\ c.linha = d.linha => c = d

RelatorioOK ==
    relatorio # SemRelatorio =>
        /\ relatorio.bloqueios = Cardinality(Bloqueios)
        /\ relatorio.totais["proposals"].traduzidos = Cardinality(Da("proposals"))
        /\ \A t \in Paralelas : \A c \in Da(t) : TemIssue(t, c.linha)

IInv ==
    /\ LidasOK
    /\ CandidatosOK
    /\ ConsultoresOK
    /\ PropostasOK
    /\ ParalelasOK
    /\ IsFiniteSet(Bloqueios)
    /\ RelatorioOK

LEMMA TheTables == Range(Tabelas) = {"consultants", "proposals", "propostas", "sales"}
  BY DEF Tabelas, Range

LEMMA OneMore ==
    ASSUME NEW S, NEW s \in Seq(S), NEW x \in S, NEW r, r = Append(s, x)
    PROVE  /\ r \in Seq(S) /\ Len(r) = Len(s) + 1 /\ Len(s) \in Nat
           /\ DOMAIN s = 1..Len(s) /\ DOMAIN r = 1..(Len(s) + 1)
           /\ r[Len(s) + 1] = x /\ \A m \in DOMAIN s : r[m] = s[m]
  OBVIOUS

\* A row of a table: the others stay, and the tables after it are empty.
LEMMA OneMoreRow ==
    ASSUME LidasOK, NEW t \in Range(Tabelas), NEW l \in LinhasDe[t], Ler(t, l),
           NEW n, n = Len(lidas'[t])
    PROVE  /\ LidasOK'
           /\ n \notin Linhas(t) /\ Linhas(t)' = Linhas(t) \cup {n}
           /\ lidas'[t][n] = l /\ \A m \in Linhas(t) : lidas'[t][m] = lidas[t][m]
           /\ \A u \in Range(Tabelas) \ {t} : lidas'[u] = lidas[u]
           /\ t = "consultants" => Linhas("proposals") = {}
           /\ relatorio = SemRelatorio /\ relatorio' = SemRelatorio
  <1>1. /\ lidas' = [lidas EXCEPT ![t] = Append(lidas[t], l)]
        /\ relatorio = SemRelatorio /\ relatorio' = SemRelatorio
        /\ \A i, j \in DOMAIN Tabelas : i < j /\ Tabelas[i] = t => lidas[Tabelas[j]] = <<>>
    BY DEF Ler
  <1>2. lidas[t] \in Seq(LinhasDe[t]) /\ lidas'[t] = Append(lidas[t], l)
    BY <1>1 DEF LidasOK
  <1> DEFINE S == LinhasDe[t]
             s == lidas[t]
             r == lidas'[t]
  <1>a. s \in Seq(S) /\ l \in S /\ r = Append(s, l)
    BY <1>2
  <1> HIDE DEF S, s, r
  <1>b. /\ r \in Seq(S) /\ Len(r) = Len(s) + 1 /\ Len(s) \in Nat
        /\ DOMAIN s = 1..Len(s) /\ DOMAIN r = 1..(Len(s) + 1)
        /\ r[Len(s) + 1] = l /\ \A m \in DOMAIN s : r[m] = s[m]
    BY <1>a, OneMore
  <1>3. /\ lidas'[t] \in Seq(LinhasDe[t]) /\ n = Len(lidas[t]) + 1 /\ Len(lidas[t]) \in Nat
        /\ DOMAIN lidas[t] = 1..Len(lidas[t]) /\ DOMAIN lidas'[t] = 1..(Len(lidas[t]) + 1)
        /\ lidas'[t][n] = l /\ \A m \in DOMAIN lidas[t] : lidas'[t][m] = lidas[t][m]
    BY <1>b DEF S, s, r
  <1>4. n \notin Linhas(t) /\ Linhas(t)' = Linhas(t) \cup {n}
    BY <1>3 DEF Linhas
  <1>5. \A u \in Range(Tabelas) \ {t} : lidas'[u] = lidas[u]
    BY <1>1 DEF LidasOK
  <1>6. LidasOK'
    BY <1>1, <1>3, <1>5 DEF LidasOK
  <1>7. t = "consultants" => Linhas("proposals") = {}
    <2>1. 1 \in DOMAIN Tabelas /\ 2 \in DOMAIN Tabelas /\ Tabelas[1] = "consultants" /\ Tabelas[2] = "proposals"
      BY DEF Tabelas
    <2>2. t = "consultants" => lidas["proposals"] = <<>>
      BY <1>1, <2>1
    <2> QED
      BY <2>2 DEF Linhas
  <1> QED
    BY <1>1, <1>3, <1>4, <1>5, <1>6, <1>7 DEF Linhas

\* What a reader may say of row n: the issues are about this row, a consultant
\* has its name and a new document, and a candidate of proposals a new redmine,
\* the people the names stand for, and an amount.
Diz(t, n, l, novas, colabs, cands) ==
    /\ \A i \in novas : i.origem = t /\ i.linha = n
    /\ IsFiniteSet(QueBloqueiam(novas))
    /\ \A c \in colabs : /\ t = "consultants" /\ c.linha = n /\ c.nome = l.nome
                         /\ \A d \in colaboradores : d.documento # c.documento
                         /\ \A d \in colabs : c = d
    /\ \A c \in cands : /\ c.origem = t /\ t # "consultants" /\ c.linha = n
                        /\ \A d \in cands : c = d
                        /\ t = "proposals" =>
                               /\ ~(l.id /\ l.operacao = Vazio)
                               /\ \A nome \in DOMAIN c.pessoas : c.pessoas[nome] = Homonimos(nome)
                               /\ \A d \in candidatos : d.redmine = c.redmine => c.redmine = Vazio
    /\ t = "consultants" => novas # {} /\ ((\E i \in novas : i.bloqueia) \/ colabs # {})
    /\ t = "proposals" => \/ \E i \in novas : i.bloqueia
                          \/ cands # {} \/ (l.id /\ l.operacao = Vazio)
    /\ t \in Paralelas => novas # {} \/ cands # {} \/ (l.id /\ l.operacao = Vazio)

LEMMA IssuesStay ==
    ASSUME NEW novas, issues' = issues \cup novas
    PROVE  \A t, n : /\ TemIssue(t, n) => TemIssue(t, n)'
                     /\ Bloqueada(t, n) => Bloqueada(t, n)'
  BY DEF TemIssue, Bloqueada

LEMMA RowAnswered ==
    ASSUME IInv, NEW t \in Range(Tabelas), NEW l \in LinhasDe[t], Ler(t, l),
           NEW n, n = Len(lidas'[t]), NEW novas, NEW colabs, NEW cands,
           Traduz(novas, colabs, cands), Diz(t, n, l, novas, colabs, cands)
    PROVE  IInv'
  <1>1. /\ LidasOK'
        /\ n \notin Linhas(t) /\ Linhas(t)' = Linhas(t) \cup {n}
        /\ lidas'[t][n] = l /\ \A m \in Linhas(t) : lidas'[t][m] = lidas[t][m]
        /\ \A u \in Range(Tabelas) \ {t} : lidas'[u] = lidas[u]
        /\ t = "consultants" => Linhas("proposals") = {}
        /\ relatorio = SemRelatorio /\ relatorio' = SemRelatorio
    BY OneMoreRow DEF IInv
  <1>2. /\ issues' = issues \cup novas /\ colaboradores' = colaboradores \cup colabs
        /\ candidatos' = candidatos \cup cands
    BY DEF Traduz
  <1>3. \A u \in Range(Tabelas) : /\ u # t => Linhas(u)' = Linhas(u)
                                  /\ \A m \in Linhas(u) : lidas'[u][m] = lidas[u][m]
    BY <1>1 DEF Linhas
  <1>4. \A u, m : (TemIssue(u, m) => TemIssue(u, m)') /\ (Bloqueada(u, m) => Bloqueada(u, m)')
    BY <1>2, IssuesStay
  <1>5. /\ (\E i \in novas : i.bloqueia) => Bloqueada(t, n)'
        /\ novas # {} => TemIssue(t, n)'
    BY <1>2 DEF Diz, Bloqueada, TemIssue
  <1>6. /\ \A u, m : Candidata(u, m) => Candidata(u, m)'
        /\ cands # {} => Candidata(t, n)'
    BY <1>2 DEF Diz, Candidata
  <1>7. /\ \A u \in Range(Tabelas) : \A m \in Linhas(u) : SemValor(u, m)' <=> SemValor(u, m)
        /\ SemValor(t, n)' <=> (t # "consultants" /\ l.id /\ l.operacao = Vazio)
    BY <1>1, <1>3 DEF SemValor
  <1>a. {"consultants", "proposals", "propostas", "sales"} = Range(Tabelas)
    BY TheTables
  <1>8. CandidatosOK'
    <2>1. \A c \in cands : c.origem = t /\ c.linha = n /\ \A d \in cands : c = d
      BY DEF Diz
    <2>2. CandidatosOK
      BY DEF IInv
    <2>3. \A c \in candidatos' : c.origem \in Range(Tabelas) /\ c.linha \in Linhas(c.origem)'
      BY <1>1, <1>2, <1>3, <2>1, <2>2 DEF CandidatosOK
    <2>4. ASSUME NEW c \in candidatos', NEW d \in candidatos', c.origem = d.origem, c.linha = d.linha
          PROVE  c = d
      BY <1>1, <1>2, <2>1, <2>2, <2>4 DEF CandidatosOK
    <2> QED
      BY <2>3, <2>4 DEF CandidatosOK
  <1>9. ConsultoresOK'
    <2>1. ConsultoresOK
      BY DEF IInv
    <2>2. CASE t # "consultants"
      <3>1. colaboradores' = colaboradores /\ Linhas("consultants")' = Linhas("consultants")
        BY <1>2, <1>3, <1>a, <2>2 DEF Diz
      <3>2. \A m \in Linhas("consultants") : lidas'["consultants"][m] = lidas["consultants"][m]
        BY <1>3, <1>a
      <3> QED
        BY <1>4, <2>1, <3>1, <3>2 DEF ConsultoresOK
    <2>3. CASE t = "consultants"
      <3>1. \A c \in colabs : /\ c.linha = n /\ c.nome = l.nome
                              /\ \A d \in colaboradores : d.documento # c.documento
                              /\ \A d \in colabs : c = d
        BY DEF Diz
      <3>2. \A c \in colaboradores' : /\ c.linha \in Linhas("consultants")'
                                      /\ c.nome = lidas'["consultants"][c.linha].nome
        BY <1>1, <1>2, <2>1, <2>3, <3>1 DEF ConsultoresOK
      <3>3. ASSUME NEW c \in colaboradores', NEW d \in colaboradores',
                   c.linha = d.linha \/ c.documento = d.documento
            PROVE  c = d
        BY <1>1, <1>2, <2>1, <2>3, <3>1, <3>3 DEF ConsultoresOK
      <3>4. \A m \in Linhas("consultants")' :
                /\ TemIssue("consultants", m)'
                /\ Bloqueada("consultants", m)' \/ \E c \in colaboradores' : c.linha = m
        <4>1. \A m \in Linhas("consultants") :
                  /\ TemIssue("consultants", m)'
                  /\ Bloqueada("consultants", m)' \/ \E c \in colaboradores' : c.linha = m
          BY <1>2, <1>4, <2>1 DEF ConsultoresOK
        <4>2. /\ TemIssue("consultants", n)'
              /\ Bloqueada("consultants", n)' \/ \E c \in colaboradores' : c.linha = n
          BY <1>2, <1>5, <2>3, <3>1 DEF Diz
        <4> QED
          BY <1>1, <2>3, <4>1, <4>2
      <3> QED
        BY <3>2, <3>3, <3>4 DEF ConsultoresOK
    <2> QED
      BY <2>2, <2>3
  <1>10. PropostasOK'
    <2>1. PropostasOK /\ CandidatosOK
      BY DEF IInv
    <2>2. ASSUME NEW m \in Linhas("proposals")'
          PROVE  Bloqueada("proposals", m)' \/ Candidata("proposals", m)' \/ SemValor("proposals", m)'
      <3>1. CASE m \in Linhas("proposals")
        BY <1>4, <1>6, <1>7, <1>a, <2>1, <3>1 DEF PropostasOK
      <3>2. CASE m \notin Linhas("proposals")
        <4>1. t = "proposals" /\ m = n
          BY <1>1, <1>3, <1>a, <2>2, <3>2
        <4> QED
          BY <1>5, <1>6, <1>7, <4>1 DEF Diz
      <3> QED
        BY <3>1, <3>2
    <2>3. ASSUME NEW c \in Da("proposals")'
          PROVE  c \in Da("proposals") \/ (c \in cands /\ t = "proposals")
      BY <1>2, <2>3 DEF Da, Diz
    <2>4. \A nome : Da("proposals") # {} => Homonimos(nome)' = Homonimos(nome)
      <3>1. CASE t = "consultants"
        BY <1>1, <2>1, <3>1 DEF CandidatosOK, Da
      <3>2. CASE t # "consultants"
        BY <1>2, <3>2 DEF Diz, Homonimos
      <3> QED
        BY <3>1, <3>2
    <2>5. t = "proposals" => \A nome : Homonimos(nome)' = Homonimos(nome)
      BY <1>2 DEF Diz, Homonimos
    <2>6. ASSUME NEW c \in Da("proposals")'
          PROVE  /\ ~SemValor("proposals", c.linha)'
                 /\ \A nome \in DOMAIN c.pessoas : c.pessoas[nome] = Homonimos(nome)'
      <3>1. CASE c \in Da("proposals")
        <4>1. c.linha \in Linhas("proposals")
          BY <2>1, <3>1 DEF CandidatosOK, Da
        <4> QED
          BY <1>7, <1>a, <2>1, <2>4, <3>1, <4>1 DEF PropostasOK
      <3>2. CASE c \in cands /\ t = "proposals"
        <4>1. /\ c.linha = n /\ ~(l.id /\ l.operacao = Vazio)
              /\ \A nome \in DOMAIN c.pessoas : c.pessoas[nome] = Homonimos(nome)
          BY <3>2 DEF Diz
        <4> QED
          BY <1>7, <2>5, <3>2, <4>1
      <3> QED
        BY <2>3, <3>1, <3>2
    <2>7. ASSUME NEW c \in Da("proposals")', NEW d \in Da("proposals")', c # d, c.redmine = d.redmine
          PROVE  c.redmine = Vazio
      <3>1. CASE c \in Da("proposals") /\ d \in Da("proposals")
        BY <2>1, <2>7, <3>1 DEF PropostasOK
      <3>2. CASE c \in cands /\ t = "proposals"
        <4>1. d \in candidatos
          BY <2>3, <2>7, <3>2 DEF Diz, Da
        <4> QED
          BY <2>7, <3>2, <4>1 DEF Diz
      <3>3. CASE d \in cands /\ t = "proposals"
        <4>1. c \in candidatos
          BY <2>3, <2>7, <3>3 DEF Diz, Da
        <4> QED
          BY <2>7, <3>3, <4>1 DEF Diz
      <3> QED
        BY <2>3, <3>1, <3>2, <3>3
    <2> QED
      BY <2>2, <2>6, <2>7 DEF PropostasOK
  <1>11. ParalelasOK'
    <2> SUFFICES ASSUME NEW u \in Paralelas, NEW m \in Linhas(u)'
                 PROVE  TemIssue(u, m)' \/ Candidata(u, m)' \/ SemValor(u, m)'
      BY DEF ParalelasOK
    <2>1. u \in Range(Tabelas)
      BY <1>a DEF Paralelas
    <2>2. CASE m \in Linhas(u)
      BY <1>4, <1>6, <1>7, <2>1, <2>2 DEF IInv, ParalelasOK
    <2>3. CASE m \notin Linhas(u)
      <3>1. u = t /\ m = n /\ t # "consultants"
        BY <1>1, <1>3, <2>1, <2>3 DEF Paralelas
      <3> QED
        BY <1>5, <1>6, <1>7, <3>1 DEF Diz
    <2> QED
      BY <2>2, <2>3
  <1>12. IsFiniteSet(Bloqueios')
    <2>1. Bloqueios' = Bloqueios \cup QueBloqueiam(novas)
      BY <1>2 DEF Bloqueios, QueBloqueiam
    <2> QED
      BY <2>1, FS_Union DEF IInv, Diz
  <1>13. RelatorioOK'
    BY <1>1 DEF RelatorioOK
  <1> QED
    BY <1>1, <1>8, <1>9, <1>10, <1>11, <1>12, <1>13 DEF IInv

LEMMA OneCode ==
    ASSUME NEW condicao, NEW codigo
    PROVE  IsFiniteSet(Se(condicao, codigo)) /\ (condicao => codigo \in Se(condicao, codigo))
  BY FS_EmptySet, FS_Singleton DEF Se

\* The issues of a set of codes, and which of them block.
LEMMA Codes ==
    ASSUME NEW t, NEW n, NEW C
    PROVE  /\ \A i \in Bloqueio(t, n, C) : i.origem = t /\ i.linha = n /\ i.bloqueia
           /\ C # {} => Bloqueio(t, n, C) # {}
           /\ IsFiniteSet(C) => IsFiniteSet(Bloqueio(t, n, C))
  <1> DEFINE f == [c \in C |-> [origem |-> t, linha |-> n, codigo |-> c, bloqueia |-> TRUE,
                                com |-> {}]]
  <1>1. \A i \in Bloqueio(t, n, C) : i.origem = t /\ i.linha = n /\ i.bloqueia
    BY DEF Bloqueio
  <1>2. C # {} => Bloqueio(t, n, C) # {}
    BY DEF Bloqueio
  <1>3. IsFiniteSet(C) => IsFiniteSet(Bloqueio(t, n, C))
    <2>1. \A i \in Bloqueio(t, n, C) : \E c \in C : i = f[c]
      BY DEF Bloqueio
    <2>2. \A c \in C : f[c] \in Bloqueio(t, n, C)
      BY DEF Bloqueio
    <2>3. f \in [C -> Bloqueio(t, n, C)]
      BY <2>2
    <2> HIDE DEF f
    <2>4. f \in Surjection(C, Bloqueio(t, n, C))
      BY <2>1, <2>3 DEF Surjection
    <2> QED
      BY <2>4, FS_Surjection
  <1> QED
    BY <1>1, <1>2, <1>3

LEMMA Notices ==
    ASSUME NEW t, NEW n, NEW C, NEW com
    PROVE  /\ \A i \in Atencao(t, n, C, com) : i.origem = t /\ i.linha = n /\ ~i.bloqueia
           /\ C # {} => Atencao(t, n, C, com) # {}
  <1>1. ASSUME NEW i \in Atencao(t, n, C, com)
        PROVE  i.origem = t /\ i.linha = n /\ ~i.bloqueia
    <2>1. PICK c \in C : i = [origem |-> t, linha |-> n, codigo |-> c, bloqueia |-> FALSE,
                              com |-> com]
      BY DEF Atencao
    <2> QED
      BY <2>1
  <1>2. C # {} => Atencao(t, n, C, com) # {}
    BY DEF Atencao
  <1> QED
    BY <1>1, <1>2

Avisos(t, n, A) == \A i \in A : i.origem = t /\ i.linha = n /\ ~i.bloqueia

\* Two blocks of issues about one row, and notices.
LEMMA Together ==
    ASSUME NEW t, NEW n, NEW C, NEW D, IsFiniteSet(C), IsFiniteSet(D), NEW A, Avisos(t, n, A),
           NEW novas, novas = Bloqueio(t, n, C) \cup Bloqueio(t, n, D) \cup A
    PROVE  /\ \A i \in novas : i.origem = t /\ i.linha = n
           /\ IsFiniteSet(QueBloqueiam(novas))
           /\ C # {} \/ D # {} => \E i \in novas : i.bloqueia
  <1>1. /\ \A i \in Bloqueio(t, n, C) \cup Bloqueio(t, n, D) :
               i.origem = t /\ i.linha = n /\ i.bloqueia
        /\ C # {} => Bloqueio(t, n, C) # {}
        /\ D # {} => Bloqueio(t, n, D) # {}
        /\ IsFiniteSet(Bloqueio(t, n, C)) /\ IsFiniteSet(Bloqueio(t, n, D))
    BY Codes
  <1>2. QueBloqueiam(novas) = Bloqueio(t, n, C) \cup Bloqueio(t, n, D)
    BY <1>1 DEF QueBloqueiam, Avisos
  <1>3. IsFiniteSet(Bloqueio(t, n, C) \cup Bloqueio(t, n, D))
    BY <1>1, FS_Union
  <1> QED
    BY <1>1, <1>2, <1>3 DEF Avisos

LEMMA NoIdKeeps ==
    ASSUME IInv, NEW t \in Range(Tabelas), NEW l \in LinhasDe[t], SemId(t, l)
    PROVE  IInv'
  <1> DEFINE n == Len(lidas'[t])
             novas == Bloqueio(t, n, {"linha-ilegivel"})
  <1>1. /\ ~l.id /\ Ler(t, l) /\ Traduz(novas, {}, {})
    BY DEF SemId
  <1> HIDE DEF n
  <1>2. Bloqueio(t, n, {}) = {}
    BY DEF Bloqueio
  <1>3. IsFiniteSet({"linha-ilegivel"}) /\ IsFiniteSet({})
    BY FS_EmptySet, FS_Singleton
  <1>4. novas = Bloqueio(t, n, {"linha-ilegivel"}) \cup Bloqueio(t, n, {}) \cup {}
    BY <1>2
  <1> HIDE DEF novas
  <1>5. /\ \A i \in novas : i.origem = t /\ i.linha = n
        /\ IsFiniteSet(QueBloqueiam(novas))
        /\ \E i \in novas : i.bloqueia
    BY <1>3, <1>4, Together DEF Avisos
  <1>6. Diz(t, n, l, novas, {}, {})
    BY <1>5 DEF Diz
  <1> QED
    BY <1>1, <1>6, RowAnswered DEF n

LEMMA ConsultantKeeps ==
    ASSUME IInv, NEW l \in LinhasDe["consultants"], LerConsultant(l)
    PROVE  IInv'
  <1> DEFINE t == "consultants"
             n == Len(lidas'[t])
             valido == Legivel(l.documento) /\ l.nome # Vazio
             repetido == valido /\ Duplicados(l) # {}
             C == Se(l.nome = Vazio, "linha-ilegivel")
                      \union Se(~Legivel(l.documento), "documento-invalido")
                      \union Se(repetido, "documento-duplicado")
             N == {"vigencia-presumida"} \union Se(l.papel = Ilegivel, "papel-desconhecido")
                      \union Se(l.empresa # Vazio, "empresa-sem-destino")
             A == Atencao(t, n, N, {})
             novas == Bloqueio(t, n, C) \union A
             colabs == IF valido /\ ~repetido THEN {CandidatoAColaborador(n, l)} ELSE {}
  <1>1. Ler(t, l) /\ Traduz(novas, colabs, {})
    BY DEF LerConsultant
  <1>2. IsFiniteSet(C) /\ IsFiniteSet({})
    BY OneCode, FS_Union, FS_EmptySet
  <1>3. C = {} => valido /\ ~repetido
    BY DEF Se
  <1>4. N # {}
    OBVIOUS
  <1>5. colabs # {} <=> valido /\ ~repetido
    OBVIOUS
  <1>6. \A c \in colabs : /\ c.linha = n /\ c.nome = l.nome
                          /\ \A d \in colaboradores : d.documento # c.documento
                          /\ \A d \in colabs : c = d
    BY DEF CandidatoAColaborador, Duplicados
  <1> HIDE DEF t, n, C, N, colabs
  <1>7. Bloqueio(t, n, {}) = {}
    BY DEF Bloqueio
  <1>8. Avisos(t, n, A) /\ A # {}
    BY <1>4, Notices DEF Avisos
  <1> HIDE DEF A
  <1>9. novas = Bloqueio(t, n, C) \cup Bloqueio(t, n, {}) \cup A
    BY <1>7
  <1> HIDE DEF novas, valido, repetido
  <1>10. /\ \A i \in novas : i.origem = t /\ i.linha = n
         /\ IsFiniteSet(QueBloqueiam(novas))
         /\ C # {} => \E i \in novas : i.bloqueia
    BY <1>2, <1>8, <1>9, Together
  <1>11. novas # {}
    BY <1>8, <1>9
  <1>12. Diz(t, n, l, novas, colabs, {})
    BY <1>3, <1>5, <1>6, <1>10, <1>11 DEF t, Diz, Paralelas
  <1> QED
    BY <1>1, <1>12, RowAnswered, TheTables DEF t, n

\* A row with an amount and without a fault is translated.
LEMMA NoFaultNoGap ==
    ASSUME ImportAssumption, NEW t \in {"proposals", "propostas", "sales"}, NEW l \in LinhasDe[t],
           Faltas(l) = {}, l.operacao # Vazio
    PROVE  Traduzivel(l)
  <1>1. /\ Se(l.consultor = Vazio, "consultor-nao-encontrado") = {}
        /\ Se(Ilegivel \in Dinheiros(l) \/ ~Legivel(l.tps), "valor-invalido") = {}
        /\ Se(~Legivel(l.data), "linha-ilegivel") = {}
    BY DEF Faltas
  <1>2. \A condicao, codigo : Se(condicao, codigo) = {} => ~condicao
    BY OneCode
  <1>3. l.consultor # Vazio /\ Legivel(l.tps) /\ Legivel(l.data) /\ l.operacao # Ilegivel
    BY <1>1 DEF Se, Dinheiros
  <1>4. l.consultor # Ilegivel
    BY DEF ImportAssumption
  <1> QED
    BY <1>3, <1>4 DEF Traduzivel, Legivel

LEMMA FaultsAreFew == ASSUME NEW l PROVE IsFiniteSet(Faltas(l))
  BY OneCode, FS_Union DEF Faltas

LEMMA ProposalKeeps ==
    ASSUME ImportAssumption, IInv, NEW l \in LinhasDe["proposals"], LerProposal(l)
    PROVE  IInv'
  <1> DEFINE t == "proposals"
             n == Len(lidas'[t])
             positiva == Traduzivel(l) /\ l.operacao > 0
             repetido == positiva /\ RedmineRepetido(l)
             nomes == {l.bko, l.finalizacao} \ {Vazio}
             pessoas == [nome \in {x \in nomes : Resolver(x) # {}} |-> Resolver(nome)]
             C == Faltas(l) \union Se(Traduzivel(l) /\ ~positiva, "valor-invalido")
                      \union Se(repetido, "redmine-duplicado")
             diferenca == Absoluta(Calculada(l) - OuZero(l.comissao))
             X == Se(diferenca > Arredondamento, "comissao-divergente")
             D == IF positiva THEN X ELSE {}
             A1 == Atencao(t, n, Se(diferenca \in 1..Arredondamento, "comissao-divergente"), {})
             A2 == Atencao(t, n, Se(StatusDiverge(l), "status-divergente")
                                    \union Se(~Legivel(l.cliente), "documento-invalido"), {})
             A3 == Atencao(t, n, Se(positiva /\ ~repetido /\ DOMAIN pessoas # nomes,
                                    "participante-nao-resolvido"), {})
             A == (IF positiva THEN A1 \union A2 ELSE {}) \union A3
             novas == Bloqueio(t, n, C) \union (IF positiva THEN ConferirComissao(t, n, l) \union A2
                                                ELSE {}) \union A3
             novo == [Candidato(t, n, l, OuZero(l.pago)) EXCEPT !.redmine = l.redmine,
                                                               !.pessoas = pessoas]
             cands == IF positiva /\ ~repetido THEN {novo} ELSE {}
  <1>1. Ler(t, l) /\ Traduz(novas, {}, cands)
    BY DEF LerProposal
  <1>2. IsFiniteSet(C) /\ IsFiniteSet(D)
    BY OneCode, FaultsAreFew, FS_Union, FS_EmptySet
  <1>3. C = {} => /\ Faltas(l) = {} /\ ~repetido
                  /\ Traduzivel(l) => positiva
    BY DEF Se
  <1>4. positiva => l.operacao # Vazio
    BY DEF Traduzivel, Legivel
  <1>5. cands # {} <=> positiva /\ ~repetido
    OBVIOUS
  <1>6. /\ novo.origem = t /\ novo.linha = n /\ novo.redmine = l.redmine /\ novo.pessoas = pessoas
    BY DEF Candidato
  <1>7. \A nome \in DOMAIN pessoas : pessoas[nome] = Homonimos(nome)
    BY DEF Resolver, Homonimos
  <1>8. positiva /\ ~repetido => \A d \in candidatos : d.redmine = l.redmine => l.redmine = Vazio
    BY DEF RedmineRepetido
  <1>9. ConferirComissao(t, n, l) = Bloqueio(t, n, X) \union A1
    BY DEF ConferirComissao
  <1>10. Avisos(t, n, A1) /\ Avisos(t, n, A2) /\ Avisos(t, n, A3)
    BY Notices DEF Avisos
  <1> HIDE DEF n, C, A1, A2, A3, X, pessoas, novo
  <1>11. Avisos(t, n, A)
    BY <1>10 DEF Avisos
  <1>12. Bloqueio(t, n, {}) = {}
    BY DEF Bloqueio
  <1>13. novas = Bloqueio(t, n, C) \cup Bloqueio(t, n, D) \cup A
    BY <1>9, <1>12
  <1>14. \A c \in cands : c = novo /\ positiva /\ ~repetido
    OBVIOUS
  <1> HIDE DEF novas, A, D, positiva, repetido, cands
  <1>15. /\ \A i \in novas : i.origem = t /\ i.linha = n
         /\ IsFiniteSet(QueBloqueiam(novas))
         /\ C # {} => \E i \in novas : i.bloqueia
    BY <1>2, <1>11, <1>13, Together
  <1>16. l.operacao # Vazio => (\E i \in novas : i.bloqueia) \/ cands # {}
    <2>1. Faltas(l) = {} /\ l.operacao # Vazio => Traduzivel(l)
      BY NoFaultNoGap
    <2> QED
      BY <1>3, <1>5, <1>15, <2>1
  <1>17. \A c \in cands : /\ c.origem = t /\ c.linha = n /\ \A d \in cands : c = d
                          /\ ~(l.id /\ l.operacao = Vazio)
                          /\ \A nome \in DOMAIN c.pessoas : c.pessoas[nome] = Homonimos(nome)
                          /\ \A d \in candidatos : d.redmine = c.redmine => c.redmine = Vazio
    BY <1>4, <1>6, <1>7, <1>8, <1>14
  <1>18. l.id
    BY DEF LerProposal
  <1>19. Diz(t, n, l, novas, {}, cands)
    BY <1>15, <1>16, <1>17, <1>18 DEF Diz, Paralelas
  <1> QED
    BY <1>1, <1>19, RowAnswered, TheTables DEF n

LEMMA ParallelKeeps ==
    ASSUME ImportAssumption, IInv, NEW t \in Paralelas, NEW l \in LinhasDe[t], LerParalela(t, l)
    PROVE  IInv'
  <1> DEFINE n == Len(lidas'[t])
             C == Faltas(l)
             A == Atencao(t, n, Se(Traduzivel(l) /\ t = "sales" /\ ~Legivel(l.cliente),
                                   "documento-invalido"), {})
             novas == Bloqueio(t, n, C) \union A
             novo == Candidato(t, n, l, 0)
             cands == IF Traduzivel(l) THEN {novo} ELSE {}
  <1>1. l.id /\ Ler(t, l) /\ Traduz(novas, {}, cands)
    BY DEF LerParalela
  <1>2. IsFiniteSet(C) /\ IsFiniteSet({})
    BY FaultsAreFew, FS_EmptySet
  <1>3. novo.origem = t /\ novo.linha = n
    BY DEF Candidato
  <1>4. Avisos(t, n, A)
    BY Notices DEF Avisos
  <1>5. Bloqueio(t, n, {}) = {}
    BY DEF Bloqueio
  <1> HIDE DEF n, C, A, novo
  <1>6. novas = Bloqueio(t, n, C) \cup Bloqueio(t, n, {}) \cup A
    BY <1>5
  <1>7. /\ \A c \in cands : c = novo
        /\ Traduzivel(l) => cands # {}
    OBVIOUS
  <1> HIDE DEF novas, cands
  <1>8. /\ \A i \in novas : i.origem = t /\ i.linha = n
        /\ IsFiniteSet(QueBloqueiam(novas))
        /\ C # {} => \E i \in novas : i.bloqueia
    BY <1>2, <1>4, <1>6, Together
  <1>9. l.operacao # Vazio => novas # {} \/ cands # {}
    <2>1. C = {} /\ l.operacao # Vazio => Traduzivel(l)
      BY NoFaultNoGap DEF C, Paralelas
    <2> QED
      BY <1>7, <1>8, <2>1
  <1>10. t # "consultants" /\ t # "proposals" /\ t \in Range(Tabelas)
    BY TheTables DEF Paralelas
  <1>11. Diz(t, n, l, novas, {}, cands)
    BY <1>1, <1>3, <1>7, <1>8, <1>9, <1>10 DEF Diz
  <1> QED
    BY <1>1, <1>10, <1>11, RowAnswered DEF n

\* The report closes what was read; only notices are added.
LEMMA ReportKeeps ==
    ASSUME IInv, Fechar
    PROVE  IInv'
  <1>1. /\ issues' = issues \cup Detectar /\ UNCHANGED <<lidas, colaboradores, candidatos>>
        /\ relatorio' = [totais |-> [t \in Range(Tabelas) \ {"consultants"} |-> Totalizar(t)],
                         bloqueios |-> Cardinality(Bloqueios)]
    BY DEF Fechar, Bloqueios, QueBloqueiam
  <1>2. \A i \in Detectar : ~i.bloqueia
    <2> SUFFICES ASSUME NEW i \in Detectar
                 PROVE  ~i.bloqueia
      OBVIOUS
    <2>1. PICK p \in UNION {Da(t) : t \in Paralelas} :
              i \in Atencao(p.origem, p.linha, {"estrutura-duplicada"},
                            {c.linha : c \in {x \in Da("proposals") : x.chave = p.chave}})
      BY DEF Detectar
    <2> DEFINE com == {c.linha : c \in {x \in Da("proposals") : x.chave = p.chave}}
    <2>2. i \in Atencao(p.origem, p.linha, {"estrutura-duplicada"}, com)
      BY <2>1
    <2> HIDE DEF com
    <2> QED
      BY <2>2, Notices
  <1>3. Bloqueios' = Bloqueios
    BY <1>1, <1>2 DEF Bloqueios, QueBloqueiam
  <1>4. \A t \in Paralelas : \A p \in Da(t) : TemIssue(t, p.linha)'
    <2> SUFFICES ASSUME NEW t \in Paralelas, NEW p \in Da(t)
                 PROVE  TemIssue(t, p.linha)'
      OBVIOUS
    <2> DEFINE com == {c.linha : c \in {x \in Da("proposals") : x.chave = p.chave}}
    <2>1. Atencao(p.origem, p.linha, {"estrutura-duplicada"}, com) \subseteq Detectar
      BY DEF Detectar
    <2> HIDE DEF com
    <2>2. PICK i \in Atencao(p.origem, p.linha, {"estrutura-duplicada"}, com) :
              i.origem = p.origem /\ i.linha = p.linha
      BY Notices
    <2>3. i \in issues' /\ p.origem = t
      BY <1>1, <2>1 DEF Da
    <2> QED
      BY <2>2, <2>3 DEF TemIssue
  <1>5. Totalizar("proposals").traduzidos = Cardinality(Da("proposals"))
    BY DEF Totalizar
  <1>6. /\ relatorio'.bloqueios = Cardinality(Bloqueios)
        /\ relatorio'.totais["proposals"].traduzidos = Cardinality(Da("proposals"))
    BY <1>1, <1>5, TheTables
  <1>7. \A t : Da(t)' = Da(t)
    BY <1>1 DEF Da
  <1>8. RelatorioOK'
    BY <1>3, <1>4, <1>6, <1>7 DEF RelatorioOK
  <1>9. \A t, n : /\ (TemIssue(t, n) => TemIssue(t, n)') /\ (Bloqueada(t, n) => Bloqueada(t, n)')
                  /\ Candidata(t, n)' = Candidata(t, n) /\ SemValor(t, n)' = SemValor(t, n)
    BY <1>1 DEF TemIssue, Bloqueada, Candidata, SemValor
  <1>10. \A t, nome : Linhas(t)' = Linhas(t) /\ Homonimos(nome)' = Homonimos(nome)
    BY <1>1 DEF Linhas, Homonimos
  <1>11. LidasOK' /\ CandidatosOK'
    BY <1>1, <1>10 DEF IInv, LidasOK, CandidatosOK
  <1>12. ConsultoresOK'
    BY <1>1, <1>9, <1>10 DEF IInv, ConsultoresOK
  <1>13. PropostasOK'
    BY <1>1, <1>7, <1>9, <1>10 DEF IInv, PropostasOK
  <1>14. ParalelasOK'
    BY <1>9, <1>10 DEF IInv, ParalelasOK
  <1> QED
    BY <1>3, <1>8, <1>11, <1>12, <1>13, <1>14 DEF IInv

LEMMA EmptyImport ==
    ASSUME lidas = [t \in Range(Tabelas) |-> <<>>], colaboradores = {}, candidatos = {},
           issues = {}, relatorio = SemRelatorio
    PROVE  IInv
  <1>1. \A t \in Range(Tabelas) : lidas[t] = <<>> /\ Linhas(t) = {}
    BY DEF Linhas
  <1>2. LidasOK
    <2>1. \A S : <<>> \in Seq(S)
      OBVIOUS
    <2> QED
      BY <1>1, <2>1 DEF LidasOK
  <1>3. Bloqueios = {}
    BY DEF Bloqueios, QueBloqueiam
  <1>4. CandidatosOK /\ ConsultoresOK /\ PropostasOK /\ ParalelasOK
    BY <1>1, TheTables DEF CandidatosOK, ConsultoresOK, PropostasOK, ParalelasOK, Da, Paralelas
  <1> QED
    BY <1>2, <1>3, <1>4, FS_EmptySet DEF IInv, RelatorioOK

LEMMA IInvKept ==
    ASSUME ImportAssumption, IInv, [ImportNext]_importVars
    PROVE  IInv'
  <1>1. CASE Executar
    <2>1. /\ lidas' = [t \in Range(Tabelas) |-> <<>>]
          /\ colaboradores' = {} /\ candidatos' = {} /\ issues' = {} /\ relatorio' = SemRelatorio
      BY <1>1 DEF Executar
    <2>2. (lidas = [t \in Range(Tabelas) |-> <<>>] /\ colaboradores = {} /\ candidatos = {}
               /\ issues = {} /\ relatorio = SemRelatorio => IInv)'
      BY EmptyImport, PTL
    <2> QED
      BY <2>1, <2>2
  <1>2. CASE UNCHANGED importVars
    BY <1>2 DEF importVars, IInv, LidasOK, CandidatosOK, ConsultoresOK, PropostasOK, ParalelasOK,
                RelatorioOK, Linhas, Bloqueios, Bloqueada, TemIssue, Candidata, Homonimos, SemValor, Da
  <1> QED
    BY <1>1, <1>2, NoIdKeeps, ConsultantKeeps, ProposalKeeps, ParallelKeeps, ReportKeeps, Zenon
       DEF ImportNext

\* As many candidates as rows, when each row has one.
LEMMA AsManyAsRows ==
    ASSUME NEW S, IsFiniteSet(S), NEW T, \A s \in S : \E c \in T : c.linha = s,
           \A c \in T : c.linha \in S, \A c, d \in T : c.linha = d.linha => c = d
    PROVE  IsFiniteSet(T) /\ Cardinality(T) = Cardinality(S)
  <1> DEFINE g == [s \in S |-> CHOOSE c \in T : c.linha = s]
  <1>1. \A s \in S : g[s] \in T /\ g[s].linha = s
    OBVIOUS
  <1>2. g \in [S -> T]
    BY <1>1
  <1> HIDE DEF g
  <1>3. \A c \in T : \E s \in S : g[s] = c
    BY <1>1
  <1>4. \A a, b \in S : g[a] = g[b] => a = b
    BY <1>1
  <1>5. g \in Bijection(S, T)
    BY <1>2, <1>3, <1>4 DEF Bijection, Injection, Surjection, IsInjective
  <1> QED
    BY <1>5, FS_Bijection DEF ExistsBijection

LEMMA AnswersFollow == IInv => RowsAreAnswered
  <1> SUFFICES ASSUME IInv, relatorio # SemRelatorio, NEW t \in Range(Tabelas), NEW n \in DOMAIN lidas[t]
               PROVE  \/ TemIssue(t, n)
                      \/ t = "proposals" /\ \E c \in Da(t) : c.linha = n
                      \/ SemValor(t, n)
    BY DEF RowsAreAnswered
  <1>1. n \in Linhas(t)
    BY DEF Linhas
  <1>2. CASE t = "consultants"
    BY <1>1, <1>2 DEF IInv, ConsultoresOK
  <1>3. CASE t = "proposals"
    BY <1>1, <1>3 DEF IInv, PropostasOK, Bloqueada, TemIssue, Candidata, Da
  <1>4. CASE t \in Paralelas
    <2>1. Candidata(t, n) => TemIssue(t, n)
      BY <1>4 DEF IInv, RelatorioOK, Candidata, Da
    <2> QED
      BY <1>1, <1>4, <2>1 DEF IInv, ParalelasOK
  <1> QED
    BY <1>2, <1>3, <1>4, TheTables DEF Paralelas

LEMMA FaithFollows == IInv => CleanReportIsFaithful
  <1> SUFFICES ASSUME IInv, relatorio # SemRelatorio, relatorio.bloqueios = 0
               PROVE  /\ Cardinality(colaboradores) = Len(lidas["consultants"])
                      /\ Cardinality({c.documento : c \in colaboradores}) = Cardinality(colaboradores)
                      /\ relatorio.totais["proposals"].traduzidos
                           = Cardinality({n \in DOMAIN lidas["proposals"] : ~SemValor("proposals", n)})
                      /\ \A c, d \in Da("proposals") : c # d /\ c.redmine = d.redmine
                                                           => c.redmine = Vazio
                      /\ \A c \in Da("proposals") : \A nome \in DOMAIN c.pessoas :
                           c.pessoas[nome] = {n \in DOMAIN lidas["consultants"] :
                                                  lidas["consultants"][n].nome = nome}
    BY DEF CleanReportIsFaithful
  <1>1. \A t, n : ~Bloqueada(t, n)
    <2>1. Bloqueios = {}
      BY FS_EmptySet DEF IInv, RelatorioOK
    <2> QED
      BY <2>1 DEF Bloqueios, QueBloqueiam, Bloqueada
  <1>2. \A t \in {"consultants", "proposals"} :
            Len(lidas[t]) \in Nat /\ DOMAIN lidas[t] = 1..Len(lidas[t])
    BY TheTables DEF IInv, LidasOK
  <1>3. \A t \in {"consultants", "proposals"} :
            IsFiniteSet(DOMAIN lidas[t]) /\ Cardinality(DOMAIN lidas[t]) = Len(lidas[t])
    <2> SUFFICES ASSUME NEW t \in {"consultants", "proposals"}
                 PROVE  IsFiniteSet(DOMAIN lidas[t]) /\ Cardinality(DOMAIN lidas[t]) = Len(lidas[t])
      OBVIOUS
    <2> DEFINE k == Len(lidas[t])
    <2>1. k \in Nat /\ DOMAIN lidas[t] = 1..k
      BY <1>2
    <2> HIDE DEF k
    <2>2. IsFiniteSet(1..k) /\ Cardinality(1..k) = (IF 1 > k THEN 0 ELSE k - 1 + 1)
      BY <2>1, FS_Interval
    <2>3. Cardinality(1..k) = k
      BY <2>1, <2>2
    <2> QED
      BY <2>1, <2>2, <2>3 DEF k
  <1>4. /\ \A n \in DOMAIN lidas["consultants"] : \E c \in colaboradores : c.linha = n
        /\ \A c \in colaboradores : /\ c.linha \in DOMAIN lidas["consultants"]
                                    /\ c.nome = lidas["consultants"][c.linha].nome
        /\ \A c, d \in colaboradores : c.linha = d.linha \/ c.documento = d.documento => c = d
    BY <1>1 DEF IInv, ConsultoresOK, Linhas
  <1>5. IsFiniteSet(colaboradores) /\ Cardinality(colaboradores) = Len(lidas["consultants"])
    BY <1>3, <1>4, AsManyAsRows
  <1>6. Cardinality({c.documento : c \in colaboradores}) = Cardinality(colaboradores)
    <2> DEFINE D == {c.documento : c \in colaboradores}
               g == [c \in colaboradores |-> c.documento]
    <2>1. g \in [colaboradores -> D] /\ \A d \in D : \E c \in colaboradores : g[c] = d
      OBVIOUS
    <2>2. \A a, b \in colaboradores : g[a] = g[b] => a = b
      BY <1>4
    <2> HIDE DEF D, g
    <2>3. g \in Bijection(colaboradores, D)
      BY <2>1, <2>2 DEF Bijection, Injection, Surjection, IsInjective
    <2>4. Cardinality(D) = Cardinality(colaboradores)
      BY <1>5, <2>3, FS_Bijection DEF ExistsBijection
    <2> QED
      BY <2>4 DEF D
  <1>7. relatorio.totais["proposals"].traduzidos
            = Cardinality({n \in DOMAIN lidas["proposals"] : ~SemValor("proposals", n)})
    <2> DEFINE S == {n \in DOMAIN lidas["proposals"] : ~SemValor("proposals", n)}
    <2>1. IsFiniteSet(S)
      BY <1>3, FS_Subset
    <2>2. \A n \in S : \E c \in Da("proposals") : c.linha = n
      BY <1>1 DEF IInv, PropostasOK, Linhas, Candidata, Da
    <2>3. \A c \in Da("proposals") : c.linha \in S
      BY DEF IInv, PropostasOK, CandidatosOK, Linhas, Da
    <2>4. \A c, d \in Da("proposals") : c.linha = d.linha => c = d
      BY DEF IInv, CandidatosOK, Da
    <2> HIDE DEF S
    <2>5. Cardinality(Da("proposals")) = Cardinality(S)
      BY <2>1, <2>2, <2>3, <2>4, AsManyAsRows
    <2>6. relatorio.totais["proposals"].traduzidos = Cardinality(Da("proposals"))
      BY DEF IInv, RelatorioOK
    <2> QED
      BY <2>5, <2>6 DEF S
  <1>8. \A nome : Homonimos(nome) = {n \in DOMAIN lidas["consultants"] :
                                         lidas["consultants"][n].nome = nome}
    BY <1>4 DEF Homonimos
  <1>9. PropostasOK
    BY DEF IInv
  <1> QED
    BY <1>5, <1>6, <1>7, <1>8, <1>9 DEF PropostasOK

\* For any tables of the former system, every row that was read is in the
\* report, but for the rows without an amount (legado-mapeamento.md, "Fila de
\* exceção").
THEOREM EveryRowIsAnswered == ASSUME ImportAssumption PROVE ImportSpec => []RowsAreAnswered
  <1>1. ImportInit => IInv
    BY EmptyImport DEF ImportInit
  <1>2. IInv /\ [ImportNext]_importVars => IInv'
    BY IInvKept
  <1> QED
    BY <1>1, <1>2, AnswersFollow, PTL DEF ImportSpec

\* A report without a blocking issue says of the tables what is in them: every
\* consultant, every proposal with an amount, no key twice, and people only
\* where a name is that of one (run_legacy_import.py, execute).
THEOREM CleanReportsAreFaithful ==
    ASSUME ImportAssumption PROVE ImportSpec => []CleanReportIsFaithful
  <1>1. ImportInit => IInv
    BY EmptyImport DEF ImportInit
  <1>2. IInv /\ [ImportNext]_importVars => IInv'
    BY IInvKept
  <1> QED
    BY <1>1, <1>2, FaithFollows, PTL DEF ImportSpec

-----------------------------------------------------------------------------
(***************************************************************************)
(* The catalogue.  Labels are unique because the table says so at every    *)
(* commit, whatever the commands in flight have read.                      *)
(***************************************************************************)

\* A set of numbers without a largest one is not finite: a smallest
\* counterexample has one element less than itself.
LEMMA LargestExists ==
    ASSUME NEW S \in SUBSET Nat, IsFiniteSet(S), S # {}
    PROVE  \E m \in S : \A x \in S : m >= x
  <1> DEFINE Maior(U) == \E m \in U : \A x \in U : m >= x
             Sem(n) == \E U \in SUBSET S : U # {} /\ Cardinality(U) = n /\ ~Maior(U)
             T == {n \in Nat : Sem(n)}
  <1> SUFFICES ASSUME ~Maior(S)
               PROVE  FALSE
    OBVIOUS
  <1>1. \A U \in SUBSET S : IsFiniteSet(U) /\ Cardinality(U) \in Nat
    BY FS_Subset, FS_CardinalityType
  <1>2. Cardinality(S) \in T
    BY <1>1
  <1>3. PICK n \in T : \A k \in T : ~(<<k, n>> \in OpToRel(<, Nat))
    BY <1>2, NatLessThanWellFounded, WFMin
  <1>4. \A k \in T : ~(k < n)
    BY <1>3 DEF OpToRel
  <1>5. PICK U \in SUBSET S : U # {} /\ Cardinality(U) = n /\ ~Maior(U)
    BY <1>3
  <1>6. PICK x \in U : TRUE
    BY <1>5
  <1>7. U \ {x} \in SUBSET S /\ Cardinality(U \ {x}) = n - 1 /\ n - 1 \in Nat /\ n - 1 < n
    <2>1. IsFiniteSet(U) /\ Cardinality(U) \in Nat /\ n \in Nat
      BY <1>1, <1>5
    <2>2. Cardinality(U \ {x}) = n - 1
      BY <1>5, <1>6, <2>1, FS_RemoveElement
    <2>3. IsFiniteSet(U \ {x}) /\ Cardinality(U \ {x}) \in Nat
      BY <1>1
    <2> QED
      BY <1>6, <2>1, <2>2, <2>3
  <1>8. CASE U \ {x} = {}
    BY <1>5, <1>6, <1>8
  <1>9. CASE U \ {x} # {}
    <2>1. Maior(U \ {x})
      BY <1>4, <1>7, <1>9
    <2>2. PICK m \in U \ {x} : \A y \in U \ {x} : m >= y
      BY <2>1
    <2>3. m \in Nat /\ x \in Nat /\ \A y \in U : y \in Nat
      BY <1>6, <2>2
    <2>4. CASE m >= x
      BY <1>5, <2>2, <2>3, <2>4
    <2>5. CASE ~(m >= x)
      <3>1. \A y \in U : x >= y
        BY <2>2, <2>3, <2>5
      <3> QED
        BY <1>5, <1>6, <3>1
    <2> QED
      BY <2>4, <2>5
  <1> QED
    BY <1>8, <1>9

LEMMA MaxOfNumbers ==
    ASSUME NEW S \in SUBSET Nat, IsFiniteSet(S), S # {}
    PROVE  Max(S) \in S
  BY LargestExists DEF Max

\* What a command may leave in a row.
Coluna == [documento |-> Chaves \union {SemDocumento}, ativa |-> BOOLEAN, empresa |-> Nat,
           codigo |-> Chaves, rotulo |-> Chaves, ordem |-> Nat]

EscritaOK(w, Registro) ==
    IF w.id = 0 THEN w.campos \in Registro
    ELSE \A k \in DOMAIN w.campos : k \in DOMAIN Coluna /\ w.campos[k] \in Coluna[k]

ComandosOK ==
    /\ DOMAIN comandos = Comandos
    /\ \A p \in Comandos :
           /\ comandos[p].tabela = "empresas" => EscritaOK(comandos[p], Empresa)
           /\ comandos[p].tabela = "unidades" => EscritaOK(comandos[p], Unidade)
           /\ comandos[p].tabela = "contas" => EscritaOK(comandos[p], ContaDeRecebimento)

CInv == CatalogTypeOK /\ ChaveUnica(contas, {"rotulo"}) /\ ComandosOK

LEMMA ColumnsOfRows ==
    /\ \A r \in Empresa : DOMAIN r = {"documento", "ativa"}
    /\ \A r \in Unidade : DOMAIN r = {"empresa", "codigo", "ativa"}
    /\ \A r \in ContaDeRecebimento : DOMAIN r = {"rotulo", "ordem", "ativa"}
  BY DEF Empresa, Unidade, ContaDeRecebimento

LEMMA WriteKeepsTypes ==
    ASSUME NEW Registro \in {Empresa, Unidade, ContaDeRecebimento},
           NEW tabela \in Seq(Registro), NEW w, EscritaOK(w, Registro)
    PROVE  Gravada(tabela, w) \in Seq(Registro)
  <1>1. CASE w.id = 0
    BY <1>1 DEF EscritaOK, Gravada
  <1>2. CASE w.id # 0
    <2> DEFINE Nova(r) == [k \in DOMAIN r |-> IF k \in DOMAIN w.campos THEN w.campos[k] ELSE r[k]]
    <2>1. \A k \in DOMAIN w.campos : k \in DOMAIN Coluna /\ w.campos[k] \in Coluna[k]
      BY <1>2 DEF EscritaOK
    <2>2. \A r \in Registro : Nova(r) \in Registro
      <3>1. CASE Registro = Empresa
        BY <2>1, <3>1, ColumnsOfRows DEF Coluna, Empresa
      <3>2. CASE Registro = Unidade
        BY <2>1, <3>2, ColumnsOfRows DEF Coluna, Unidade
      <3>3. CASE Registro = ContaDeRecebimento
        BY <2>1, <3>3, ColumnsOfRows DEF Coluna, ContaDeRecebimento
      <3> QED
        BY <3>1, <3>2, <3>3
    <2>3. Gravada(tabela, w) = [tabela EXCEPT ![w.id] = Nova(tabela[w.id])]
      BY <1>2 DEF Gravada
    <2> HIDE DEF Nova
    <2>4. \A j \in 1..Len(tabela) : tabela[j] \in Registro
      OBVIOUS
    <2>5. \A j \in 1..Len(tabela) :
              [tabela EXCEPT ![w.id] = Nova(tabela[w.id])][j] \in Registro
      BY <2>2, <2>4
    <2>6. [tabela EXCEPT ![w.id] = Nova(tabela[w.id])] \in [1..Len(tabela) -> Registro]
      <3>1. DOMAIN tabela = 1..Len(tabela)
        OBVIOUS
      <3> DEFINE nova == [tabela EXCEPT ![w.id] = Nova(tabela[w.id])]
      <3>2. nova = [j \in 1..Len(tabela) |-> nova[j]]
        BY <3>1
      <3>3. \A j \in 1..Len(tabela) : nova[j] \in Registro
        BY <2>5
      <3> HIDE DEF nova
      <3>4. nova \in [1..Len(tabela) -> Registro]
        BY <3>2, <3>3
      <3> QED
        BY <3>4 DEF nova
    <2> QED
      BY <2>3, <2>6
  <1> QED
    BY <1>1, <1>2

LEMMA LabelsOrder ==
    ASSUME CatalogAssumption, CInv
    PROVE  ListOrderIsTotal
  <1> SUFFICES ASSUME NEW a \in DOMAIN contas, NEW b \in DOMAIN contas, a # b
               PROVE  Precede(a, b) \/ Precede(b, a)
    BY DEF ListOrderIsTotal
  <1> DEFINE x == Posicao(a)
             y == Posicao(b)
             Primeira(u, v, k) == u[k] # v[k] /\ \A j \in 1..k - 1 : u[j] = v[j]
  <1>1. contas[a] \in ContaDeRecebimento /\ contas[b] \in ContaDeRecebimento
    BY DEF CInv, CatalogTypeOK
  <1>2. /\ contas[a].ordem \in Nat /\ contas[b].ordem \in Nat
        /\ contas[a].rotulo \in Nat \ {0} /\ contas[b].rotulo \in Nat \ {0}
    BY <1>1 DEF ContaDeRecebimento, CatalogAssumption
  <1>3. contas[a].rotulo # contas[b].rotulo
    BY <1>2 DEF CInv, ChaveUnica, SemDocumento
  <1>4. /\ x[1] \in Nat /\ y[1] \in Nat /\ x[2] \in Nat /\ y[2] \in Nat /\ x[2] # y[2]
        /\ DOMAIN x = {1, 2} /\ DOMAIN y = {1, 2}
    BY <1>2, <1>3 DEF Posicao
  <1>5. /\ Precede(a, b) <=> x # y /\ x[CHOOSE k \in DOMAIN x : Primeira(x, y, k)]
                                        < y[CHOOSE k \in DOMAIN x : Primeira(x, y, k)]
        /\ Precede(b, a) <=> y # x /\ y[CHOOSE k \in DOMAIN y : Primeira(y, x, k)]
                                        < x[CHOOSE k \in DOMAIN y : Primeira(y, x, k)]
    BY DEF Precede
  <1> HIDE DEF x, y
  <1>6. \A u, v : u[2] # v[2] => \E k \in {1, 2} : Primeira(u, v, k)
    <2>1. \A u, v : u[1] # v[1] => Primeira(u, v, 1)
      OBVIOUS
    <2>2. \A u, v : u[2] # v[2] /\ u[1] = v[1] => Primeira(u, v, 2)
      OBVIOUS
    <2> QED
      BY <2>1, <2>2
  <1>7. \A u, v, k : k \in {1, 2} => (Primeira(u, v, k) <=> Primeira(v, u, k))
    OBVIOUS
  <1> HIDE DEF Primeira
  <1>8. (CHOOSE k \in {1, 2} : Primeira(x, y, k)) = (CHOOSE k \in {1, 2} : Primeira(y, x, k))
    BY <1>7
  <1>9. (CHOOSE k \in {1, 2} : Primeira(x, y, k)) \in {1, 2}
        /\ Primeira(x, y, CHOOSE k \in {1, 2} : Primeira(x, y, k))
    BY <1>4, <1>6
  <1> DEFINE m == CHOOSE k \in {1, 2} : Primeira(x, y, k)
  <1>10. m \in {1, 2} /\ x[m] # y[m]
    BY <1>9 DEF Primeira
  <1>11. /\ Precede(a, b) <=> x # y /\ x[m] < y[m]
         /\ Precede(b, a) <=> y # x /\ y[m] < x[m]
    <2>1. (CHOOSE k \in DOMAIN x : Primeira(x, y, k)) = m
      BY <1>4
    <2>2. (CHOOSE k \in DOMAIN y : Primeira(y, x, k)) = m
      BY <1>4, <1>8
    <2> HIDE DEF m
    <2> QED
      BY <1>5, <2>1, <2>2
  <1> HIDE DEF m
  <1> QED
    BY <1>4, <1>10, <1>11

LEMMA EndOfTheList ==
    ASSUME CInv
    PROVE  ProximaOrdem \in Nat
  <1> DEFINE S == {contas[a].ordem : a \in DOMAIN contas} \union {0}
  <1>1. contas \in Seq(ContaDeRecebimento)
    BY DEF CInv, CatalogTypeOK
  <1>2. DOMAIN contas = 1..Len(contas) /\ Len(contas) \in Nat
    BY <1>1
  <1>3. \A a \in DOMAIN contas : contas[a].ordem \in Nat
    <2>1. \A a \in DOMAIN contas : contas[a] \in ContaDeRecebimento
      BY <1>1, <1>2
    <2> QED
      BY <2>1 DEF ContaDeRecebimento
  <1>4. IsFiniteSet(DOMAIN contas)
    BY <1>2, FS_Interval
  <1>5. IsFiniteSet({contas[a].ordem : a \in DOMAIN contas})
    <2> DEFINE g == [a \in DOMAIN contas |-> contas[a].ordem]
    <2>1. g \in Surjection(DOMAIN contas, {contas[a].ordem : a \in DOMAIN contas})
      BY DEF Surjection
    <2> QED
      BY <1>4, <2>1, FS_Surjection DEF ExistsSurjection
  <1>6. IsFiniteSet(S)
    BY <1>5, FS_AddElement
  <1>7. S \in SUBSET Nat /\ S # {}
    BY <1>3
  <1> HIDE DEF S
  <1>8. Max(S) \in Nat
    BY <1>6, <1>7, MaxOfNumbers
  <1> QED
    BY <1>8 DEF ProximaOrdem, S

\* A command that writes nothing wrong leaves the rest as it is.
LEMMA AskKeeps ==
    ASSUME CInv, NEW p \in Comandos, NEW tabela, NEW id, NEW campos,
           Escrever(p, tabela, id, campos),
           tabela = "empresas" => EscritaOK([tabela |-> tabela, id |-> id, campos |-> campos], Empresa),
           tabela = "unidades" => EscritaOK([tabela |-> tabela, id |-> id, campos |-> campos], Unidade),
           tabela = "contas" => EscritaOK([tabela |-> tabela, id |-> id, campos |-> campos],
                                          ContaDeRecebimento)
    PROVE  CInv'
  <1> DEFINE w == [tabela |-> tabela, id |-> id, campos |-> campos]
  <1>1. /\ comandos' = [comandos EXCEPT ![p] = w] /\ w.tabela = tabela
        /\ UNCHANGED <<empresas, unidades, contas>>
    BY DEF Escrever
  <1> HIDE DEF w
  <1>2. ComandosOK'
    BY <1>1 DEF CInv, ComandosOK, EscritaOK, Coluna, Empresa, Unidade, ContaDeRecebimento, w
  <1> QED
    BY <1>1, <1>2 DEF CInv, CatalogTypeOK, ChaveUnica

LEMMA SaveKeeps ==
    ASSUME CInv, NEW p \in Comandos, Salvar(p)
    PROVE  CInv'
  <1> DEFINE w == comandos[p]
  <1>1. /\ comandos' = [comandos EXCEPT ![p] = Ocioso]
        /\ \/ /\ w.tabela = "empresas" /\ empresas' = Gravada(empresas, w)
              /\ UNCHANGED <<unidades, contas>>
           \/ /\ w.tabela = "unidades" /\ unidades' = Gravada(unidades, w)
              /\ UNCHANGED <<empresas, contas>>
           \/ /\ w.tabela = "contas" /\ contas' = Gravada(contas, w)
              /\ ChaveUnica(contas', {"rotulo"}) /\ UNCHANGED <<empresas, unidades>>
    BY DEF Salvar
  <1>2. /\ w.tabela = "empresas" => EscritaOK(w, Empresa)
        /\ w.tabela = "unidades" => EscritaOK(w, Unidade)
        /\ w.tabela = "contas" => EscritaOK(w, ContaDeRecebimento)
    BY DEF CInv, ComandosOK
  <1>3. ComandosOK'
    BY <1>1 DEF CInv, ComandosOK, EscritaOK, Coluna, Empresa, Unidade, ContaDeRecebimento, Ocioso
  <1> HIDE DEF w
  <1>4. CASE w.tabela = "empresas" /\ empresas' = Gravada(empresas, w) /\ UNCHANGED <<unidades, contas>>
    <2>1. empresas' \in Seq(Empresa)
      BY <1>2, <1>4, WriteKeepsTypes DEF CInv, CatalogTypeOK
    <2> QED
      BY <1>3, <1>4, <2>1 DEF CInv, CatalogTypeOK, ChaveUnica, Empresa, Unidade, ContaDeRecebimento
  <1>5. CASE w.tabela = "unidades" /\ unidades' = Gravada(unidades, w) /\ UNCHANGED <<empresas, contas>>
    <2>1. unidades' \in Seq(Unidade)
      BY <1>2, <1>5, WriteKeepsTypes DEF CInv, CatalogTypeOK
    <2> QED
      BY <1>3, <1>5, <2>1 DEF CInv, CatalogTypeOK, ChaveUnica, Empresa, Unidade, ContaDeRecebimento
  <1>6. CASE /\ w.tabela = "contas" /\ contas' = Gravada(contas, w)
             /\ ChaveUnica(contas', {"rotulo"}) /\ UNCHANGED <<empresas, unidades>>
    <2>1. contas' \in Seq(ContaDeRecebimento)
      BY <1>2, <1>6, WriteKeepsTypes DEF CInv, CatalogTypeOK
    <2> QED
      BY <1>3, <1>6, <2>1 DEF CInv, CatalogTypeOK, ChaveUnica, Empresa, Unidade, ContaDeRecebimento
  <1> QED
    BY <1>1, <1>4, <1>5, <1>6

LEMMA LoseKeeps ==
    ASSUME CInv, NEW p \in Comandos, Perder(p)
    PROVE  CInv'
  <1>1. comandos' = [comandos EXCEPT ![p] = Ocioso] /\ UNCHANGED <<empresas, unidades, contas>>
    BY DEF Perder
  <1>2. ComandosOK'
    BY <1>1 DEF CInv, ComandosOK, EscritaOK, Coluna, Empresa, Unidade, ContaDeRecebimento, Ocioso
  <1> QED
    BY <1>1, <1>2 DEF CInv, CatalogTypeOK, ChaveUnica, Empresa, Unidade, ContaDeRecebimento

LEMMA RequestKeeps ==
    ASSUME CatalogAssumption, CInv, NEW p \in Comandos, Pedir(p)
    PROVE  CInv'
  <1>1. /\ \A e \in DOMAIN empresas : e \in Nat /\ e # 0
        /\ \A u \in DOMAIN unidades : u \in Nat /\ u # 0
        /\ \A a \in DOMAIN contas : a \in Nat /\ a # 0
    <2>1. empresas \in Seq(Empresa) /\ unidades \in Seq(Unidade) /\ contas \in Seq(ContaDeRecebimento)
      BY DEF CInv, CatalogTypeOK
    <2> QED
      BY <2>1
  <1>2. \A o \in Ordens : Max({o}) = o /\ o \in Nat
    <2> SUFFICES ASSUME NEW o \in Ordens
                 PROVE  Max({o}) = o /\ o \in Nat
      OBVIOUS
    <2>1. o \in Nat /\ o >= o
      BY DEF CatalogAssumption
    <2>2. \A x \in {o} : (\A y \in {o} : x >= y) <=> TRUE
      BY <2>1
    <2> QED
      BY <2>1, <2>2 DEF Max
  <1>3. CASE \E documento \in Chaves \union {SemDocumento} : CreateCompany(p, documento)
    <2>1. PICK d \in Chaves \union {SemDocumento} :
              Escrever(p, "empresas", 0, [documento |-> d, ativa |-> TRUE])
      BY <1>3 DEF CreateCompany
    <2>2. [documento |-> d, ativa |-> TRUE] \in Empresa
      BY DEF Empresa
    <2> HIDE DEF SemDocumento
    <2> QED
      BY <2>1, <2>2, AskKeeps DEF EscritaOK
  <1>4. CASE \E e \in DOMAIN empresas : \E ativa \in BOOLEAN : SetCompanyStatus(p, e, ativa)
    <2>1. PICK e \in DOMAIN empresas : \E ativa \in BOOLEAN :
              Escrever(p, "empresas", e, [ativa |-> ativa])
      BY <1>4 DEF SetCompanyStatus
    <2>2. PICK ativa \in BOOLEAN : Escrever(p, "empresas", e, [ativa |-> ativa])
      BY <2>1
    <2>3. EscritaOK([tabela |-> "empresas", id |-> e, campos |-> [ativa |-> ativa]], Empresa)
      BY <1>1 DEF EscritaOK, Coluna
    <2> QED
      BY <2>2, <2>3, AskKeeps
  <1>5. CASE \E e \in DOMAIN empresas : \E codigo \in Chaves : CreateUnit(p, e, codigo)
    <2>1. PICK e \in DOMAIN empresas : \E codigo \in Chaves :
              Escrever(p, "unidades", 0, [empresa |-> e, codigo |-> codigo, ativa |-> TRUE])
      BY <1>5 DEF CreateUnit
    <2>2. PICK codigo \in Chaves :
              Escrever(p, "unidades", 0, [empresa |-> e, codigo |-> codigo, ativa |-> TRUE])
      BY <2>1
    <2>3. [empresa |-> e, codigo |-> codigo, ativa |-> TRUE] \in Unidade
      BY <1>1 DEF Unidade
    <2> QED
      BY <2>2, <2>3, AskKeeps DEF EscritaOK
  <1>6. CASE \E u \in DOMAIN unidades : \E ativa \in BOOLEAN : SetUnitStatus(p, u, ativa)
    <2>1. PICK u \in DOMAIN unidades : \E ativa \in BOOLEAN :
              Escrever(p, "unidades", u, [ativa |-> ativa])
      BY <1>6 DEF SetUnitStatus
    <2>2. PICK ativa \in BOOLEAN : Escrever(p, "unidades", u, [ativa |-> ativa])
      BY <2>1
    <2>3. EscritaOK([tabela |-> "unidades", id |-> u, campos |-> [ativa |-> ativa]], Unidade)
      BY <1>1 DEF EscritaOK, Coluna
    <2> QED
      BY <2>2, <2>3, AskKeeps
  <1>7. CASE \E u \in DOMAIN unidades : \E codigo \in Chaves : UpdateUnit(p, u, codigo)
    <2>1. PICK u \in DOMAIN unidades : \E codigo \in Chaves :
              Escrever(p, "unidades", u, [codigo |-> codigo])
      BY <1>7 DEF UpdateUnit
    <2>2. PICK codigo \in Chaves : Escrever(p, "unidades", u, [codigo |-> codigo])
      BY <2>1
    <2>3. EscritaOK([tabela |-> "unidades", id |-> u, campos |-> [codigo |-> codigo]], Unidade)
      BY <1>1 DEF EscritaOK, Coluna
    <2> QED
      BY <2>2, <2>3, AskKeeps
  <1>8. CASE \E rotulo \in Chaves, ordem \in {{}} \union {{o} : o \in Ordens} :
                 CreateAccount(p, rotulo, ordem)
    <2>1. PICK rotulo \in Chaves, ordem \in {{}} \union {{o} : o \in Ordens} :
              CreateAccount(p, rotulo, ordem)
      BY <1>8
    <2>2. PICK lugar : /\ lugar = IF ordem = {} THEN ProximaOrdem ELSE Max(ordem)
                       /\ Escrever(p, "contas", 0, [rotulo |-> rotulo, ordem |-> lugar, ativa |-> TRUE])
      BY <2>1 DEF CreateAccount
    <2>3. lugar \in Nat
      BY <1>2, <2>2, EndOfTheList
    <2>4. [rotulo |-> rotulo, ordem |-> lugar, ativa |-> TRUE] \in ContaDeRecebimento
      BY <2>3 DEF ContaDeRecebimento
    <2> QED
      BY <2>2, <2>4, AskKeeps DEF EscritaOK
  <1>9. CASE \E rotulo \in Chaves, ordem \in {{}} \union {{o} : o \in Ordens} :
                 \E a \in DOMAIN contas : UpdateAccount(p, a, rotulo, ordem)
    <2>1. PICK rotulo \in Chaves, ordem \in {{}} \union {{o} : o \in Ordens} :
              \E a \in DOMAIN contas : UpdateAccount(p, a, rotulo, ordem)
      BY <1>9
    <2>2. PICK a \in DOMAIN contas : UpdateAccount(p, a, rotulo, ordem)
      BY <2>1
    <2>3. CASE Escrever(p, "contas", a, [rotulo |-> rotulo])
      <3>1. EscritaOK([tabela |-> "contas", id |-> a, campos |-> [rotulo |-> rotulo]],
                      ContaDeRecebimento)
        BY <1>1 DEF EscritaOK, Coluna
      <3> QED
        BY <2>3, <3>1, AskKeeps
    <2>4. CASE ordem # {} /\ Escrever(p, "contas", a, [rotulo |-> rotulo, ordem |-> Max(ordem)])
      <3>1. PICK lugar \in Nat : lugar = Max(ordem)
        BY <1>2, <2>4
      <3>2. EscritaOK([tabela |-> "contas", id |-> a, campos |-> [rotulo |-> rotulo, ordem |-> lugar]],
                      ContaDeRecebimento)
        BY <1>1 DEF EscritaOK, Coluna
      <3> QED
        BY <2>4, <3>1, <3>2, AskKeeps
    <2> QED
      BY <2>2, <2>3, <2>4 DEF UpdateAccount
  <1>10. CASE \E a \in DOMAIN contas, ativa \in BOOLEAN : SetAccountStatus(p, a, ativa)
    <2>1. PICK a \in DOMAIN contas, ativa \in BOOLEAN : Escrever(p, "contas", a, [ativa |-> ativa])
      BY <1>10 DEF SetAccountStatus
    <2>2. EscritaOK([tabela |-> "contas", id |-> a, campos |-> [ativa |-> ativa]], ContaDeRecebimento)
      BY <1>1 DEF EscritaOK, Coluna
    <2> QED
      BY <2>1, <2>2, AskKeeps
  <1> QED
    BY <1>3, <1>4, <1>5, <1>6, <1>7, <1>8, <1>9, <1>10 DEF Pedir

LEMMA CInvKept ==
    ASSUME CatalogAssumption, CInv, [CatalogNext]_catalogVars
    PROVE  CInv'
  <1>1. CASE UNCHANGED catalogVars
    BY <1>1 DEF catalogVars, CInv, CatalogTypeOK, ChaveUnica, ComandosOK, EscritaOK, Coluna,
                Empresa, Unidade, ContaDeRecebimento
  <1> QED
    BY <1>1, RequestKeeps, SaveKeeps, LoseKeeps DEF CatalogNext

\* Accounts of one place come by label, and no two have one label: the list a
\* receipt chooses from has one order, for any number of commands that read the
\* same list before either commits and for any places asked for.
THEOREM AccountsHaveOneOrder ==
    ASSUME CatalogAssumption
    PROVE  CatalogSpec => []ListOrderIsTotal
  <1>1. CatalogInit => CInv
    BY DEF CatalogInit, CInv, CatalogTypeOK, ChaveUnica, ComandosOK, Ocioso
  <1>2. CInv /\ [CatalogNext]_catalogVars => CInv'
    BY CInvKept
  <1>3. CInv => ListOrderIsTotal
    BY LabelsOrder
  <1> QED
    BY <1>1, <1>2, <1>3, PTL DEF CatalogSpec
=============================================================================
