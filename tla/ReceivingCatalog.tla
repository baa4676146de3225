--------------------------- MODULE ReceivingCatalog ---------------------------
(***************************************************************************)
(* The catalogue of companies, their units and the accounts that receive   *)
(* the money of the clients.                                               *)
(*                                                                         *)
(* Nothing is ever deleted: a row is created, renamed, deactivated and     *)
(* activated again.  A command reads, decides and commits; between the two *)
(* another one may commit, and then only the unique keys of the tables     *)
(* speak.  Names are left out where no key or order depends on them.       *)
(***************************************************************************)
EXTENDS Integers, Sequences, FiniteSetsExt

CONSTANTS
    Chaves,         \* labels, codes and documents, which compare like numbers
    Ordens,         \* places asked for in the list of accounts
    Comandos,       \* commands in flight
    MaxCadastros    \* bound: no row is added to so many

ASSUME CatalogAssumption ==
    /\ Chaves \subseteq Nat \ {0} /\ Ordens \subseteq Nat \ {0}
    /\ MaxCadastros \in Nat

VARIABLES
    empresas, unidades, contas,   \* the tables, by id
    comandos                      \* what each command is about to write

catalogVars == <<empresas, unidades, contas, comandos>>

\* A company without a document.
SemDocumento == 0

\* The rows.
Empresa == [documento : Chaves \union {SemDocumento}, ativa : BOOLEAN]
Unidade == [empresa : Nat, codigo : Chaves, ativa : BOOLEAN]
ContaDeRecebimento == [rotulo : Chaves, ordem : Nat, ativa : BOOLEAN]

Ocioso == [tabela |-> "nenhuma"]

CabeMais == Len(empresas) + Len(unidades) + Len(contas) < MaxCadastros

\* id 0: a new row.
Escrever(p, tabela, id, campos) ==
    /\ comandos[p] = Ocioso
    /\ comandos' = [comandos EXCEPT ![p] = [tabela |-> tabela, id |-> id, campos |-> campos]]
    /\ UNCHANGED <<empresas, unidades, contas>>

-----------------------------------------------------------------------------
\* The commands, up to their flush.

CreateCompany(p, documento) ==
    /\ CabeMais
    /\ documento # SemDocumento => \A e \in DOMAIN empresas : empresas[e].documento # documento
    /\ Escrever(p, "empresas", 0, [documento |-> documento, ativa |-> TRUE])

SetCompanyStatus(p, e, ativa) == Escrever(p, "empresas", e, [ativa |-> ativa])

\* Whether the company is active is not asked.
CreateUnit(p, e, codigo) ==
    /\ CabeMais
    /\ Escrever(p, "unidades", 0, [empresa |-> e, codigo |-> codigo, ativa |-> TRUE])

\* The code is not compared with the others.
UpdateUnit(p, u, codigo) == Escrever(p, "unidades", u, [codigo |-> codigo])

SetUnitStatus(p, u, ativa) == Escrever(p, "unidades", u, [ativa |-> ativa])

RotuloLivre(rotulo, exceto) ==
    \A a \in DOMAIN contas \ exceto : contas[a].rotulo # rotulo

ProximaOrdem == Max({contas[a].ordem : a \in DOMAIN contas} \union {0}) + 1

\* No place asked for: the end of the list.
CreateAccount(p, rotulo, ordem) ==
    /\ CabeMais
    /\ RotuloLivre(rotulo, {})
    /\ Escrever(p, "contas", 0,
           [rotulo |-> rotulo, ordem |-> IF ordem = {} THEN ProximaOrdem ELSE Max(ordem),
            ativa |-> TRUE])

UpdateAccount(p, a, rotulo, ordem) ==
    /\ RotuloLivre(rotulo, {a})
    /\ \/ ordem = {} /\ Escrever(p, "contas", a, [rotulo |-> rotulo])
       \/ ordem # {} /\ Escrever(p, "contas", a, [rotulo |-> rotulo, ordem |-> Max(ordem)])

SetAccountStatus(p, a, ativa) == Escrever(p, "contas", a, [ativa |-> ativa])

-----------------------------------------------------------------------------
\* The commit writes the fields that the command set, in the row as it is now.
Gravada(tabela, w) ==
    IF w.id = 0 THEN Append(tabela, w.campos)
    ELSE [tabela EXCEPT ![w.id] = [k \in DOMAIN @ |-> IF k \in DOMAIN w.campos THEN w.campos[k]
                                                                              ELSE @[k]]]

\* A unique key over some columns; a company without a document is not compared.
ChaveUnica(tabela, colunas) ==
    \A i, j \in DOMAIN tabela :
        (\A k \in colunas : tabela[i][k] = tabela[j][k] /\ tabela[i][k] # SemDocumento) => i = j

Salvar(p) ==
    LET w == comandos[p]
    IN  /\ comandos' = [comandos EXCEPT ![p] = Ocioso]
        /\ \/ /\ w.tabela = "empresas" /\ empresas' = Gravada(empresas, w)
              /\ ChaveUnica(empresas', {"documento"})
              /\ UNCHANGED <<unidades, contas>>
           \/ /\ w.tabela = "unidades" /\ unidades' = Gravada(unidades, w)
              /\ ChaveUnica(unidades', {"empresa", "codigo"})
              /\ UNCHANGED <<empresas, contas>>
           \/ /\ w.tabela = "contas" /\ contas' = Gravada(contas, w)
              /\ ChaveUnica(contas', {"rotulo"})
              /\ UNCHANGED <<empresas, unidades>>

\* A unique key refuses the write, or the process ends.
Perder(p) ==
    /\ comandos[p] # Ocioso
    /\ comandos' = [comandos EXCEPT ![p] = Ocioso]
    /\ UNCHANGED <<empresas, unidades, contas>>

-----------------------------------------------------------------------------
\* The list a receipt chooses its account from.

\* Mutant: accounts in the same place come as they like.
PosicaoSemRotulo(a) == <<contas[a].ordem>>

Posicao(a) == <<contas[a].ordem, contas[a].rotulo>>

\* ORDER BY display_order, label
Precede(a, b) ==
    LET x == Posicao(a)
        y == Posicao(b)
        k == CHOOSE k \in DOMAIN x : x[k] # y[k] /\ \A j \in 1..k - 1 : x[j] = y[j]
    IN  x # y /\ x[k] < y[k]

-----------------------------------------------------------------------------
CatalogInit ==
    /\ empresas = <<>> /\ unidades = <<>> /\ contas = <<>>
    /\ comandos = [p \in Comandos |-> Ocioso]

Pedir(p) ==
    \/ \E documento \in Chaves \union {SemDocumento} : CreateCompany(p, documento)
    \/ \E e \in DOMAIN empresas :
           \/ \E ativa \in BOOLEAN : SetCompanyStatus(p, e, ativa)
           \/ \E codigo \in Chaves : CreateUnit(p, e, codigo)
    \/ \E u \in DOMAIN unidades :
           \/ \E ativa \in BOOLEAN : SetUnitStatus(p, u, ativa)
           \/ \E codigo \in Chaves : UpdateUnit(p, u, codigo)
    \/ \E rotulo \in Chaves, ordem \in {{}} \union {{o} : o \in Ordens} :
           \/ CreateAccount(p, rotulo, ordem)
           \/ \E a \in DOMAIN contas : UpdateAccount(p, a, rotulo, ordem)
    \/ \E a \in DOMAIN contas, ativa \in BOOLEAN : SetAccountStatus(p, a, ativa)

CatalogNext == \E p \in Comandos : Pedir(p) \/ Salvar(p) \/ Perder(p)

CatalogSpec == CatalogInit /\ [][CatalogNext]_catalogVars

-----------------------------------------------------------------------------
CatalogTypeOK ==
    /\ empresas \in Seq(Empresa)
    /\ unidades \in Seq(Unidade)
    /\ contas \in Seq(ContaDeRecebimento)

\* The list of accounts has one order only ("sem isso, contas com a mesma ordem
\* trocariam de lugar entre uma consulta e outra"), whatever places were asked
\* for and although two creations may take the same end of the list and two
\* renamings the same free label.
ListOrderIsTotal ==
    \A a, b \in DOMAIN contas : a # b => Precede(a, b) \/ Precede(b, a)
=============================================================================
