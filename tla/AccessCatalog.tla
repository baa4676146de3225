--------------------------- MODULE AccessCatalog ---------------------------
(***************************************************************************)
(* The tables of permissions and roles, kept equal to the catalogue of the *)
(* release that is deployed.  A synchronisation is one transaction.  With  *)
(* a purge it also reads which obsolete roles are in use and deletes the   *)
(* others later, while accounts are given roles; the foreign key of        *)
(* user_roles has the last word, and a refusal undoes all of it.           *)
(***************************************************************************)
EXTENDS FiniteSets

CONSTANTS
    Catalogos,      \* releases: role -> set of permissions
    Contas

VARIABLES
    catalogo,       \* the release deployed
    permissoes,     \* rows of permissions
    papeis,         \* rows of roles
    concessoes,     \* rows of role_permissions: <<role, permission>>
    papeisDe,       \* rows of user_roles: account -> roles
    purga           \* obsolete roles a purge found unused

catalogoVars == <<catalogo, permissoes, papeis, concessoes, papeisDe, purga>>

Codigos == DOMAIN catalogo

PermissoesDoCatalogo == UNION {catalogo[r] : r \in Codigos}

Desejadas == UNION {{r} \X catalogo[r] : r \in Codigos}

Obsoletos == papeis \ Codigos

\* Mutant: everything that is not declared is left over.
SobrandoDeTodos == concessoes \ Desejadas

\* Grants to revoke: an obsolete role keeps its own.
Sobrando == {par \in concessoes \ Desejadas : par[1] \in Codigos}

\* verificar: what the readiness check reports.
Divergencia ==
    [permissoes |-> PermissoesDoCatalogo \ permissoes,
     papeis     |-> Codigos \ papeis,
     faltando   |-> {par \in Desejadas \ concessoes : par[1] \in papeis /\ par[2] \in permissoes},
     aMais      |-> {par \in concessoes \ Desejadas : par[1] \in Codigos}]

Sincronizado == \A campo \in DOMAIN Divergencia : Divergencia[campo] = {}

Deploy(c) ==
    /\ purga = {} /\ catalogo' = c /\ c # catalogo
    /\ UNCHANGED <<permissoes, papeis, concessoes, papeisDe, purga>>

\* The tables after a synchronisation that removes these roles.
Aplicar(removidos) ==
    /\ permissoes' = permissoes \cup PermissoesDoCatalogo
    /\ papeis' = (papeis \cup Codigos) \ removidos
    /\ concessoes' = {par \in (concessoes \cup Desejadas) \ Sobrando : par[1] \notin removidos}

Sincronizar == purga = {} /\ Aplicar({}) /\ UNCHANGED <<catalogo, papeisDe, purga>>

\* substituir_papeis: the roles must exist.
SubstituirPapeis(u, rs) ==
    /\ rs # {} /\ rs \subseteq papeis
    /\ papeisDe' = [papeisDe EXCEPT ![u] = rs]
    /\ UNCHANGED <<catalogo, permissoes, papeis, concessoes, purga>>

EmUso == UNION {papeisDe[u] : u \in Contas}

LerEmUso ==
    /\ purga = {} /\ purga' = Obsoletos \ EmUso /\ purga' # {}
    /\ UNCHANGED <<catalogo, permissoes, papeis, concessoes, papeisDe>>

\* Mutant: the key lets a role in use go.
SemRestricao == TRUE

\* ON DELETE RESTRICT.
Restricao == purga \cap EmUso = {}

PurgarObsoletos ==
    /\ purga # {} /\ purga' = {}
    /\ IF Restricao THEN Aplicar(purga) ELSE UNCHANGED <<permissoes, papeis, concessoes>>
    /\ UNCHANGED <<catalogo, papeisDe>>

CatalogoInit ==
    /\ catalogo = <<>>                       \* nothing deployed yet
    /\ permissoes = {} /\ papeis = {} /\ concessoes = {} /\ purga = {}
    /\ papeisDe = [u \in Contas |-> {}]

CatalogoNext ==
    \/ \E c \in Catalogos : Deploy(c)
    \/ Sincronizar \/ LerEmUso \/ PurgarObsoletos
    \/ \E u \in Contas, rs \in SUBSET UNION {DOMAIN c : c \in Catalogos} : SubstituirPapeis(u, rs)

CatalogoSpec == CatalogoInit /\ [][CatalogoNext]_catalogoVars

-----------------------------------------------------------------------------
\* No account is left with a role that is gone (purgar_obsoletos: a role with
\* an account is never removed).
RolesOfAccountsExist == EmUso \subseteq papeis

\* A synchronisation leaves nothing for the readiness check to report, and
\* takes nothing from those who hold a role the catalogue no longer has
\* (rbac_sync.py:227, a check that no synchronisation would ever turn green).
SynchronizationSettles ==
    [][Sincronizar => /\ Sincronizado'
                      /\ \A par \in concessoes : par[1] \in Obsoletos => par \in concessoes'
      ]_catalogoVars
=============================================================================
