------------------------- MODULE PermissionCatalog -------------------------
(***************************************************************************)
(* The permissions of the system and the roles that bundle them, as the    *)
(* catalogue in the code declares them.                                    *)
(***************************************************************************)

_FINANCEIRO ==
    {"collaborators:read", "collaborators:read_pii", "teams:read", "proposals:read",
     "proposals:read_pii", "proposals:approve", "receipts:read", "receipts:write",
     "receipts:approve", "reversals:approve", "commission_rules:read", "periods:read",
     "periods:close", "periods:reopen", "settlements:read", "settlements:write",
     "settlements:approve", "adjustments:write", "adjustments:approve", "reports:read",
     "reports:export", "dashboard:read", "audit:read"}

_OPERACIONAL ==
    {"collaborators:read", "proposals:read", "proposals:write", "receipts:read", "dashboard:read"}

_LIDERANCA ==
    {"collaborators:read", "teams:read", "teams:write", "proposals:read", "receipts:read",
     "dashboard:read"}

_CONSULTOR == {"proposals:read", "dashboard:read"}

\* What no role but the administrator's holds.
_SO_ADMIN ==
    {"users:read", "users:write", "collaborators:write", "companies:write",
     "commission_rules:write", "commission_rules:activate", "admin:operations", "backups:run"}

PERMISSOES == _FINANCEIRO \cup _OPERACIONAL \cup _LIDERANCA \cup _CONSULTOR \cup _SO_ADMIN

PAPEIS ==
    [ADMIN |-> PERMISSOES, FINANCEIRO |-> _FINANCEIRO, OPERACIONAL |-> _OPERACIONAL,
     LIDERANCA |-> _LIDERANCA, CONSULTOR |-> _CONSULTOR]

\* The permissions of a user are those of all of its roles.
PermissoesDe(papeis) == UNION {PAPEIS[papel] : papel \in papeis}
=============================================================================
