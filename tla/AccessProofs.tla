---------------------------- MODULE AccessProofs ----------------------------
(***************************************************************************)
(* Proofs about who may act: AccessCatalog, for any releases and accounts, *)
(* and Identity, for any users, profiles and number of requests at the     *)
(* same time.                                                              *)
(***************************************************************************)
EXTENDS Identity, LoginThrottle, AccessCatalog, FiniteSetTheorems, TLAPS

-----------------------------------------------------------------------------
\* The tables of roles.

\* A synchronisation leaves nothing for the readiness check to report.
LEMMA SyncLeavesNothing ==
    ASSUME Sincronizar
    PROVE  Sincronizado'
  <1>1. Desejadas' = Desejadas /\ Codigos' = Codigos /\ PermissoesDoCatalogo' = PermissoesDoCatalogo
    BY DEF Sincronizar, Desejadas, Codigos, PermissoesDoCatalogo
  <1>2. PermissoesDoCatalogo' \subseteq permissoes' /\ Codigos' \subseteq papeis'
    BY <1>1 DEF Sincronizar, Aplicar
  <1>3. concessoes' = (concessoes \cup Desejadas) \ Sobrando
    BY DEF Sincronizar, Aplicar
  <1>4. Desejadas \subseteq concessoes'
    BY <1>3 DEF Sobrando
  <1>5. {par \in concessoes' \ Desejadas : par[1] \in Codigos} = {}
    BY <1>3 DEF Sobrando
  <1>6. Divergencia' = [permissoes |-> {}, papeis |-> {}, faltando |-> {}, aMais |-> {}]
    BY <1>1, <1>2, <1>4, <1>5 DEF Divergencia
  <1> QED
    BY <1>6 DEF Sincronizado

\* The readiness check turns green with every synchronisation, and the holders
\* of an obsolete role keep what it grants (rbac_sync.py:227).
THEOREM SynchronizationAlwaysSettles == CatalogoSpec => SynchronizationSettles
  <1>1. Sincronizar => \A par \in concessoes : par[1] \in Obsoletos => par \in concessoes'
    BY DEF Sincronizar, Aplicar, Obsoletos, Sobrando
  <1>2. Sincronizar => Sincronizado'
    BY SyncLeavesNothing
  <1> QED
    BY <1>1, <1>2, PTL DEF SynchronizationSettles

\* A row of user_roles keeps its role: neither a synchronisation nor a purge
\* that runs while roles are given takes it away (purgar_obsoletos).
THEOREM RolesOfAccountsAlwaysExist == CatalogoSpec => []RolesOfAccountsExist
  <1> DEFINE Inv == RolesOfAccountsExist /\ DOMAIN papeisDe = Contas
  <1>1. CatalogoInit => Inv
    BY DEF CatalogoInit, RolesOfAccountsExist, EmUso
  <1>2. Inv /\ [CatalogoNext]_catalogoVars => Inv'
    <2> SUFFICES ASSUME Inv, [CatalogoNext]_catalogoVars PROVE Inv'
      OBVIOUS
    <2>1. ASSUME UNCHANGED papeisDe, papeis \subseteq papeis' PROVE Inv'
      BY <2>1 DEF RolesOfAccountsExist, EmUso
    <2>2. ASSUME NEW c \in Catalogos, Deploy(c) PROVE Inv'
      BY <2>1, <2>2 DEF Deploy
    <2>3. CASE Sincronizar
      BY <2>1, <2>3 DEF Sincronizar, Aplicar
    <2>4. CASE LerEmUso
      BY <2>1, <2>4 DEF LerEmUso
    <2>5. CASE PurgarObsoletos
      <3>1. CASE Restricao
        <4>1. EmUso' = EmUso /\ DOMAIN papeisDe' = Contas
          BY <2>5 DEF PurgarObsoletos, EmUso
        <4>2. papeis' = (papeis \cup Codigos) \ purga
          BY <2>5, <3>1 DEF PurgarObsoletos, Aplicar
        <4> QED
          BY <3>1, <4>1, <4>2 DEF Restricao, RolesOfAccountsExist
      <3>2. CASE ~Restricao
        BY <2>1, <2>5, <3>2 DEF PurgarObsoletos
      <3> QED
        BY <3>1, <3>2
    <2>6. ASSUME NEW u \in Contas, NEW rs, SubstituirPapeis(u, rs) PROVE Inv'
      <3>1. papeisDe' = [papeisDe EXCEPT ![u] = rs] /\ rs \subseteq papeis /\ papeis' = papeis
        BY <2>6 DEF SubstituirPapeis
      <3> QED
        BY <3>1 DEF RolesOfAccountsExist, EmUso
    <2>7. CASE UNCHANGED catalogoVars
      BY <2>1, <2>7 DEF catalogoVars
    <2> QED
      BY <2>2, <2>3, <2>4, <2>5, <2>6, <2>7 DEF CatalogoNext
  <1> QED
    BY <1>1, <1>2, PTL DEF CatalogoSpec

-----------------------------------------------------------------------------
\* Sessions and accounts.

\* A request is somebody's, and a command on the own account neither takes its
\* roles nor deactivates it: what Begin checked holds until Gravar.
PedidoOK(r) ==
    /\ r.passo \in {"entrando", "lendo", "guardando", "aceito"} => r.usuario \in Usuarios
    /\ r.passo \in {"guardando", "aceito"} => r.papeis \in SUBSET DOMAIN PAPEIS
    /\ r.passo = "entrando" => r.senha \in Nat
    /\ r.passo = "gravando" =>
           /\ r.ator \in Usuarios /\ r.alvo \in Usuarios
           /\ r.papeis \in SUBSET DOMAIN PAPEIS /\ r.situacao \in Situacoes
           /\ r.ator = r.alvo => r.papeis = {} /\ r.situacao # "inativa"

PedidosOK == DOMAIN pedidos = Processos /\ \A p \in Processos : PedidoOK(pedidos[p])

AInv == IdentityTypeOK /\ PedidosOK /\ SomebodyAdministers

\* The passwords, the sessions and the cache: what changes the accounts is seen
\* apart.
LEMMA RequestsKept ==
    ASSUME PedidosOK, NEW p \in Processos, NEW r, PedidoOK(r),
           Segue(p, r) \/ Entra(p, r)
    PROVE  PedidosOK'
  <1>1. pedidos' = [pedidos EXCEPT ![p] = r]
    BY DEF Segue, Entra
  <1> QED
    BY <1>1 DEF PedidosOK, PedidoOK

LEMMA FreeOK == PedidoOK(Livre)
  BY DEF PedidoOK, Livre

LEMMA SameAccounts ==
    ASSUME AInv, UNCHANGED <<conta, semRespaldo>>
    PROVE  SomebodyAdministers'
  BY DEF AInv, SomebodyAdministers, Administra

LEMMA CacheShrinks ==
    ASSUME IdentityTypeOK, NEW S, cache' = Sem(cache, S)
    PROVE  \A t \in DOMAIN cache' : cache'[t] \in Entrada
  BY DEF IdentityTypeOK, Sem, Restrict

LEMMA RowKept ==
    ASSUME NEW S, NEW s \in Seq(S), NEW i, NEW v, i \in DOMAIN s => v \in S
    PROVE  [s EXCEPT ![i] = v] \in Seq(S)
  <1>1. CASE i \in DOMAIN s
    BY <1>1
  <1>2. CASE i \notin DOMAIN s
    <2>1. [s EXCEPT ![i] = v] = s
      BY <1>2
    <2> QED
      BY <2>1
  <1> QED
    BY <1>1, <1>2

LEMMA LoginKeeps ==
    ASSUME IdentityAssumption, AInv, NEW p \in Processos, NEW u \in Usuarios, Authenticate(p, u)
    PROVE  AInv'
  <1> DEFINE r == [passo |-> "entrando", usuario |-> u, senha |-> conta[u].senha]
  <1>1. PedidoOK(r)
    BY DEF AInv, IdentityTypeOK, Conta, PedidoOK
  <1>2. PedidosOK'
    BY <1>1, RequestsKept DEF AInv, Authenticate
  <1>3. IdentityTypeOK'
    BY DEF AInv, IdentityTypeOK, Authenticate
  <1> QED
    BY <1>2, <1>3, SameAccounts DEF AInv, Authenticate

LEMMA OpenSessionKeeps ==
    ASSUME AInv, NEW p \in Processos, OpenSession(p)
    PROVE  AInv'
  <1> DEFINE atrasou == pedidos[p].senha # conta[pedidos[p].usuario].senha
             s == [usuario |-> pedidos[p].usuario, token |-> emitidos + 1, motivo |-> "",
                   expirada |-> FALSE, senha |-> pedidos[p].senha, tardia |-> atrasou]
  <1>0. atrasou \in BOOLEAN
    OBVIOUS
  <1>1. /\ pedidos[p].usuario \in Usuarios /\ pedidos[p].senha \in Nat
        /\ emitidos + 1 \in Nat
    <2>1. pedidos[p].passo = "entrando"
      BY DEF OpenSession
    <2>2. emitidos + 1 \in Nat
      BY DEF AInv, IdentityTypeOK
    <2> QED
      BY <2>1, <2>2 DEF AInv, PedidosOK, PedidoOK
  <1>2. s \in Sessao
    <2> HIDE DEF atrasou
    <2> QED
      BY <1>0, <1>1 DEF Sessao
  <1>3. sessoes' = Append(sessoes, s) /\ emitidos' = emitidos + 1
    BY DEF OpenSession
  <1> HIDE DEF s
  <1>4. sessoes' \in Seq(Sessao) /\ emitidos' \in Nat
    BY <1>1, <1>2, <1>3 DEF AInv, IdentityTypeOK
  <1>5. IdentityTypeOK'
    BY <1>4 DEF AInv, IdentityTypeOK, OpenSession
  <1>6. PedidosOK'
    BY FreeOK, RequestsKept DEF AInv, OpenSession
  <1> QED
    BY <1>5, <1>6, SameAccounts DEF AInv, OpenSession

LEMMA ResolutionKeeps ==
    ASSUME AInv, NEW p \in Processos,
           \/ \E t \in Tokens : ResolveHit(p, t) \/ ResolveMiss(p, t)
           \/ ReadUser(p) \/ Guardar(p) \/ Respond(p)
    PROVE  AInv'
  <1>1. ASSUME NEW t \in Tokens, ResolveHit(p, t) PROVE AInv'
    <2> DEFINE r == [passo |-> "aceito", usuario |-> cache[t].usuario, papeis |-> cache[t].papeis]
    <2>1. PedidoOK(r)
      BY <1>1 DEF ResolveHit, AInv, IdentityTypeOK, Entrada, PedidoOK
    <2>2. PedidosOK'
      BY <1>1, <2>1, RequestsKept DEF AInv, ResolveHit
    <2> QED
      BY <1>1, <2>2, SameAccounts DEF AInv, IdentityTypeOK, ResolveHit
  <1>2. ASSUME NEW t \in Tokens, ResolveMiss(p, t) PROVE AInv'
    <2>1. PICK i \in BuscarPorTokenHash(t) :
              Entra(p, [passo |-> "lendo", token |-> t, usuario |-> sessoes[i].usuario])
      BY <1>2 DEF ResolveMiss
    <2> DEFINE r == [passo |-> "lendo", token |-> t, usuario |-> sessoes[i].usuario]
    <2>2. sessoes[i] \in Sessao
      BY DEF BuscarPorTokenHash, AInv, IdentityTypeOK
    <2>3. PedidoOK(r)
      BY <2>2 DEF Sessao, PedidoOK
    <2>4. PedidosOK'
      BY <2>1, <2>3, RequestsKept DEF AInv
    <2> QED
      BY <1>2, <2>4, SameAccounts DEF AInv, IdentityTypeOK, ResolveMiss
  <1>3. CASE ReadUser(p)
    <2> DEFINE u == pedidos[p].usuario
               r == [passo |-> "guardando", token |-> pedidos[p].token, usuario |-> u,
                     papeis |-> conta[u].papeis]
    <2>1. u \in Usuarios
      BY <1>3 DEF ReadUser, AInv, PedidosOK, PedidoOK
    <2>2. PedidoOK(r)
      BY <2>1 DEF AInv, IdentityTypeOK, Conta, PedidoOK
    <2>3. Segue(p, IF conta[u].ativa THEN r ELSE Livre)
      BY <1>3 DEF ReadUser
    <2>4. PedidosOK'
      BY <2>2, <2>3, FreeOK, RequestsKept DEF AInv
    <2> QED
      BY <1>3, <2>4, SameAccounts DEF AInv, IdentityTypeOK, ReadUser
  <1>4. CASE Guardar(p)
    <2>1. pedidos[p].usuario \in Usuarios /\ pedidos[p].papeis \in SUBSET DOMAIN PAPEIS
      BY <1>4 DEF Guardar, AInv, PedidosOK, PedidoOK
    <2> DEFINE r == [passo |-> "aceito", usuario |-> pedidos[p].usuario,
                     papeis |-> pedidos[p].papeis]
    <2>2. PedidoOK(r)
      BY <2>1 DEF PedidoOK
    <2>3. PedidosOK'
      BY <1>4, <2>2, RequestsKept DEF AInv, Guardar
    <2>4. \A t \in DOMAIN cache' : cache'[t] \in Entrada
      BY <1>4, <2>1 DEF Guardar, AInv, IdentityTypeOK, Entrada
    <2> QED
      BY <1>4, <2>3, <2>4, SameAccounts DEF AInv, IdentityTypeOK, Guardar
  <1>5. CASE Respond(p)
    <2>1. PedidosOK'
      BY <1>5, FreeOK, RequestsKept DEF AInv, Respond
    <2> QED
      BY <1>5, <2>1, SameAccounts DEF AInv, IdentityTypeOK, Respond
  <1> QED
    BY <1>1, <1>2, <1>3, <1>4, <1>5


LEMMA RotationKeeps ==
    ASSUME AInv, NEW p \in Processos,
           \/ \E t \in Tokens : BeginRefresh(p, t) \/ BeginLogout(p, t)
           \/ Refresh(p) \/ Logout(p)
    PROVE  AInv'
  <1>1. ASSUME NEW t \in Tokens, BeginRefresh(p, t) PROVE AInv'
    <2>1. PICK i : Entra(p, IF EstaViva(sessoes[i]) THEN [passo |-> "girando", sessao |-> i]
                                                     ELSE Livre)
      BY <1>1 DEF BeginRefresh
    <2>2. PedidoOK([passo |-> "girando", sessao |-> i])
      BY DEF PedidoOK
    <2>3. PedidosOK'
      BY <2>1, <2>2, FreeOK, RequestsKept DEF AInv
    <2>4. IdentityTypeOK'
      BY <1>1, CacheShrinks DEF AInv, IdentityTypeOK, BeginRefresh
    <2> QED
      BY <1>1, <2>3, <2>4, SameAccounts DEF AInv, BeginRefresh
  <1>2. ASSUME NEW t \in Tokens, BeginLogout(p, t) PROVE AInv'
    <2>1. PICK i : Entra(p, [passo |-> "saindo", sessao |-> i])
      BY <1>2 DEF BeginLogout
    <2>2. PedidoOK([passo |-> "saindo", sessao |-> i])
      BY DEF PedidoOK
    <2>3. PedidosOK'
      BY <2>1, <2>2, RequestsKept DEF AInv
    <2>4. IdentityTypeOK'
      BY <1>2, CacheShrinks DEF AInv, IdentityTypeOK, BeginLogout
    <2> QED
      BY <1>2, <2>3, <2>4, SameAccounts DEF AInv, BeginLogout
  <1>3. CASE Refresh(p)
    <2> DEFINE i == pedidos[p].sessao
    <2>1. sessoes' = [sessoes EXCEPT ![i].token = emitidos + 1] /\ emitidos' = emitidos + 1
      BY <1>3 DEF Refresh
    <2>2. emitidos + 1 \in Nat
      BY DEF AInv, IdentityTypeOK
    <2>3. \A s \in Sessao : [s EXCEPT !.token = emitidos + 1] \in Sessao
      BY <2>2 DEF Sessao
    <2> HIDE DEF i
    <2>4. sessoes' \in Seq(Sessao)
      BY <2>1, <2>3, RowKept DEF AInv, IdentityTypeOK
    <2>5. IdentityTypeOK'
      BY <1>3, <2>1, <2>2, <2>4 DEF AInv, IdentityTypeOK, Refresh
    <2>6. PedidosOK'
      BY <1>3, FreeOK, RequestsKept DEF AInv, Refresh
    <2> QED
      BY <1>3, <2>5, <2>6, SameAccounts DEF AInv, Refresh
  <1>4. CASE Logout(p)
    <2> DEFINE i == pedidos[p].sessao
    <2>1. sessoes' = [sessoes EXCEPT ![i].motivo = IF @ = "" THEN "logout" ELSE @]
      BY <1>4 DEF Logout
    <2>2. \A s \in Sessao : [s EXCEPT !.motivo = IF @ = "" THEN "logout" ELSE @] \in Sessao
      BY DEF Sessao
    <2> HIDE DEF i
    <2>a. i \in DOMAIN sessoes => sessoes[i] \in Sessao
      BY DEF AInv, IdentityTypeOK
    <2>3. sessoes' \in Seq(Sessao)
      BY <2>1, <2>2, <2>a, RowKept DEF AInv, IdentityTypeOK
    <2>4. IdentityTypeOK'
      BY <1>4, <2>3 DEF AInv, IdentityTypeOK, Logout
    <2>5. PedidosOK'
      BY <1>4, FreeOK, RequestsKept DEF AInv, Logout
    <2> QED
      BY <1>4, <2>4, <2>5, SameAccounts DEF AInv, Logout
  <1> QED
    BY <1>1, <1>2, <1>3, <1>4

\* A command on the own account leaves its roles and its state: what it takes
\* from another leaves its author.
LEMMA BeginKeeps ==
    ASSUME AInv, NEW p \in Processos, NEW alvo \in Usuarios, NEW papeis_ \in SUBSET DOMAIN PAPEIS,
           NEW situacao \in Situacoes, NEW senha \in BOOLEAN, NEW revoga,
           Begin(p, alvo, papeis_, situacao, senha, revoga)
    PROVE  AInv'
  <1> DEFINE hashes == IF revoga THEN TokenHashesVivos(alvo) ELSE {}
             r == [passo |-> "gravando", ator |-> pedidos[p].usuario, alvo |-> alvo,
                   papeis |-> papeis_, situacao |-> situacao, senha |-> senha,
                   revoga |-> revoga, hashes |-> hashes]
  <1>1. pedidos[p].usuario \in Usuarios
    BY DEF Begin, AInv, PedidosOK, PedidoOK
  <1>2. alvo = pedidos[p].usuario => papeis_ = {} /\ situacao # "inativa"
    BY DEF Begin, AutoAlteracaoPermitida
  <1>3. Segue(p, r) /\ cache' = Sem(cache, Limpeza(hashes).antes)
    BY DEF Begin
  <1> HIDE DEF hashes
  <1>4. PedidoOK(r)
    BY <1>1, <1>2 DEF PedidoOK
  <1>5. PedidosOK'
    BY <1>3, <1>4, RequestsKept DEF AInv
  <1>6. IdentityTypeOK'
    BY <1>3, CacheShrinks DEF AInv, IdentityTypeOK, Begin
  <1> QED
    BY <1>5, <1>6, SameAccounts DEF AInv, Begin

LEMMA CommandsKeep ==
    ASSUME IdentityAssumption, AInv, NEW p \in Processos, NEW u \in Usuarios,
           \/ ResetUserPassword(p, u)
           \/ \E rs \in Perfis : SetUserRoles(p, u, rs)
           \/ \E s \in {"ativa", "inativa"} : SetUserStatus(p, u, s)
           \/ \E rs \in Perfis \cup {{}}, s \in Situacoes : UpdateUser(p, u, rs, s)
    PROVE  AInv'
  <1>1. ASSUME NEW rs \in Perfis \cup {{}} PROVE rs \in SUBSET DOMAIN PAPEIS
    BY <1>1 DEF IdentityAssumption
  <1>2. CASE ResetUserPassword(p, u)
    BY <1>2, BeginKeeps DEF ResetUserPassword, Situacoes
  <1>3. ASSUME NEW rs \in Perfis, SetUserRoles(p, u, rs) PROVE AInv'
    BY <1>1, <1>3, BeginKeeps DEF SetUserRoles, Situacoes
  <1>4. ASSUME NEW s \in {"ativa", "inativa"}, SetUserStatus(p, u, s) PROVE AInv'
    <2>1. PICK revoga : Begin(p, u, {}, s, FALSE, revoga)
      BY <1>4, Zenon DEF SetUserStatus
    <2>2. s \in Situacoes /\ {} \in SUBSET DOMAIN PAPEIS /\ FALSE \in BOOLEAN
      BY <1>4 DEF Situacoes
    <2> QED
      BY <2>1, <2>2, BeginKeeps
  <1>5. ASSUME NEW rs \in Perfis \cup {{}}, NEW s \in Situacoes, UpdateUser(p, u, rs, s)
        PROVE  AInv'
    <2> DEFINE novos == IF rs # conta[u].papeis THEN rs ELSE {}
               estado == IF Muda(u, s) THEN s ELSE "mesma"
    <2>1. novos \in SUBSET DOMAIN PAPEIS /\ estado \in Situacoes
      BY <1>1, <1>5 DEF Situacoes
    <2>2. \E revoga : Begin(p, u, novos, estado, FALSE, revoga)
      BY <1>5 DEF UpdateUser
    <2> HIDE DEF novos, estado
    <2> QED
      BY <2>1, <2>2, BeginKeeps
  <1> QED
    BY <1>2, <1>3, <1>4, <1>5


\* A new account was nobody's: those who administer still do.
LEMMA CreationKeeps ==
    ASSUME IdentityAssumption, AInv, NEW p \in Processos, NEW u \in Usuarios, NEW rs \in Perfis,
           CreateUser(p, u, rs)
    PROVE  AInv'
  <1> DEFINE nova == [ativa |-> TRUE, papeis |-> rs, senha |-> 1]
  <1>1. conta' = [conta EXCEPT ![u] = nova] /\ conta[u].papeis = {} /\ Segue(p, Livre)
    BY DEF CreateUser, Existe
  <1>2. nova \in Conta
    BY DEF IdentityAssumption, Conta
  <1>3. IdentityTypeOK'
    BY <1>1, <1>2 DEF CreateUser, AInv, IdentityTypeOK
  <1>4. PedidosOK'
    BY <1>1, FreeOK, RequestsKept DEF AInv
  <1>5. SomebodyAdministers'
    <2>1. ~Administra(u)
      BY <1>1 DEF Administra, PermissoesDe
    <2>2. ASSUME NEW v \in Usuarios, Administra(v) PROVE Administra(v)'
      <3>1. v # u
        BY <2>1, <2>2
      <3>2. conta'[v] = conta[v]
        BY <1>1, <3>1 DEF AInv, IdentityTypeOK
      <3> QED
        BY <2>2, <3>2 DEF Administra
    <2>3. semRespaldo' = semRespaldo
      BY DEF CreateUser
    <2> QED
      BY <2>2, <2>3 DEF AInv, SomebodyAdministers
  <1> QED
    BY <1>3, <1>4, <1>5 DEF AInv

\* Whoever commits a change is an administrator after it, if it was one before:
\* it changed somebody else, or nothing that makes it one.
LEMMA AuthorRemains ==
    ASSUME AInv, NEW p \in Processos, Gravar(p), NEW ator, ator = pedidos[p].ator, Administra(ator)
    PROVE  ator \in Usuarios /\ Administra(ator)'
  <1> DEFINE r == pedidos[p]
  <1>1. /\ ator \in Usuarios /\ r.alvo \in Usuarios /\ r.situacao \in Situacoes
        /\ ator = r.alvo => r.papeis = {} /\ r.situacao # "inativa"
    BY DEF AInv, PedidosOK, PedidoOK, Gravar
  <1>2. /\ \A u \in Usuarios \ {r.alvo} : conta'[u] = conta[u]
        /\ conta'[r.alvo].ativa = IF r.situacao = "mesma" THEN conta[r.alvo].ativa
                                                         ELSE r.situacao = "ativa"
        /\ conta'[r.alvo].papeis = IF r.papeis = {} THEN conta[r.alvo].papeis ELSE r.papeis
    BY <1>1 DEF Gravar, AInv, IdentityTypeOK
  <1>3. CASE ator # r.alvo
    <2>1. conta'[ator] = conta[ator]
      BY <1>1, <1>2, <1>3
    <2> QED
      BY <1>1, <2>1 DEF Administra
  <1>4. CASE ator = r.alvo
    <2>1. conta'[ator].papeis = conta[ator].papeis
      BY <1>1, <1>2, <1>4
    <2>2. conta'[ator].ativa
      BY <1>1, <1>2, <1>4 DEF Situacoes, Administra
    <2> QED
      BY <1>1, <2>1, <2>2 DEF Administra
  <1> QED
    BY <1>3, <1>4

LEMMA ChangeKeeps ==
    ASSUME IdentityAssumption, AInv, NEW p \in Processos, Gravar(p)
    PROVE  AInv'
  <1> DEFINE r == pedidos[p]
             c == conta[r.alvo]
             nova == [ativa |-> IF r.situacao = "mesma" THEN c.ativa ELSE r.situacao = "ativa",
                      papeis |-> IF r.papeis = {} THEN c.papeis ELSE r.papeis,
                      senha |-> IF r.senha /\ c.senha < MaxSenhas THEN c.senha + 1 ELSE c.senha]
             S == RevogarDoUsuario(r)
             limpar == Limpeza(r.hashes).depois
  <1>1. r.alvo \in Usuarios /\ r.papeis \in SUBSET DOMAIN PAPEIS
    BY DEF AInv, PedidosOK, PedidoOK, Gravar
  <1>2. nova \in Conta
    <2>1. c \in Conta
      BY <1>1 DEF AInv, IdentityTypeOK
    <2>2. nova.ativa \in BOOLEAN
      BY <2>1 DEF Conta
    <2>3. nova.papeis \in SUBSET DOMAIN PAPEIS
      BY <1>1, <2>1 DEF Conta
    <2>4. nova.senha \in Nat
      BY <2>1 DEF Conta
    <2> QED
      BY <2>2, <2>3, <2>4 DEF Conta
  <1>3. conta' = [conta EXCEPT ![r.alvo] = nova]
    BY DEF Gravar
  <1>4. sessoes' = [i \in DOMAIN sessoes |->
                       IF i \in S THEN [sessoes[i] EXCEPT !.motivo = "acesso"] ELSE sessoes[i]]
    BY DEF Gravar
  <1>5. Segue(p, IF limpar = {} THEN Livre ELSE [passo |-> "limpando", hashes |-> limpar])
    BY DEF Gravar
  <1> HIDE DEF S, nova, limpar
  <1>6. conta' \in [Usuarios -> Conta]
    BY <1>1, <1>2, <1>3 DEF AInv, IdentityTypeOK
  <1>7. sessoes' \in Seq(Sessao)
    <2>1. \A s \in Sessao : [s EXCEPT !.motivo = "acesso"] \in Sessao
      BY DEF Sessao
    <2> QED
      BY <1>4, <2>1 DEF AInv, IdentityTypeOK
  <1>8. IdentityTypeOK'
    BY <1>6, <1>7 DEF AInv, IdentityTypeOK, Gravar
  <1>9. PedidosOK'
    <2>1. PedidoOK([passo |-> "limpando", hashes |-> limpar])
      BY DEF PedidoOK
    <2> QED
      BY <1>5, <2>1, FreeOK, RequestsKept DEF AInv
  <1>10. SomebodyAdministers'
    BY AuthorRemains DEF SomebodyAdministers, Gravar
  <1> QED
    BY <1>8, <1>9, <1>10 DEF AInv

LEMMA OthersKeep ==
    ASSUME IdentityAssumption, AInv,
           \/ \E p \in Processos : Interromper(p) \/ \E t \in Tokens : LimparCache(p, t)
           \/ \E i \in DOMAIN sessoes : Expire(i)
           \/ Tick \/ UNCHANGED identityVars
    PROVE  AInv'
  <1>1. ASSUME NEW p \in Processos, Interromper(p) PROVE AInv'
    <2>1. PedidosOK'
      BY <1>1, FreeOK, RequestsKept DEF AInv, Interromper
    <2> QED
      BY <1>1, <2>1, SameAccounts DEF AInv, IdentityTypeOK, Interromper
  <1>2. ASSUME NEW p \in Processos, NEW t \in Tokens, LimparCache(p, t) PROVE AInv'
    <2> DEFINE resto == pedidos[p].hashes \ {t}
    <2>1. PedidoOK([passo |-> "limpando", hashes |-> resto])
      BY DEF PedidoOK
    <2>2. Segue(p, IF resto = {} THEN Livre ELSE [passo |-> "limpando", hashes |-> resto])
      BY <1>2 DEF LimparCache
    <2>3. PedidosOK'
      BY <2>1, <2>2, FreeOK, RequestsKept DEF AInv
    <2>4. IdentityTypeOK'
      BY <1>2, CacheShrinks DEF AInv, IdentityTypeOK, LimparCache
    <2> QED
      BY <1>2, <2>3, <2>4, SameAccounts DEF AInv, LimparCache
  <1>3. ASSUME NEW i \in DOMAIN sessoes, Expire(i) PROVE AInv'
    <2>1. \A s \in Sessao : [s EXCEPT !.expirada = TRUE] \in Sessao
      BY DEF Sessao
    <2>2. sessoes' = [sessoes EXCEPT ![i] = [sessoes[i] EXCEPT !.expirada = TRUE]]
      BY <1>3 DEF Expire
    <2>3. sessoes' \in Seq(Sessao)
      BY <2>1, <2>2, RowKept DEF AInv, IdentityTypeOK
    <2>4. IdentityTypeOK'
      BY <1>3, <2>3 DEF AInv, IdentityTypeOK, Expire
    <2>5. PedidosOK'
      BY <1>3 DEF AInv, PedidosOK, PedidoOK, Expire
    <2> QED
      BY <1>3, <2>4, <2>5, SameAccounts DEF AInv, Expire
  <1>4. CASE Tick
    <2>1. \A e \in Entrada : [e EXCEPT !.idade = @ + 1] \in Entrada
      BY DEF Entrada
    <2>2. \A t \in DOMAIN cache' : t \in DOMAIN cache /\ cache'[t] = [cache[t] EXCEPT !.idade = @ + 1]
      BY <1>4 DEF Tick
    <2>3. IdentityTypeOK'
      BY <1>4, <2>1, <2>2 DEF AInv, IdentityTypeOK, Tick
    <2>4. PedidosOK'
      BY <1>4 DEF AInv, PedidosOK, PedidoOK, Tick
    <2> QED
      BY <1>4, <2>3, <2>4, SameAccounts DEF AInv, Tick
  <1>5. CASE UNCHANGED identityVars
    BY <1>5 DEF identityVars, AInv, IdentityTypeOK, PedidosOK, PedidoOK, SomebodyAdministers,
                Administra
  <1> QED
    BY <1>1, <1>2, <1>3, <1>4, <1>5

LEMMA AInvInitially ==
    ASSUME IdentityAssumption, IdentityInit
    PROVE  AInv
  <1>1. conta \in [Usuarios -> Conta]
    BY DEF IdentityInit, Conta, PAPEIS
  <1>2. emitidos \in Nat /\ sessoes \in Seq(Sessao)
    <2>1. PICK abertas \in SUBSET Administradores :
              /\ emitidos = Cardinality(abertas)
              /\ \E quem \in [1..emitidos -> abertas] :
                     /\ Range(quem) = abertas
                     /\ sessoes = [t \in 1..emitidos |-> Aberta(quem[t], t)]
      BY DEF IdentityInit
    <2>2. emitidos \in Nat
      BY <2>1, FS_Subset, FS_CardinalityType DEF IdentityAssumption
    <2>3. PICK quem \in [1..emitidos -> abertas] :
              sessoes = [t \in 1..emitidos |-> Aberta(quem[t], t)]
      BY <2>1
    <2>4. \A t \in 1..emitidos : Aberta(quem[t], t) \in Sessao
      <3>1. ASSUME NEW t \in 1..emitidos PROVE quem[t] \in Usuarios /\ t \in Nat
        BY <2>2, <2>3 DEF IdentityAssumption
      <3> QED
        BY <3>1 DEF Aberta, Sessao
    <2> QED
      BY <2>2, <2>3, <2>4
  <1>3. IdentityTypeOK
    BY <1>1, <1>2 DEF IdentityInit, IdentityTypeOK
  <1>4. PedidosOK
    BY DEF IdentityInit, PedidosOK, PedidoOK, Livre
  <1>5. SomebodyAdministers
    <2>1. PICK u \in Administradores : TRUE
      BY DEF IdentityAssumption
    <2>2. conta[u].ativa /\ conta[u].papeis = {"ADMIN"}
      BY DEF IdentityInit, IdentityAssumption
    <2>3. "users:write" \in PAPEIS["ADMIN"]
      BY DEF PAPEIS, PERMISSOES, _SO_ADMIN
    <2>4. Administra(u)
      BY <2>2, <2>3 DEF Administra, PermissoesDe
    <2> QED
      BY <2>4 DEF SomebodyAdministers, IdentityAssumption
  <1> QED
    BY <1>3, <1>4, <1>5 DEF AInv

LEMMA AInvKept ==
    ASSUME IdentityAssumption, AInv, [IdentityNext]_identityVars
    PROVE  AInv'
  BY LoginKeeps, OpenSessionKeeps, ResolutionKeeps, RotationKeeps, CommandsKeep, CreationKeeps,
     ChangeKeeps, OthersKeep, Zenon DEF IdentityNext

\* Accounts, sessions and the entries of the cache have their types.
THEOREM IdentityTypes == ASSUME IdentityAssumption PROVE IdentitySpec => []IdentityTypeOK
  <1>1. IdentityInit => AInv
    BY AInvInitially
  <1>2. AInv /\ [IdentityNext]_identityVars => AInv'
    BY AInvKept
  <1>3. AInv => IdentityTypeOK
    BY DEF AInv
  <1> QED
    BY <1>1, <1>2, <1>3, PTL DEF IdentitySpec

\* For any number of users and of requests together, somebody can administer
\* the accounts as long as every command was committed for an administrator
\* (manage_user.py:7).
THEOREM SomebodyAlwaysAdministers ==
    ASSUME IdentityAssumption PROVE IdentitySpec => []SomebodyAdministers
  <1>1. IdentityInit => AInv
    BY AInvInitially
  <1>2. AInv /\ [IdentityNext]_identityVars => AInv'
    BY AInvKept
  <1>3. AInv => SomebodyAdministers
    BY DEF AInv
  <1> QED
    BY <1>1, <1>2, <1>3, PTL DEF IdentitySpec

-----------------------------------------------------------------------------
(***************************************************************************)
(* What a change of access leaves behind.  A token belongs to a session or *)
(* to none, and no entry of the cache is about a token that was not issued *)
(* yet: a rotation that runs late hands out a new token, and only the old  *)
(* one may still be cached.                                                *)
(***************************************************************************)

\* What was revoked, and what somebody still clears or nobody will.
Revogado(t) == \E i \in BuscarPorTokenHash(t) : sessoes[i].motivo = "acesso"

Avisado(t) ==
    \/ t \in semLimpeza
    \/ \E p \in Processos : pedidos[p].passo = "limpando" /\ t \in pedidos[p].hashes

PassoOK(r) ==
    /\ r.passo \in {"lendo", "guardando"} => r.token \in 1..emitidos
    /\ r.passo = "gravando" =>
           /\ r.alvo \in Usuarios /\ Existe(r.alvo)
           /\ r.revoga = TRUE \/ r.senha = FALSE

PassosOK == \A p \in Processos : PassoOK(pedidos[p])

TokensOK ==
    /\ \A i \in DOMAIN sessoes :
           /\ sessoes[i].token \in 1..emitidos
           /\ sessoes[i].motivo # "" => sessoes[i].token \in mortos
    /\ DOMAIN cache \subseteq 1..emitidos

\* Who never had an account never had a second password.
NovasOK == \A u \in Usuarios : ~Existe(u) => conta[u].senha = 1

SInv ==
    /\ AInv
    /\ PassosOK
    /\ TokensOK
    /\ NovasOK
    /\ OldPasswordsHaveNoSession
    /\ AccessChangeShowsAtOnce

LEMMA AccessKept ==
    ASSUME AccessChangeShowsAtOnce,
           \A t : t \in DOMAIN cache' /\ Revogado(t)' =>
               \/ cache'[t].tardia \/ Avisado(t)'
               \/ /\ t \in DOMAIN cache /\ Revogado(t)
                  /\ cache[t].tardia => cache'[t].tardia
                  /\ Avisado(t) => Avisado(t)'
    PROVE  AccessChangeShowsAtOnce'
  BY DEF AccessChangeShowsAtOnce, Revogado, Avisado

\* Of the requests one goes on, the others stay as they are.
LEMMA OneRequest ==
    ASSUME PedidosOK, NEW p \in Processos, NEW r, Segue(p, r) \/ Entra(p, r)
    PROVE  pedidos'[p] = r /\ \A q \in Processos \ {p} : pedidos'[q] = pedidos[q]
  BY DEF PedidosOK, Segue, Entra

LEMMA StepsKept ==
    ASSUME SInv, NEW p \in Processos, NEW r, Segue(p, r) \/ Entra(p, r),
           PassoOK(r), emitidos' = emitidos \/ emitidos' = emitidos + 1,
           \A u \in Usuarios : Existe(u) => Existe(u)'
    PROVE  PassosOK'
  <1> SUFFICES ASSUME NEW q \in Processos, NEW x, x = pedidos'[q] PROVE PassoOK(x)'
    BY DEF PassosOK, PassoOK
  <1>1. x = r \/ x = pedidos[q]
    BY OneRequest DEF SInv, AInv
  <1>2. PassoOK(x)
    BY <1>1 DEF SInv, PassosOK
  <1>3. 1..emitidos \subseteq 1..emitidos'
    BY DEF SInv, AInv, IdentityTypeOK
  <1> QED
    BY <1>2, <1>3 DEF PassoOK

\* What was said of a token stays said while nobody but the command itself
\* stops clearing.
LEMMA WarningsKept ==
    ASSUME SInv, NEW p \in Processos, NEW r, Segue(p, r) \/ Entra(p, r),
           semLimpeza \subseteq semLimpeza',
           pedidos[p].passo = "limpando" => pedidos[p].hashes \subseteq semLimpeza'
    PROVE  \A t : Avisado(t) => Avisado(t)'
  <1>1. \A q \in Processos \ {p} : pedidos'[q] = pedidos[q]
    BY OneRequest DEF SInv, AInv
  <1> QED
    BY <1>1 DEF Avisado

\* A step that changes neither the accounts nor the sessions and adds nothing
\* to the cache.
LEMMA QuietRequests ==
    ASSUME SInv, AInv', NEW p \in Processos, NEW r, Segue(p, r) \/ Entra(p, r), PassoOK(r),
           UNCHANGED <<conta, sessoes, emitidos, mortos>>, semLimpeza \subseteq semLimpeza',
           pedidos[p].passo = "limpando" => pedidos[p].hashes \subseteq semLimpeza',
           \A t \in DOMAIN cache' : t \in DOMAIN cache /\ cache'[t] = cache[t]
    PROVE  SInv'
  <1>1. PassosOK'
    BY StepsKept DEF Existe
  <1>2. TokensOK' /\ NovasOK' /\ OldPasswordsHaveNoSession'
    BY DEF SInv, TokensOK, NovasOK, OldPasswordsHaveNoSession, Existe
  <1>3. \A t : Revogado(t)' => Revogado(t)
    BY DEF Revogado, BuscarPorTokenHash
  <1>4. AccessChangeShowsAtOnce'
    BY <1>3, WarningsKept, AccessKept DEF SInv
  <1> QED
    BY <1>1, <1>2, <1>4 DEF SInv

LEMMA CacheOnlyShrinks ==
    ASSUME NEW S, cache' = Sem(cache, S)
    PROVE  \A t \in DOMAIN cache' : t \in DOMAIN cache \ S /\ cache'[t] = cache[t]
  BY DEF Sem, Restrict

LEMMA FreeStep == PassoOK(Livre)
  BY DEF PassoOK, Livre

LEMMA RequestsStay ==
    ASSUME IdentityAssumption, SInv, NEW p \in Processos,
           \/ \E u \in Usuarios : Authenticate(p, u)
           \/ \E t \in Tokens : \/ ResolveHit(p, t) \/ ResolveMiss(p, t)
                                \/ BeginRefresh(p, t) \/ BeginLogout(p, t)
           \/ ReadUser(p) \/ Respond(p) \/ Interromper(p)
    PROVE  SInv'
  <1>a. AInv'
    BY LoginKeeps, ResolutionKeeps, RotationKeeps, OthersKeep DEF SInv
  <1>b. pedidos[p] = Livre => pedidos[p].passo # "limpando"
    BY DEF Livre
  <1>1. ASSUME NEW u \in Usuarios, Authenticate(p, u) PROVE SInv'
    <2> DEFINE r == [passo |-> "entrando", usuario |-> u, senha |-> conta[u].senha]
    <2>1. PassoOK(r)
      BY DEF PassoOK
    <2> QED
      BY <1>a, <1>b, <1>1, <2>1, QuietRequests DEF Authenticate, Chega
  <1>2. ASSUME NEW t \in Tokens, ResolveHit(p, t) PROVE SInv'
    <2> DEFINE r == [passo |-> "aceito", usuario |-> cache[t].usuario, papeis |-> cache[t].papeis]
    <2>1. PassoOK(r)
      BY DEF PassoOK
    <2> QED
      BY <1>a, <1>b, <1>2, <2>1, QuietRequests DEF ResolveHit, Chega
  <1>3. ASSUME NEW t \in Tokens, ResolveMiss(p, t) PROVE SInv'
    <2>1. PICK i \in BuscarPorTokenHash(t) :
              Entra(p, [passo |-> "lendo", token |-> t, usuario |-> sessoes[i].usuario])
      BY <1>3 DEF ResolveMiss
    <2> DEFINE r == [passo |-> "lendo", token |-> t, usuario |-> sessoes[i].usuario]
    <2>2. t \in 1..emitidos
      BY DEF BuscarPorTokenHash, SInv, TokensOK
    <2>3. PassoOK(r)
      BY <2>2 DEF PassoOK
    <2> QED
      BY <1>a, <1>b, <1>3, <2>1, <2>3, QuietRequests DEF ResolveMiss, Chega
  <1>4. ASSUME NEW t \in Tokens, BeginRefresh(p, t) PROVE SInv'
    <2>1. PICK i : Entra(p, IF EstaViva(sessoes[i]) THEN [passo |-> "girando", sessao |-> i]
                                                     ELSE Livre)
      BY <1>4 DEF BeginRefresh
    <2>2. PassoOK([passo |-> "girando", sessao |-> i])
      BY DEF PassoOK
    <2>3. PICK r : Entra(p, r) /\ PassoOK(r)
      BY <2>1, <2>2, FreeStep
    <2> QED
      BY <1>a, <1>b, <1>4, <2>3, CacheOnlyShrinks, QuietRequests DEF BeginRefresh, Chega
  <1>5. ASSUME NEW t \in Tokens, BeginLogout(p, t) PROVE SInv'
    <2>1. PICK i : Entra(p, [passo |-> "saindo", sessao |-> i])
      BY <1>5 DEF BeginLogout
    <2>2. PassoOK([passo |-> "saindo", sessao |-> i])
      BY DEF PassoOK
    <2>3. PICK r : Entra(p, r) /\ PassoOK(r)
      BY <2>1, <2>2
    <2> QED
      BY <1>a, <1>b, <1>5, <2>3, CacheOnlyShrinks, QuietRequests DEF BeginLogout, Chega
  <1>6. CASE ReadUser(p)
    <2> DEFINE u == pedidos[p].usuario
               r == [passo |-> "guardando", token |-> pedidos[p].token, usuario |-> u,
                     papeis |-> conta[u].papeis]
    <2>1. pedidos[p].passo = "lendo" /\ Segue(p, IF conta[u].ativa THEN r ELSE Livre)
      BY <1>6 DEF ReadUser
    <2>2. PassoOK(r)
      BY <2>1 DEF SInv, PassosOK, PassoOK
    <2>3. PICK x : Segue(p, x) /\ PassoOK(x)
      BY <2>1, <2>2, FreeStep
    <2> QED
      BY <1>a, <1>6, <2>1, <2>3, QuietRequests DEF ReadUser
  <1>7. CASE Respond(p)
    BY <1>a, <1>7, FreeStep, QuietRequests DEF Respond
  <1>8. CASE Interromper(p)
    BY <1>a, <1>8, FreeStep, QuietRequests DEF Interromper
  <1> QED
    BY <1>1, <1>2, <1>3, <1>4, <1>5, <1>6, <1>7, <1>8

LEMMA CommandsBegin ==
    ASSUME SInv, AInv', NEW p \in Processos, NEW alvo \in Usuarios, NEW papeis_, NEW situacao,
           NEW senha, NEW revoga, Begin(p, alvo, papeis_, situacao, senha, revoga),
           revoga = TRUE \/ senha = FALSE
    PROVE  SInv'
  <1> DEFINE hashes == IF revoga THEN TokenHashesVivos(alvo) ELSE {}
             r == [passo |-> "gravando", ator |-> pedidos[p].usuario, alvo |-> alvo,
                   papeis |-> papeis_, situacao |-> situacao, senha |-> senha,
                   revoga |-> revoga, hashes |-> hashes]
  <1>1. Segue(p, r) /\ cache' = Sem(cache, Limpeza(hashes).antes) /\ pedidos[p].passo = "aceito"
    BY DEF Begin
  <1>2. UNCHANGED <<conta, sessoes, emitidos, mortos, semLimpeza>> /\ Existe(alvo)
    BY DEF Begin
  <1> HIDE DEF hashes
  <1>3. PassoOK(r)
    BY <1>2 DEF PassoOK
  <1> QED
    BY <1>1, <1>2, <1>3, CacheOnlyShrinks, QuietRequests

LEMMA CommandsStay ==
    ASSUME IdentityAssumption, SInv, NEW p \in Processos, NEW u \in Usuarios,
           \/ ResetUserPassword(p, u)
           \/ \E rs \in Perfis : SetUserRoles(p, u, rs)
           \/ \E s \in {"ativa", "inativa"} : SetUserStatus(p, u, s)
           \/ \E rs \in Perfis \cup {{}}, s \in Situacoes : UpdateUser(p, u, rs, s)
    PROVE  SInv'
  <1>1. AInv'
    BY CommandsKeep DEF SInv
  <1>2. \/ \E papeis_, situacao, revoga : Begin(p, u, papeis_, situacao, FALSE, revoga)
        \/ Begin(p, u, {}, "mesma", TRUE, TRUE)
    BY Zenon DEF ResetUserPassword, SetUserRoles, SetUserStatus, UpdateUser
  <1> QED
    BY <1>1, <1>2, CommandsBegin

\* A session that is added, or whose columns change, and its token.
LEMMA OpenSessionStays ==
    ASSUME SInv, NEW p \in Processos, OpenSession(p)
    PROVE  SInv'
  <1> DEFINE atrasou == pedidos[p].senha # conta[pedidos[p].usuario].senha
             s == [usuario |-> pedidos[p].usuario, token |-> emitidos + 1, motivo |-> "",
                   expirada |-> FALSE, senha |-> pedidos[p].senha, tardia |-> atrasou]
  <1>1. AInv'
    BY OpenSessionKeeps DEF SInv
  <1>2. /\ sessoes' = Append(sessoes, s) /\ emitidos' = emitidos + 1 /\ Segue(p, Livre)
        /\ UNCHANGED <<conta, cache, mortos, semLimpeza>> /\ pedidos[p].passo = "entrando"
    BY DEF OpenSession
  <1>3. /\ s.token = emitidos + 1 /\ s.motivo = "" /\ s.senha = pedidos[p].senha
        /\ s.usuario = pedidos[p].usuario /\ s.tardia = atrasou
    OBVIOUS
  <1>4. ~s.tardia => s.senha = conta[s.usuario].senha
    BY <1>3
  <1> HIDE DEF s, atrasou
  <1>5. emitidos \in Nat /\ Len(sessoes) \in Nat /\ DOMAIN sessoes = 1..Len(sessoes)
    BY DEF SInv, AInv, IdentityTypeOK
  <1>6. /\ DOMAIN sessoes' = 1..(Len(sessoes) + 1)
        /\ \A i \in DOMAIN sessoes : sessoes'[i] = sessoes[i]
        /\ sessoes'[Len(sessoes) + 1] = s
    BY <1>2, <1>5 DEF SInv, AInv, IdentityTypeOK
  <1>7. \A i \in DOMAIN sessoes' : i \in DOMAIN sessoes \/ i = Len(sessoes) + 1
    BY <1>5, <1>6
  <1>8. PassosOK'
    BY <1>2, FreeStep, StepsKept DEF Existe
  <1>a. /\ 1..emitidos \subseteq 1..(emitidos + 1)
        /\ emitidos + 1 \in 1..(emitidos + 1)
    BY <1>5
  <1>b. TokensOK
    BY DEF SInv
  <1>9. TokensOK'
    <2>1. \A i \in DOMAIN sessoes' : /\ sessoes'[i].token \in 1..emitidos'
                                     /\ sessoes'[i].motivo # "" => sessoes'[i].token \in mortos'
      BY <1>2, <1>3, <1>a, <1>b, <1>6, <1>7 DEF TokensOK
    <2>2. DOMAIN cache' \subseteq 1..emitidos'
      BY <1>2, <1>a, <1>b DEF TokensOK
    <2> QED
      BY <2>1, <2>2 DEF TokensOK
  <1>10. NovasOK'
    BY <1>2 DEF SInv, NovasOK, Existe
  <1>11. OldPasswordsHaveNoSession'
    BY <1>2, <1>4, <1>6, <1>7 DEF SInv, OldPasswordsHaveNoSession, EstaViva
  <1>12. \A t : Revogado(t)' => Revogado(t)
    BY <1>3, <1>6, <1>7 DEF Revogado, BuscarPorTokenHash
  <1>13. AccessChangeShowsAtOnce'
    BY <1>2, <1>12, WarningsKept, AccessKept DEF SInv
  <1> QED
    BY <1>1, <1>8, <1>9, <1>10, <1>11, <1>13 DEF SInv

LEMMA GuardarStays ==
    ASSUME SInv, NEW p \in Processos, Guardar(p)
    PROVE  SInv'
  <1>1. AInv'
    BY ResolutionKeeps DEF SInv
  <1> DEFINE r == [passo |-> "aceito", usuario |-> pedidos[p].usuario, papeis |-> pedidos[p].papeis]
             k == pedidos[p].token
  <1>2. /\ Segue(p, r) /\ pedidos[p].passo = "guardando"
        /\ UNCHANGED <<conta, sessoes, emitidos, mortos, semLimpeza>>
        /\ DOMAIN cache' = DOMAIN cache \cup {k}
        /\ \A t \in DOMAIN cache : t # k => cache'[t] = cache[t]
        /\ cache'[k].tardia = (k \in mortos)
    BY DEF Guardar
  <1>3. PassoOK(r)
    BY DEF PassoOK
  <1>4. k \in 1..emitidos
    BY <1>2 DEF SInv, PassosOK, PassoOK
  <1> HIDE DEF r, k
  <1>5. PassosOK'
    BY <1>2, <1>3, StepsKept DEF Existe
  <1>6. TokensOK' /\ NovasOK' /\ OldPasswordsHaveNoSession'
    BY <1>2, <1>4 DEF SInv, TokensOK, NovasOK, OldPasswordsHaveNoSession, Existe
  <1>7. \A t : Revogado(t)' => Revogado(t) /\ t \in mortos
    BY <1>2 DEF Revogado, BuscarPorTokenHash, SInv, TokensOK
  <1>8. \A t : Avisado(t) => Avisado(t)'
    BY <1>2, WarningsKept
  <1>9. AccessChangeShowsAtOnce'
    BY <1>2, <1>7, <1>8, AccessKept DEF SInv
  <1> QED
    BY <1>1, <1>5, <1>6, <1>9 DEF SInv

\* A rotation that comes after the revocation hands out a token that is dead
\* from the start, and not in the cache.
LEMMA RefreshStays ==
    ASSUME SInv, NEW p \in Processos, Refresh(p)
    PROVE  SInv'
  <1> DEFINE i == pedidos[p].sessao
  <1>1. AInv'
    BY RotationKeeps DEF SInv
  <1>2. /\ sessoes' = [sessoes EXCEPT ![i].token = emitidos + 1] /\ emitidos' = emitidos + 1
        /\ Segue(p, Livre) /\ UNCHANGED <<conta, cache, semLimpeza>>
        /\ pedidos[p].passo = "girando"
        /\ mortos' = mortos \cup ({sessoes[i].token} \cup
                                  IF EstaViva(sessoes[i]) THEN {} ELSE {emitidos + 1})
    BY DEF Refresh, Matar
  <1> HIDE DEF i
  <1>3. emitidos \in Nat /\ \A j \in DOMAIN sessoes : sessoes[j] \in Sessao
    BY DEF SInv, AInv, IdentityTypeOK
  <1>4. DOMAIN sessoes' = DOMAIN sessoes
    BY <1>2
  <1>5. ASSUME NEW j \in DOMAIN sessoes
        PROVE  \/ sessoes'[j] = sessoes[j]
               \/ j = i /\ sessoes'[j] = [sessoes[j] EXCEPT !.token = emitidos + 1]
    BY <1>2
  <1>6. ASSUME NEW j \in DOMAIN sessoes
        PROVE  /\ sessoes'[j].motivo = sessoes[j].motivo
               /\ sessoes'[j].senha = sessoes[j].senha
               /\ sessoes'[j].usuario = sessoes[j].usuario
               /\ sessoes'[j].tardia = sessoes[j].tardia
               /\ sessoes'[j].expirada = sessoes[j].expirada
               /\ \/ sessoes'[j].token = sessoes[j].token
                  \/ sessoes'[j].token = emitidos + 1 /\ j = i
    BY <1>3, <1>5 DEF Sessao
  <1>7. PassosOK'
    BY <1>2, FreeStep, StepsKept DEF Existe
  <1>a. /\ 1..emitidos \subseteq 1..(emitidos + 1)
        /\ emitidos + 1 \in 1..(emitidos + 1)
        /\ emitidos + 1 \notin 1..emitidos
    BY <1>3
  <1>b. TokensOK
    BY DEF SInv
  <1>c. emitidos' = emitidos + 1 /\ mortos \subseteq mortos'
    BY <1>2
  <1>8. TokensOK'
    <2>1. ASSUME NEW j \in DOMAIN sessoes
          PROVE  /\ sessoes'[j].token \in 1..emitidos'
                 /\ sessoes'[j].motivo # "" => sessoes'[j].token \in mortos'
      <3>1. /\ sessoes[j].token \in 1..emitidos
            /\ sessoes[j].motivo # "" => sessoes[j].token \in mortos
        BY <1>b DEF TokensOK
      <3>2. CASE sessoes'[j].token = sessoes[j].token
        BY <1>c, <1>a, <1>6, <3>1, <3>2
      <3>3. CASE sessoes'[j].token = emitidos + 1 /\ j = i
        <4>1. sessoes[j].motivo # "" => emitidos + 1 \in mortos'
          BY <1>2, <3>3 DEF EstaViva
        <4> QED
          BY <1>2, <1>a, <1>6, <3>3, <4>1
      <3> QED
        BY <1>6, <3>2, <3>3
    <2>2. DOMAIN cache' \subseteq 1..emitidos'
      BY <1>2, <1>a, <1>b DEF TokensOK
    <2> QED
      BY <1>4, <2>1, <2>2 DEF TokensOK
  <1>9. NovasOK'
    BY <1>2 DEF SInv, NovasOK, Existe
  <1>10. OldPasswordsHaveNoSession'
    <2> SUFFICES ASSUME NEW j \in DOMAIN sessoes, EstaViva(sessoes'[j]), ~sessoes'[j].tardia
                 PROVE  sessoes'[j].senha = conta[sessoes'[j].usuario].senha
      BY <1>2, <1>4 DEF OldPasswordsHaveNoSession, EstaViva
    <2>1. EstaViva(sessoes[j]) /\ ~sessoes[j].tardia
      BY <1>6 DEF EstaViva
    <2> QED
      BY <1>6, <2>1 DEF SInv, OldPasswordsHaveNoSession
  <1>11. emitidos + 1 \notin DOMAIN cache
    BY <1>a, <1>b DEF TokensOK
  <1>12. \A t \in DOMAIN cache : Revogado(t)' => Revogado(t)
    BY <1>4, <1>6, <1>11 DEF Revogado, BuscarPorTokenHash
  <1>13. AccessChangeShowsAtOnce'
    BY <1>2, <1>12, WarningsKept, AccessKept DEF SInv
  <1> QED
    BY <1>1, <1>7, <1>8, <1>9, <1>10, <1>13 DEF SInv

\* A session that dies by log-out or by its date.
LEMMA SessionEnds ==
    ASSUME SInv, AInv', NEW i,
           UNCHANGED <<conta, emitidos, cache, semLimpeza>>,
           DOMAIN sessoes' = DOMAIN sessoes,
           \A j \in DOMAIN sessoes : j # i => sessoes'[j] = sessoes[j],
           i \in DOMAIN sessoes =>
               /\ sessoes'[i].token = sessoes[i].token
               /\ sessoes'[i].usuario = sessoes[i].usuario
               /\ sessoes'[i].senha = sessoes[i].senha
               /\ sessoes'[i].tardia = sessoes[i].tardia
               /\ EstaViva(sessoes'[i]) => EstaViva(sessoes[i])
               /\ sessoes'[i].motivo = "acesso" => sessoes[i].motivo = "acesso",
           mortos' = mortos \cup {sessoes[i].token},
           PassosOK', \A t : Avisado(t) => Avisado(t)'
    PROVE  SInv'
  <1>1. TokensOK' /\ NovasOK'
    BY DEF SInv, TokensOK, NovasOK, Existe
  <1>2. OldPasswordsHaveNoSession'
    <2> SUFFICES ASSUME NEW j \in DOMAIN sessoes, EstaViva(sessoes'[j]), ~sessoes'[j].tardia
                 PROVE  sessoes'[j].senha = conta[sessoes'[j].usuario].senha
      BY DEF OldPasswordsHaveNoSession, EstaViva
    <2> QED
      BY DEF SInv, OldPasswordsHaveNoSession, EstaViva
  <1>3. \A t : Revogado(t)' => Revogado(t)
    BY DEF Revogado, BuscarPorTokenHash
  <1>4. AccessChangeShowsAtOnce'
    BY <1>3, AccessKept DEF SInv
  <1> QED
    BY <1>1, <1>2, <1>4 DEF SInv

LEMMA LogoutStays ==
    ASSUME SInv, NEW p \in Processos, Logout(p)
    PROVE  SInv'
  <1> DEFINE i == pedidos[p].sessao
  <1>1. AInv'
    BY RotationKeeps DEF SInv
  <1>2. /\ sessoes' = [sessoes EXCEPT ![i].motivo = IF @ = "" THEN "logout" ELSE @]
        /\ mortos' = mortos \cup {sessoes[i].token}
        /\ Segue(p, Livre) /\ UNCHANGED <<conta, emitidos, cache, semLimpeza>>
        /\ pedidos[p].passo = "saindo"
    BY DEF Logout, Matar
  <1> HIDE DEF i
  <1>3. \A j \in DOMAIN sessoes : sessoes[j] \in Sessao
    BY DEF SInv, AInv, IdentityTypeOK
  <1>4. PassosOK' /\ \A t : Avisado(t) => Avisado(t)'
    BY <1>2, FreeStep, StepsKept, WarningsKept DEF Existe
  <1>5. DOMAIN sessoes' = DOMAIN sessoes /\ \A j \in DOMAIN sessoes : j # i => sessoes'[j] = sessoes[j]
    BY <1>2
  <1>6. i \in DOMAIN sessoes =>
            /\ sessoes'[i].token = sessoes[i].token
            /\ sessoes'[i].usuario = sessoes[i].usuario
            /\ sessoes'[i].senha = sessoes[i].senha
            /\ sessoes'[i].tardia = sessoes[i].tardia
            /\ EstaViva(sessoes'[i]) => EstaViva(sessoes[i])
            /\ sessoes'[i].motivo = "acesso" => sessoes[i].motivo = "acesso"
    BY <1>2, <1>3 DEF Sessao, EstaViva
  <1> QED
    BY <1>1, <1>2, <1>4, <1>5, <1>6, SessionEnds

LEMMA ExpireStays ==
    ASSUME IdentityAssumption, SInv, NEW i \in DOMAIN sessoes, Expire(i)
    PROVE  SInv'
  <1>1. AInv'
    BY OthersKeep DEF SInv
  <1>2. /\ sessoes' = [sessoes EXCEPT ![i].expirada = TRUE]
        /\ mortos' = mortos \cup {sessoes[i].token}
        /\ UNCHANGED <<conta, emitidos, cache, semLimpeza, pedidos>>
    BY DEF Expire, Matar
  <1>3. \A j \in DOMAIN sessoes : sessoes[j] \in Sessao
    BY DEF SInv, AInv, IdentityTypeOK
  <1>4. PassosOK' /\ \A t : Avisado(t) => Avisado(t)'
    BY <1>2 DEF SInv, PassosOK, PassoOK, Existe, Avisado
  <1>5. DOMAIN sessoes' = DOMAIN sessoes /\ \A j \in DOMAIN sessoes : j # i => sessoes'[j] = sessoes[j]
    BY <1>2
  <1>6. /\ sessoes'[i].token = sessoes[i].token
        /\ sessoes'[i].usuario = sessoes[i].usuario
        /\ sessoes'[i].senha = sessoes[i].senha
        /\ sessoes'[i].tardia = sessoes[i].tardia
        /\ EstaViva(sessoes'[i]) => EstaViva(sessoes[i])
        /\ sessoes'[i].motivo = "acesso" => sessoes[i].motivo = "acesso"
    BY <1>2, <1>3 DEF Sessao, EstaViva
  <1> QED
    BY <1>1, <1>2, <1>4, <1>5, <1>6, SessionEnds

\* The entries only grow old, or go.
LEMMA TickStays ==
    ASSUME IdentityAssumption, SInv, Tick
    PROVE  SInv'
  <1>1. AInv'
    BY OthersKeep DEF SInv
  <1>2. UNCHANGED <<conta, sessoes, emitidos, mortos, semLimpeza, pedidos>>
    BY DEF Tick
  <1>3. \A t \in DOMAIN cache' : t \in DOMAIN cache /\ cache'[t].tardia = cache[t].tardia
    <2>1. \A e \in Entrada : [e EXCEPT !.idade = @ + 1].tardia = e.tardia
      BY DEF Entrada
    <2>2. \A t \in DOMAIN cache' : t \in DOMAIN cache /\ cache'[t] = [cache[t] EXCEPT !.idade = @ + 1]
      BY DEF Tick
    <2> QED
      BY <2>1, <2>2 DEF SInv, AInv, IdentityTypeOK
  <1>4. PassosOK' /\ NovasOK' /\ OldPasswordsHaveNoSession'
    BY <1>2 DEF SInv, PassosOK, PassoOK, NovasOK, Existe, OldPasswordsHaveNoSession
  <1>5. TokensOK'
    BY <1>2, <1>3 DEF SInv, TokensOK
  <1>6. \A t : (Revogado(t)' => Revogado(t)) /\ (Avisado(t) => Avisado(t)')
    BY <1>2 DEF Revogado, BuscarPorTokenHash, Avisado
  <1>7. AccessChangeShowsAtOnce'
    BY <1>3, <1>6, AccessKept DEF SInv
  <1> QED
    BY <1>1, <1>4, <1>5, <1>7 DEF SInv

LEMMA ClearingStays ==
    ASSUME IdentityAssumption, SInv, NEW p \in Processos, NEW t \in Tokens, LimparCache(p, t)
    PROVE  SInv'
  <1> DEFINE resto == pedidos[p].hashes \ {t}
             r == [passo |-> "limpando", hashes |-> resto]
  <1>1. AInv'
    BY OthersKeep DEF SInv
  <1>2. PassoOK(r)
    BY DEF PassoOK
  <1>3. /\ Segue(p, IF resto = {} THEN Livre ELSE r) /\ cache' = Sem(cache, {t})
        /\ UNCHANGED <<conta, sessoes, emitidos, mortos, semLimpeza>>
        /\ pedidos[p].passo = "limpando"
    BY DEF LimparCache
  <1>4. PassosOK'
    <2>1. PICK x : Segue(p, x) /\ PassoOK(x)
      BY <1>2, <1>3, FreeStep
    <2> QED
      BY <1>3, <2>1, StepsKept DEF Existe
  <1>5. \A k \in DOMAIN cache' : k \in DOMAIN cache /\ k # t /\ cache'[k] = cache[k]
    BY <1>3, CacheOnlyShrinks
  <1>6. TokensOK' /\ NovasOK' /\ OldPasswordsHaveNoSession'
    BY <1>3, <1>5 DEF SInv, TokensOK, NovasOK, OldPasswordsHaveNoSession, Existe
  <1>7. ASSUME NEW k, k # t, Avisado(k) PROVE Avisado(k)'
    <2>1. CASE k \in semLimpeza
      BY <1>3, <2>1 DEF Avisado
    <2>2. ASSUME NEW q \in Processos, pedidos[q].passo = "limpando", k \in pedidos[q].hashes
          PROVE  Avisado(k)'
      <3>1. CASE q # p
        <4>1. pedidos'[q] = pedidos[q]
          BY <1>3, <3>1 DEF Segue
        <4> QED
          BY <2>2, <4>1 DEF Avisado
      <3>2. CASE q = p
        <4>1. k \in resto
          BY <1>7, <2>2, <3>2
        <4>2. pedidos' = [pedidos EXCEPT ![p] = r] /\ p \in DOMAIN pedidos
          BY <1>3, <4>1 DEF Segue, SInv, AInv, PedidosOK
        <4>3. pedidos'[p].passo = "limpando" /\ k \in pedidos'[p].hashes
          BY <4>1, <4>2
        <4> QED
          BY <4>3 DEF Avisado
      <3> QED
        BY <3>1, <3>2
    <2> QED
      BY <1>7, <2>1, <2>2 DEF Avisado
  <1>8. \A k : Revogado(k)' => Revogado(k)
    BY <1>3 DEF Revogado, BuscarPorTokenHash
  <1>9. AccessChangeShowsAtOnce'
    BY <1>5, <1>7, <1>8, AccessKept DEF SInv
  <1> QED
    BY <1>1, <1>4, <1>6, <1>9 DEF SInv

LEMMA CreationStays ==
    ASSUME IdentityAssumption, SInv, NEW p \in Processos, NEW u \in Usuarios, NEW rs \in Perfis,
           CreateUser(p, u, rs)
    PROVE  SInv'
  <1> DEFINE nova == [ativa |-> TRUE, papeis |-> rs, senha |-> 1]
  <1>1. AInv'
    BY CreationKeeps DEF SInv
  <1>2. /\ conta' = [conta EXCEPT ![u] = nova] /\ ~Existe(u) /\ Segue(p, Livre)
        /\ UNCHANGED <<sessoes, emitidos, cache, mortos, semLimpeza>>
        /\ pedidos[p].passo = "aceito"
    BY DEF CreateUser
  <1>3. conta[u].senha = 1 /\ nova.senha = 1
    BY <1>2 DEF SInv, NovasOK
  <1> HIDE DEF nova
  <1>4. \A v \in Usuarios : conta'[v].senha = conta[v].senha /\ (v # u => conta'[v] = conta[v])
    BY <1>2, <1>3 DEF SInv, AInv, IdentityTypeOK
  <1>5. \A v \in Usuarios : Existe(v) => Existe(v)'
    BY <1>2, <1>4 DEF Existe
  <1>6. PassosOK'
    BY <1>2, <1>5, FreeStep, StepsKept
  <1>7. NovasOK'
    BY <1>4, <1>5 DEF SInv, NovasOK
  <1>8. TokensOK'
    BY <1>2 DEF SInv, TokensOK
  <1>9. \A j \in DOMAIN sessoes : sessoes[j].usuario \in Usuarios
    <2>1. \A j \in DOMAIN sessoes : sessoes[j] \in Sessao
      BY DEF SInv, AInv, IdentityTypeOK
    <2> QED
      BY <2>1 DEF Sessao
  <1>10. OldPasswordsHaveNoSession'
    BY <1>2, <1>4, <1>9 DEF SInv, OldPasswordsHaveNoSession, EstaViva
  <1>11. \A t : (Revogado(t)' => Revogado(t)) /\ (Avisado(t) => Avisado(t)')
    BY <1>2, WarningsKept DEF Revogado, BuscarPorTokenHash
  <1>12. AccessChangeShowsAtOnce'
    BY <1>2, <1>11, AccessKept DEF SInv
  <1> QED
    BY <1>1, <1>6, <1>7, <1>8, <1>10, <1>12 DEF SInv

\* What the UPDATE revokes is cleared by this command, or was not listed by it.
LEMMA ChangeStays ==
    ASSUME IdentityAssumption, SInv, NEW p \in Processos, Gravar(p)
    PROVE  SInv'
  <1> DEFINE r == pedidos[p]
             S == RevogarDoUsuario(r)
             tokens == {sessoes[i].token : i \in S}
             x == IF r.hashes = {} THEN Livre ELSE [passo |-> "limpando", hashes |-> r.hashes]
  <1>1. AInv'
    BY ChangeKeeps DEF SInv
  <1>2. /\ r.passo = "gravando" /\ Segue(p, x) /\ UNCHANGED <<emitidos, cache>>
        /\ sessoes' = [i \in DOMAIN sessoes |->
                          IF i \in S THEN [sessoes[i] EXCEPT !.motivo = "acesso"] ELSE sessoes[i]]
        /\ mortos' = mortos \cup tokens
        /\ semLimpeza' = semLimpeza \cup (tokens \ r.hashes)
    BY DEF Gravar, Matar, Limpeza
  <1>3. /\ r.alvo \in Usuarios /\ Existe(r.alvo)
        /\ r.revoga = TRUE \/ r.senha = FALSE
    BY <1>2 DEF SInv, PassosOK, PassoOK
  <1>4. /\ \A u \in Usuarios \ {r.alvo} : conta'[u] = conta[u]
        /\ conta'[r.alvo].papeis = IF r.papeis = {} THEN conta[r.alvo].papeis ELSE r.papeis
        /\ r.senha = FALSE => conta'[r.alvo].senha = conta[r.alvo].senha
    BY <1>3 DEF Gravar, SInv, AInv, IdentityTypeOK
  <1>5. r.revoga = TRUE => S = SessoesDo(r.alvo)
    BY DEF RevogarDoUsuario
  <1>6. PassoOK(x)
    BY FreeStep DEF PassoOK
  <1>7. r.hashes # {} => x.passo = "limpando" /\ x.hashes = r.hashes
    OBVIOUS
  <1>8. \A j \in DOMAIN sessoes : sessoes[j] \in Sessao
    BY DEF SInv, AInv, IdentityTypeOK
  <1>9. \A j \in S : sessoes[j].token \in tokens
    OBVIOUS
  <1>10. S \subseteq DOMAIN sessoes
    BY DEF RevogarDoUsuario, SessoesDo
  <1> HIDE DEF S, tokens, x
  <1>11. \A u \in Usuarios : Existe(u) => Existe(u)'
    BY <1>4 DEF Existe
  <1>12. PassosOK'
    BY <1>2, <1>6, <1>11, StepsKept
  <1>13. NovasOK'
    BY <1>3, <1>4, <1>11 DEF SInv, NovasOK
  <1>14. \A j \in DOMAIN sessoes : /\ sessoes'[j].token = sessoes[j].token
                                   /\ j \in S => sessoes'[j].motivo = "acesso"
                                   /\ j \notin S => sessoes'[j] = sessoes[j]
    BY <1>2, <1>8 DEF Sessao
  <1>15. DOMAIN sessoes' = DOMAIN sessoes
    BY <1>2
  <1>16. TokensOK'
    <2>1. TokensOK /\ mortos \subseteq mortos'
      BY <1>2 DEF SInv
    <2>2. \A j \in S : sessoes[j].token \in mortos'
      BY <1>2, <1>9
    <2>3. \A j \in DOMAIN sessoes : sessoes'[j].motivo # "" => sessoes'[j].token \in mortos'
      BY <1>14, <2>1, <2>2 DEF TokensOK
    <2> QED
      BY <1>2, <1>14, <1>15, <2>1, <2>3 DEF TokensOK
  <1>17. OldPasswordsHaveNoSession'
    <2> SUFFICES ASSUME NEW j \in DOMAIN sessoes, EstaViva(sessoes'[j]), ~sessoes'[j].tardia
                 PROVE  sessoes'[j].senha = conta'[sessoes'[j].usuario].senha
      BY <1>15 DEF OldPasswordsHaveNoSession, EstaViva
    <2>1. j \notin S /\ sessoes'[j] = sessoes[j]
      BY <1>14 DEF EstaViva
    <2>2. sessoes[j].usuario \in Usuarios /\ sessoes[j].senha = conta[sessoes[j].usuario].senha
      BY <1>8, <2>1 DEF Sessao, SInv, OldPasswordsHaveNoSession
    <2>3. CASE sessoes[j].usuario # r.alvo
      BY <1>4, <2>1, <2>2, <2>3
    <2>4. CASE sessoes[j].usuario = r.alvo
      <3>1. r.revoga # TRUE
        BY <1>5, <2>1, <2>4 DEF SessoesDo, EstaViva
      <3> QED
        BY <1>3, <1>4, <2>1, <2>2, <2>4, <3>1
    <2> QED
      BY <2>3, <2>4
  <1>18. \A t : Avisado(t) => Avisado(t)'
    BY <1>2, WarningsKept
  <1>19. ASSUME NEW t, Revogado(t)' PROVE Revogado(t) \/ Avisado(t)'
    <2>1. PICK j \in DOMAIN sessoes : sessoes'[j].token = t /\ sessoes'[j].motivo = "acesso"
      BY <1>15, <1>19 DEF Revogado, BuscarPorTokenHash
    <2>2. CASE j \in S /\ t \in r.hashes
      <3>1. pedidos'[p] = x
        BY <1>2, OneRequest DEF SInv, AInv
      <3> QED
        BY <1>7, <2>2, <3>1 DEF Avisado
    <2>3. CASE j \in S /\ t \notin r.hashes
      <3>0. t \in tokens
        BY <1>9, <1>14, <2>1, <2>3
      <3>1. t \in semLimpeza'
        BY <1>2, <2>3, <3>0
      <3> QED
        BY <3>1 DEF Avisado
    <2>4. CASE j \notin S
      BY <1>14, <2>1, <2>4 DEF Revogado, BuscarPorTokenHash
    <2> QED
      BY <2>2, <2>3, <2>4
  <1>20. AccessChangeShowsAtOnce'
    BY <1>2, <1>18, <1>19, AccessKept DEF SInv
  <1> QED
    BY <1>1, <1>12, <1>13, <1>16, <1>17, <1>20 DEF SInv

LEMMA SInvInitially ==
    ASSUME IdentityAssumption, IdentityInit
    PROVE  SInv
  <1>1. AInv
    BY AInvInitially
  <1>2. PICK abertas \in SUBSET Administradores :
            \E quem \in [1..emitidos -> abertas] :
                sessoes = [t \in 1..emitidos |-> Aberta(quem[t], t)]
    BY DEF IdentityInit
  <1>3. PICK quem \in [1..emitidos -> abertas] :
            sessoes = [t \in 1..emitidos |-> Aberta(quem[t], t)]
    BY <1>2
  <1>4. emitidos \in Nat
    BY <1>1 DEF AInv, IdentityTypeOK
  <1>5. \A t \in DOMAIN sessoes : /\ t \in 1..emitidos /\ quem[t] \in Usuarios
                                 /\ sessoes[t] = Aberta(quem[t], t)
    BY <1>3 DEF IdentityAssumption
  <1>6. ASSUME NEW t \in DOMAIN sessoes
        PROVE  /\ sessoes[t].token = t /\ sessoes[t].motivo = ""
               /\ sessoes[t].senha = 1 /\ sessoes[t].usuario \in Usuarios
    <2> DEFINE u == quem[t]
    <2>1. u \in Usuarios /\ sessoes[t] = Aberta(u, t)
      BY <1>5
    <2> HIDE DEF u
    <2>2. /\ Aberta(u, t).token = t /\ Aberta(u, t).motivo = ""
          /\ Aberta(u, t).senha = 1 /\ Aberta(u, t).usuario = u
      BY DEF Aberta
    <2> QED
      BY <2>1, <2>2
  <1>7. \A u \in Usuarios : conta[u].senha = 1
    BY DEF IdentityInit
  <1>8. PassosOK /\ NovasOK
    BY <1>7, FreeStep DEF IdentityInit, PassosOK, NovasOK
  <1>9. TokensOK
    <2>1. \A i \in DOMAIN sessoes : /\ sessoes[i].token \in 1..emitidos
                                    /\ sessoes[i].motivo = ""
      BY <1>5, <1>6
    <2>2. DOMAIN cache = {}
      BY DEF IdentityInit
    <2> QED
      BY <2>1, <2>2 DEF TokensOK
  <1>10. OldPasswordsHaveNoSession
    BY <1>6, <1>7 DEF OldPasswordsHaveNoSession
  <1>11. AccessChangeShowsAtOnce
    BY DEF IdentityInit, AccessChangeShowsAtOnce
  <1> QED
    BY <1>1, <1>8, <1>9, <1>10, <1>11 DEF SInv

LEMMA SInvKept ==
    ASSUME IdentityAssumption, SInv, [IdentityNext]_identityVars
    PROVE  SInv'
  <1>1. ASSUME UNCHANGED identityVars PROVE SInv'
    <2>1. AInv'
      BY <1>1, AInvKept DEF SInv
    <2>2. PassosOK' /\ TokensOK' /\ NovasOK'
      BY <1>1 DEF identityVars, SInv, PassosOK, PassoOK, TokensOK, NovasOK, Existe
    <2>3. OldPasswordsHaveNoSession' /\ AccessChangeShowsAtOnce'
      BY <1>1 DEF identityVars, SInv, OldPasswordsHaveNoSession, AccessChangeShowsAtOnce,
                  BuscarPorTokenHash
    <2> QED
      BY <2>1, <2>2, <2>3 DEF SInv
  <1> QED
    BY <1>1, RequestsStay, CommandsStay, OpenSessionStays, GuardarStays, RefreshStays, LogoutStays,
       ExpireStays, TickStays, ClearingStays, CreationStays, ChangeStays, Zenon DEF IdentityNext

\* For any number of users and of requests together, an access that was changed
\* is no longer answered from the cache once the command is over, but for the
\* resolutions under way and the commands that died (manage_user.py,
\* _revogar_sessoes).
THEOREM ChangesOfAccessShow ==
    ASSUME IdentityAssumption PROVE IdentitySpec => []AccessChangeShowsAtOnce
  <1>1. IdentityInit => SInv
    BY SInvInitially
  <1>2. SInv /\ [IdentityNext]_identityVars => SInv'
    BY SInvKept
  <1>3. SInv => AccessChangeShowsAtOnce
    BY DEF SInv
  <1> QED
    BY <1>1, <1>2, <1>3, PTL DEF IdentitySpec

\* A password that was reset leaves no session that was opened with it and can
\* still be used, but for the log-ins under way (manage_user.py,
\* ResetUserPasswordHandler).
THEOREM OldPasswordsEnd ==
    ASSUME IdentityAssumption PROVE IdentitySpec => []OldPasswordsHaveNoSession
  <1>1. IdentityInit => SInv
    BY SInvInitially
  <1>2. SInv /\ [IdentityNext]_identityVars => SInv'
    BY SInvKept
  <1>3. SInv => OldPasswordsHaveNoSession
    BY DEF SInv
  <1> QED
    BY <1>1, <1>2, <1>3, PTL DEF IdentitySpec

-----------------------------------------------------------------------------
(***************************************************************************)
(* The limit on log-ins.  What one e-mail, or one address, has in the      *)
(* window grows only when an attempt passes the count, and then what was   *)
(* recorded is below the limit and what was not runs for some client.      *)
(***************************************************************************)

Vistas ==
    {t \in tentativas \cup {emCurso[c] : c \in Clientes} :
        t.motivo = "invalid_credentials" /\ t.idade <= Janela}

DoEmail(e) == {t \in Vistas : t.email = e}

DoIp(ip) == {t \in Vistas : t.ip = ip}

Poucas(S) == IsFiniteSet(S) /\ Cardinality(S) < MaxTentativas + Cardinality(Clientes)

Tentativa ==
    [id : Nat, email : Emails, ip : Ips, motivo : {"throttled", "invalid_credentials"}, idade : Nat]

TInv ==
    /\ iniciadas \in Nat
    /\ DOMAIN emCurso = Clientes /\ \A c \in Clientes : emCurso[c] \in Tentativa \cup {SemTentativa}
    /\ IsFiniteSet(tentativas)
    /\ tentativas \subseteq Tentativa
    /\ \A e \in Emails : Poucas(DoEmail(e))
    /\ \A ip \in Ips : Poucas(DoIp(ip))

\* A set whose elements all come from those of another one is no larger.
LEMMA CoveredBound ==
    ASSUME NEW V, IsFiniteSet(V), NEW W, NEW f, \A w \in W : \E v \in V : w = f[v]
    PROVE  IsFiniteSet(W) /\ Cardinality(W) <= Cardinality(V)
  <1> DEFINE g == [w \in W |-> CHOOSE v \in V : w = f[v]]
  <1>1. \A w \in W : g[w] \in V /\ w = f[g[w]]
    OBVIOUS
  <1>2. g \in [W -> V]
    BY <1>1
  <1>3. \A a, b \in W : g[a] = g[b] => a = b
    BY <1>1
  <1> HIDE DEF g
  <1>4. g \in Injection(W, V)
    BY <1>2, <1>3 DEF Injection, IsInjective
  <1> QED
    BY <1>4, FS_Injection

LEMMA FewCovered ==
    ASSUME ThrottleAssumption, NEW V, NEW W, NEW f, Poucas(V), \A w \in W : \E v \in V : w = f[v]
    PROVE  Poucas(W)
  <1>1. IsFiniteSet(W) /\ Cardinality(W) <= Cardinality(V)
    BY CoveredBound DEF Poucas
  <1>2. Cardinality(W) \in Nat /\ Cardinality(V) \in Nat /\ Cardinality(Clientes) \in Nat
    BY <1>1, FS_CardinalityType DEF Poucas, ThrottleAssumption
  <1> QED
    BY <1>1, <1>2 DEF Poucas, ThrottleAssumption

LEMMA FewSubset ==
    ASSUME ThrottleAssumption, NEW V, Poucas(V), NEW W \in SUBSET V
    PROVE  Poucas(W)
  <1> DEFINE f == [v \in V |-> v]
  <1>1. \A w \in W : \E v \in V : w = f[v]
    OBVIOUS
  <1> HIDE DEF f
  <1> QED
    BY <1>1, FewCovered

\* Fewer than the limit, and what runs at the same time.
LEMMA FewTogether ==
    ASSUME ThrottleAssumption, NEW R, IsFiniteSet(R), Cardinality(R) < MaxTentativas, NEW f,
           NEW W, \A w \in W : w \in R \/ \E c \in Clientes : w = f[c]
    PROVE  Poucas(W)
  <1> DEFINE X == {w \in W : w \in R}
             Y == {w \in W : \E c \in Clientes : w = f[c]}
  <1>1. IsFiniteSet(X) /\ Cardinality(X) <= Cardinality(R)
    BY FS_Subset
  <1>2. IsFiniteSet(Y) /\ Cardinality(Y) <= Cardinality(Clientes)
    BY CoveredBound DEF ThrottleAssumption
  <1>3. W = X \cup Y
    OBVIOUS
  <1> HIDE DEF X, Y
  <1>4. /\ IsFiniteSet(X \cup Y) /\ IsFiniteSet(X \cap Y)
        /\ Cardinality(X \cup Y) = Cardinality(X) + Cardinality(Y) - Cardinality(X \cap Y)
    BY <1>1, <1>2, FS_Union, FS_Intersection
  <1>5. /\ Cardinality(X) \in Nat /\ Cardinality(Y) \in Nat /\ Cardinality(X \cap Y) \in Nat
        /\ Cardinality(Clientes) \in Nat /\ Cardinality(R) \in Nat
    BY <1>1, <1>2, <1>4, FS_CardinalityType DEF ThrottleAssumption
  <1> QED
    BY <1>1, <1>2, <1>3, <1>4, <1>5 DEF Poucas, ThrottleAssumption

LEMMA NoAttempt ==
    /\ SemTentativa.motivo = "" /\ SemTentativa \notin Tentativa
    /\ \A t : t.motivo = "invalid_credentials" => t # SemTentativa
  <1>1. SemTentativa.motivo = ""
    BY DEF SemTentativa
  <1>2. \A t \in Tentativa : t.motivo # ""
    BY DEF Tentativa
  <1> QED
    BY <1>1, <1>2

\* The attempts that are seen only go.
LEMMA NoMoreAttempts ==
    ASSUME ThrottleAssumption, TInv, Vistas' \subseteq Vistas
    PROVE  /\ \A e \in Emails : Poucas(DoEmail(e))'
           /\ \A ip \in Ips : Poucas(DoIp(ip))'
  <1>1. ASSUME NEW e \in Emails PROVE Poucas(DoEmail(e))'
    <2>1. DoEmail(e)' \subseteq DoEmail(e)
      BY DEF DoEmail
    <2>2. Poucas(DoEmail(e)')
      BY <2>1, FewSubset DEF TInv
    <2> QED
      BY <2>2 DEF Poucas
  <1>2. ASSUME NEW ip \in Ips PROVE Poucas(DoIp(ip))'
    <2>1. DoIp(ip)' \subseteq DoIp(ip)
      BY DEF DoIp
    <2>2. Poucas(DoIp(ip)')
      BY <2>1, FewSubset DEF TInv
    <2> QED
      BY <2>2 DEF Poucas
  <1> QED
    BY <1>1, <1>2

\* An attempt whose password is looked at: its e-mail and its address were
\* below the limit.
LEMMA AttemptKeeps ==
    ASSUME ThrottleAssumption, TInv, NEW c \in Clientes, NEW email \in Emails, NEW ip \in Ips,
           NEW motivo \in {"throttled", "invalid_credentials"}, Tentar(c, email, ip, motivo)
    PROVE  TInv'
  <1> DEFINE r == Registro(iniciadas + 1, email, ip, motivo)
             R == {t \in tentativas : t.email = email \/ t.ip = ip}
  <1>1. /\ emCurso' = [emCurso EXCEPT ![c] = r] /\ tentativas' = tentativas
        /\ motivo = "throttled" <=> Bloqueado(Cardinality(R))
        /\ iniciadas' = iniciadas + 1
    BY DEF Tentar, ContarFalhas
  <1>2. r \in Tentativa /\ r.motivo = motivo /\ r.email = email /\ r.ip = ip
    BY DEF TInv, Tentativa, Registro
  <1> HIDE DEF r
  <1>3. /\ DOMAIN emCurso' = Clientes /\ emCurso'[c] = r
        /\ \A d \in Clientes : d # c => emCurso'[d] = emCurso[d]
    BY <1>1 DEF TInv
  <1>4. \A d \in Clientes : emCurso'[d] \in Tentativa \cup {SemTentativa}
    BY <1>2, <1>3 DEF TInv
  <1>5. \A t \in Vistas' : t \in Vistas \/ (t = r /\ motivo = "invalid_credentials")
    BY <1>1, <1>2, <1>3 DEF Vistas
  <1>6. \A t \in Vistas' : t \in tentativas \/ \E d \in Clientes : t = emCurso'[d]
    BY <1>1 DEF Vistas
  <1>7. CASE motivo # "invalid_credentials"
    <2>1. Vistas' \subseteq Vistas
      BY <1>5, <1>7
    <2> QED
      BY <1>1, <1>3, <1>4, <2>1, NoMoreAttempts DEF TInv
  <1>8. CASE motivo = "invalid_credentials"
    <2>1. IsFiniteSet(R)
      BY FS_Subset DEF TInv
    <2>2. Cardinality(R) < MaxTentativas
      BY <1>1, <1>8, <2>1, FS_CardinalityType DEF Bloqueado, ThrottleAssumption
    <2> HIDE DEF R
    <2>3. ASSUME NEW e \in Emails PROVE Poucas(DoEmail(e))'
      <3>1. CASE e = email
        <4>1. \A t \in DoEmail(e)' : t \in R \/ \E d \in Clientes : t = emCurso'[d]
          BY <1>6, <3>1 DEF DoEmail, R
        <4>2. Poucas(DoEmail(e)')
          BY <2>1, <2>2, <4>1, FewTogether
        <4> QED
          BY <4>2 DEF Poucas
      <3>2. CASE e # email
        <4>1. DoEmail(e)' \subseteq DoEmail(e)
          BY <1>2, <1>5, <3>2 DEF DoEmail
        <4>2. Poucas(DoEmail(e)')
          BY <4>1, FewSubset DEF TInv
        <4> QED
          BY <4>2 DEF Poucas
      <3> QED
        BY <3>1, <3>2
    <2>4. ASSUME NEW i \in Ips PROVE Poucas(DoIp(i))'
      <3>1. CASE i = ip
        <4>1. \A t \in DoIp(i)' : t \in R \/ \E d \in Clientes : t = emCurso'[d]
          BY <1>6, <3>1 DEF DoIp, R
        <4>2. Poucas(DoIp(i)')
          BY <2>1, <2>2, <4>1, FewTogether
        <4> QED
          BY <4>2 DEF Poucas
      <3>2. CASE i # ip
        <4>1. DoIp(i)' \subseteq DoIp(i)
          BY <1>2, <1>5, <3>2 DEF DoIp
        <4>2. Poucas(DoIp(i)')
          BY <4>1, FewSubset DEF TInv
        <4> QED
          BY <4>2 DEF Poucas
      <3> QED
        BY <3>1, <3>2
    <2> QED
      BY <1>1, <1>3, <1>4, <2>3, <2>4 DEF TInv
  <1> QED
    BY <1>7, <1>8

LEMMA RecordKeeps ==
    ASSUME ThrottleAssumption, TInv, NEW c \in Clientes, RegistrarFalha(c)
    PROVE  TInv'
  <1> DEFINE r == emCurso[c]
  <1>1. /\ r # SemTentativa /\ emCurso' = [emCurso EXCEPT ![c] = SemTentativa]
        /\ tentativas' = tentativas \cup (IF r.idade <= Janela THEN {r} ELSE {})
        /\ iniciadas' = iniciadas
    BY DEF RegistrarFalha
  <1>2. r \in Tentativa
    BY <1>1 DEF TInv
  <1> HIDE DEF r
  <1>3. /\ DOMAIN emCurso' = Clientes /\ emCurso'[c] = SemTentativa
        /\ \A d \in Clientes : d # c => emCurso'[d] = emCurso[d]
    BY <1>1 DEF TInv
  <1>4. IsFiniteSet(tentativas')
    <2>1. tentativas' = tentativas \/ tentativas' = tentativas \cup {r}
      BY <1>1
    <2> QED
      BY <2>1, FS_AddElement DEF TInv
  <1>5. tentativas' \subseteq Tentativa
    BY <1>1, <1>2 DEF TInv
  <1>6. \A d \in Clientes : emCurso'[d] \in Tentativa \cup {SemTentativa}
    BY <1>3 DEF TInv
  <1>7. Vistas' \subseteq Vistas
    <2> SUFFICES ASSUME NEW t \in Vistas' PROVE t \in Vistas
      OBVIOUS
    <2>1. t.motivo = "invalid_credentials" /\ t.idade <= Janela
      BY DEF Vistas
    <2>2. t \in tentativas \/ t = r \/ t = SemTentativa \/ \E d \in Clientes : t = emCurso[d]
      BY <1>1, <1>3 DEF Vistas
    <2>3. t # SemTentativa
      BY <2>1, NoAttempt
    <2>4. t \in tentativas \cup {emCurso[d] : d \in Clientes}
      BY <2>2, <2>3 DEF r
    <2> QED
      BY <2>1, <2>4 DEF Vistas
  <1> QED
    BY <1>1, <1>3, <1>4, <1>5, <1>6, <1>7, NoMoreAttempts DEF TInv

Envelhecida == [t \in Vistas |-> [t EXCEPT !.idade = @ + 1]]

LEMMA AgeKeeps ==
    ASSUME ThrottleAssumption, TInv, Envelhece
    PROVE  TInv'
  <1>1. ASSUME NEW t \in Tentativa
        PROVE  LET u == [t EXCEPT !.idade = @ + 1]
               IN  /\ u \in Tentativa /\ t.idade \in Nat /\ u.idade = t.idade + 1
                   /\ u.motivo = t.motivo /\ u.email = t.email /\ u.ip = t.ip
    BY DEF Tentativa
  <1>2. /\ tentativas' = {[t EXCEPT !.idade = @ + 1] : t \in {x \in tentativas : x.idade < Janela}}
        /\ emCurso' = [c \in Clientes |->
                          IF emCurso[c] = SemTentativa \/ emCurso[c].idade > Janela THEN emCurso[c]
                          ELSE [emCurso[c] EXCEPT !.idade = @ + 1]]
        /\ iniciadas' = iniciadas
    BY DEF Envelhece
  <1>3. IsFiniteSet(tentativas')
    <2> DEFINE f == [t \in tentativas |-> [t EXCEPT !.idade = @ + 1]]
    <2>1. \A t \in tentativas' : \E x \in tentativas : t = f[x]
      BY <1>2
    <2> HIDE DEF f
    <2> QED
      BY <2>1, CoveredBound DEF TInv
  <1>4. tentativas' \subseteq Tentativa
    BY <1>1, <1>2 DEF TInv
  <1>5. DOMAIN emCurso' = Clientes /\ \A c \in Clientes : emCurso'[c] \in Tentativa \cup {SemTentativa}
    <2>1. ASSUME NEW c \in Clientes PROVE emCurso'[c] \in Tentativa \cup {SemTentativa}
      BY <1>1, <1>2 DEF TInv
    <2> QED
      BY <1>2, <2>1
  <1>6. ASSUME NEW w \in Vistas'
        PROVE  \E v \in Vistas : w = Envelhecida[v] /\ w.email = v.email /\ w.ip = v.ip
    <2>1. w.motivo = "invalid_credentials" /\ w.idade <= Janela
      BY DEF Vistas
    <2>2. w # SemTentativa
      BY <2>1, NoAttempt
    <2>3. PICK v \in Tentativa : /\ v \in tentativas \cup {emCurso[c] : c \in Clientes}
                                  /\ w = [v EXCEPT !.idade = @ + 1]
      <3>1. CASE w \in tentativas'
        BY <1>2, <3>1 DEF TInv
      <3>2. ASSUME NEW c \in Clientes, w = emCurso'[c]
            PROVE  emCurso[c] \in Tentativa /\ w = [emCurso[c] EXCEPT !.idade = @ + 1]
        <4>1. \/ w = emCurso[c] /\ (emCurso[c] = SemTentativa \/ emCurso[c].idade > Janela)
              \/ w = [emCurso[c] EXCEPT !.idade = @ + 1] /\ emCurso[c] # SemTentativa
          BY <1>2, <3>2
        <4>2. w = emCurso[c] => w.idade \in Nat /\ ~(w.idade > Janela)
          BY <2>1, <2>2 DEF TInv, Tentativa, ThrottleAssumption
        <4> QED
          BY <2>2, <4>1, <4>2 DEF TInv
      <3> QED
        BY <3>1, <3>2 DEF Vistas
    <2>5. /\ v.motivo = w.motivo /\ v.email = w.email /\ v.ip = w.ip
          /\ v.idade \in Nat /\ w.idade = v.idade + 1
      BY <1>1, <2>3
    <2>6. v \in Vistas
      BY <2>1, <2>3, <2>5 DEF Vistas, ThrottleAssumption
    <2> QED
      BY <2>3, <2>5, <2>6 DEF Envelhecida
  <1>7. ASSUME NEW e \in Emails PROVE Poucas(DoEmail(e))'
    <2>1. \A w \in DoEmail(e)' : \E v \in DoEmail(e) : w = Envelhecida[v]
      BY <1>6 DEF DoEmail
    <2>2. Poucas(DoEmail(e)')
      BY <2>1, FewCovered DEF TInv
    <2> QED
      BY <2>2 DEF Poucas
  <1>8. ASSUME NEW ip \in Ips PROVE Poucas(DoIp(ip))'
    <2>1. \A w \in DoIp(ip)' : \E v \in DoIp(ip) : w = Envelhecida[v]
      BY <1>6 DEF DoIp
    <2>2. Poucas(DoIp(ip)')
      BY <2>1, FewCovered DEF TInv
    <2> QED
      BY <2>2 DEF Poucas
  <1> QED
    BY <1>2, <1>3, <1>4, <1>5, <1>7, <1>8 DEF TInv

\* For any number of clients, e-mails and addresses, the passwords looked at in
\* one window are at most the limit and what runs at the same time
\* (login_throttle_policy.py, contar_falhas).
THEOREM GuessesAreBounded == ASSUME ThrottleAssumption PROVE ThrottleSpec => []GuessesPerWindow
  <1>1. ThrottleInit => TInv
    <2> SUFFICES ASSUME ThrottleInit PROVE TInv
      OBVIOUS
    <2>1. Vistas = {}
      BY NoAttempt DEF ThrottleInit, Vistas
    <2>2. IsFiniteSet({}) /\ Cardinality({}) = 0
      BY FS_EmptySet
    <2>3. Poucas({})
      BY <2>2, FS_CardinalityType DEF Poucas, ThrottleAssumption
    <2>4. \A x : DoEmail(x) = {} /\ DoIp(x) = {}
      BY <2>1 DEF DoEmail, DoIp
    <2> QED
      BY <2>2, <2>3, <2>4 DEF ThrottleInit, TInv
  <1>2. TInv /\ [ThrottleNext]_throttleVars => TInv'
    <2> SUFFICES ASSUME TInv, [ThrottleNext]_throttleVars PROVE TInv'
      OBVIOUS
    <2>1. CASE UNCHANGED throttleVars
      BY <2>1 DEF throttleVars, TInv, Poucas, DoEmail, DoIp, Vistas
    <2> QED
      BY <2>1, AttemptKeeps, RecordKeeps, AgeKeeps DEF ThrottleNext
  <1>3. TInv => GuessesPerWindow
    BY DEF TInv, Poucas, DoEmail, DoIp, Vistas, GuessesPerWindow
  <1> QED
    BY <1>1, <1>2, <1>3, PTL DEF ThrottleSpec

=============================================================================
