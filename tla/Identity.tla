------------------------------ MODULE Identity ------------------------------
(***************************************************************************)
(* Sessions, the cache that resolves them, and the administration of the   *)
(* accounts they belong to.                                                *)
(*                                                                         *)
(* A session lives in MySQL under the hash of its token; Redis keeps, for  *)
(* a short while, the user a token was resolved to.  A request resolves    *)
(* its token through the cache and may then change an account, as the user *)
(* it was resolved to.  A command is a transaction: its reads come first,  *)
(* its writes become visible together at the commit, and the cache is      *)
(* outside of it.  Log-out and rotation look the session up and drop its   *)
(* cache entry in one step here: what comes between can only add an entry  *)
(* that the deletion removes.                                              *)
(***************************************************************************)
EXTENDS Integers, Sequences, FiniteSets, Functions, PermissionCatalog

CONSTANTS
    Usuarios,
    Administradores,  \* those who start as administrators; the others have no account yet
    Perfis,           \* the sets of roles that are given out
    Processos,        \* requests in flight
    CacheTtl,         \* life of a cache entry, in ticks
    MaxPedidos,       \* bound: requests ever made
    MaxTokens,        \* bound: tokens ever issued
    MaxSenhas         \* bound: passwords an account ever has

ASSUME IdentityAssumption ==
    /\ Perfis \subseteq SUBSET DOMAIN PAPEIS \ {{}} /\ {{"ADMIN"}, {"CONSULTOR"}} \subseteq Perfis
    /\ IsFiniteSet(Usuarios) /\ Administradores \subseteq Usuarios /\ Administradores # {}
    /\ CacheTtl \in Nat \ {0} /\ MaxPedidos \in Nat /\ MaxTokens \in Nat /\ MaxSenhas \in Nat \ {0}

Tokens == 1..MaxTokens

VARIABLES
    conta,          \* users: active, roles ({}: no account), version of the password
    sessoes,        \* rows of sessions, in the order of their ids
    emitidos,       \* tokens generated so far
    cache,          \* token -> the user it was resolved to, and the age of the entry
    mortos,         \* history: tokens that stopped being valid
    semLimpeza,     \* history: revoked tokens whose cache entry nobody was left to drop
    semRespaldo,    \* history: a command committed for somebody no longer an administrator
    pedidos,        \* requests
    feitos          \* how many were made

identityVars == <<conta, sessoes, emitidos, cache, mortos, semLimpeza, semRespaldo,
          pedidos, feitos>>

Livre == [passo |-> "livre"]

\* The rows, and the entries of the cache.
Conta == [ativa : BOOLEAN, papeis : SUBSET DOMAIN PAPEIS, senha : Nat]

Sessao ==
    [usuario : Usuarios, token : Nat, motivo : {"", "logout", "acesso"}, expirada : BOOLEAN,
     senha : Nat, tardia : BOOLEAN]

Entrada == [usuario : Usuarios, papeis : SUBSET DOMAIN PAPEIS, idade : Nat, tardia : BOOLEAN]

EstaViva(s) == s.motivo = "" /\ ~s.expirada

\* The session under a token, if there is one.
BuscarPorTokenHash(t) == {i \in DOMAIN sessoes : sessoes[i].token = t}

SessoesDo(u) == {i \in DOMAIN sessoes : sessoes[i].usuario = u /\ sessoes[i].motivo = ""}

TokenHashesVivos(u) == {sessoes[i].token : i \in SessoesDo(u)}

Sem(f, S) == Restrict(f, DOMAIN f \ S)

\* Tokens that stop being valid now.
Matar(S) == mortos' = mortos \cup S

Segue(p, r) == pedidos' = [pedidos EXCEPT ![p] = r] /\ UNCHANGED feitos

\* A new request.
Chega(p) == pedidos[p] = Livre /\ feitos < MaxPedidos

Entra(p, r) == pedidos' = [pedidos EXCEPT ![p] = r] /\ feitos' = feitos + 1

\* _exigir
Existe(u) == conta[u].papeis # {}

Administra(u) == conta[u].ativa /\ "users:write" \in PermissoesDe(conta[u].papeis)

-----------------------------------------------------------------------------
\* Log-in: the password is checked against the user as read, and the session
\* is committed later.

Authenticate(p, u) ==
    /\ Chega(p) /\ emitidos < MaxTokens
    /\ conta[u].ativa
    /\ Entra(p, [passo |-> "entrando", usuario |-> u, senha |-> conta[u].senha])
    /\ UNCHANGED <<conta, sessoes, emitidos, cache, mortos, semLimpeza, semRespaldo>>

OpenSession(p) ==
    LET pedido == pedidos[p]
    IN  /\ pedido.passo = "entrando" /\ emitidos < MaxTokens
        /\ emitidos' = emitidos + 1
        /\ sessoes' = Append(sessoes,
               [usuario |-> pedido.usuario, token |-> emitidos + 1, motivo |-> "",
                expirada |-> FALSE, senha |-> pedido.senha,
                tardia |-> pedido.senha # conta[pedido.usuario].senha])
        /\ Segue(p, Livre)
        /\ UNCHANGED <<conta, cache, mortos, semLimpeza, semRespaldo>>

-----------------------------------------------------------------------------
\* Resolution of a token, in every authenticated request.

\* A hit leaves the entry as it is.
ResolveHit(p, t) ==
    /\ Chega(p) /\ t \in DOMAIN cache
    /\ Entra(p, [passo |-> "aceito", usuario |-> cache[t].usuario, papeis |-> cache[t].papeis])
    /\ UNCHANGED <<conta, sessoes, emitidos, cache, mortos, semLimpeza, semRespaldo>>

ResolveMiss(p, t) ==
    /\ Chega(p) /\ t \notin DOMAIN cache
    /\ \E i \in BuscarPorTokenHash(t) :
           /\ EstaViva(sessoes[i])
           /\ Entra(p, [passo |-> "lendo", token |-> t, usuario |-> sessoes[i].usuario])
    /\ UNCHANGED <<conta, sessoes, emitidos, cache, mortos, semLimpeza, semRespaldo>>

ReadUser(p) ==
    LET pedido == pedidos[p]
    IN  /\ pedido.passo = "lendo"
        /\ Segue(p, IF conta[pedido.usuario].ativa
                    THEN [passo |-> "guardando", token |-> pedido.token,
                          usuario |-> pedido.usuario, papeis |-> conta[pedido.usuario].papeis]
                    ELSE Livre)
        /\ UNCHANGED <<conta, sessoes, emitidos, cache, mortos, semLimpeza, semRespaldo>>

Guardar(p) ==
    LET pedido == pedidos[p]
    IN  /\ pedido.passo = "guardando"
        /\ cache' = [t \in DOMAIN cache \cup {pedido.token} |->
                        IF t = pedido.token
                        THEN [usuario |-> pedido.usuario, papeis |-> pedido.papeis, idade |-> 0,
                              tardia |-> t \in mortos]
                        ELSE cache[t]]
        /\ Segue(p, [passo |-> "aceito", usuario |-> pedido.usuario, papeis |-> pedido.papeis])
        /\ UNCHANGED <<conta, sessoes, emitidos, mortos, semLimpeza, semRespaldo>>

\* The request was to something else, or was not allowed.
Respond(p) ==
    /\ pedidos[p].passo = "aceito" /\ Segue(p, Livre)
    /\ UNCHANGED <<conta, sessoes, emitidos, cache, mortos, semLimpeza, semRespaldo>>

-----------------------------------------------------------------------------
\* Rotation and log-out drop the cache entry before they commit.

\* A session that is no longer alive is refused.
BeginRefresh(p, t) ==
    /\ Chega(p) /\ emitidos < MaxTokens
    /\ \E i \in BuscarPorTokenHash(t) :
           Entra(p, IF EstaViva(sessoes[i]) THEN [passo |-> "girando", sessao |-> i] ELSE Livre)
    /\ cache' = Sem(cache, {t})
    /\ UNCHANGED <<conta, sessoes, emitidos, mortos, semLimpeza, semRespaldo>>

\* By id: another rotation, or a revocation, may have come first.
Refresh(p) ==
    LET i == pedidos[p].sessao
    IN  /\ pedidos[p].passo = "girando" /\ emitidos < MaxTokens
        /\ emitidos' = emitidos + 1
        /\ sessoes' = [sessoes EXCEPT ![i].token = emitidos + 1]
        /\ Matar({sessoes[i].token} \cup IF EstaViva(sessoes[i]) THEN {} ELSE {emitidos + 1})
        /\ Segue(p, Livre)
        /\ UNCHANGED <<conta, cache, semLimpeza, semRespaldo>>

BeginLogout(p, t) ==
    /\ Chega(p)
    /\ \E i \in BuscarPorTokenHash(t) : Entra(p, [passo |-> "saindo", sessao |-> i])
    /\ cache' = Sem(cache, {t})
    /\ UNCHANGED <<conta, sessoes, emitidos, mortos, semLimpeza, semRespaldo>>

Logout(p) ==
    LET i == pedidos[p].sessao
    IN  /\ pedidos[p].passo = "saindo"
        /\ sessoes' = [sessoes EXCEPT ![i].motivo = IF @ = "" THEN "logout" ELSE @]
        /\ Matar({sessoes[i].token})
        /\ Segue(p, Livre)
        /\ UNCHANGED <<conta, emitidos, cache, semLimpeza, semRespaldo>>

-----------------------------------------------------------------------------
\* Administration.  A change names the new roles ({}: as they are), the new
\* state of the account ("mesma": as it is) and whether the password is new.

\* Mutant: nobody compares the account with the actor's.
SemTravaPropria(p, alvo, papeis, situacao) == TRUE

\* Nobody takes its own roles or deactivates itself.
AutoAlteracaoPermitida(p, alvo, papeis, situacao) ==
    alvo = pedidos[p].usuario => papeis = {} /\ situacao # "inativa"

\* Mutant: the cache is cleared with the reads.
LimpezaNaLeitura(hashes) == [antes |-> hashes, depois |-> {}]

\* The cache entries to drop before and after the commit.
Limpeza(hashes) == [antes |-> {}, depois |-> hashes]

Begin(p, alvo, papeis, situacao, senha, revoga) ==
    LET hashes == IF revoga THEN TokenHashesVivos(alvo) ELSE {}
    IN  /\ pedidos[p].passo = "aceito" /\ "users:write" \in PermissoesDe(pedidos[p].papeis)
        /\ Existe(alvo) /\ AutoAlteracaoPermitida(p, alvo, papeis, situacao)
        /\ cache' = Sem(cache, Limpeza(hashes).antes)
        /\ Segue(p, [passo |-> "gravando", ator |-> pedidos[p].usuario, alvo |-> alvo,
                     papeis |-> papeis, situacao |-> situacao, senha |-> senha,
                     revoga |-> revoga, hashes |-> hashes])
        /\ UNCHANGED <<conta, sessoes, emitidos, mortos, semLimpeza, semRespaldo>>

\* The e-mail is a unique key: of two creations one commits.
CreateUser(p, u, papeis) ==
    /\ pedidos[p].passo = "aceito"
    /\ {"users:write", "collaborators:write"} \subseteq PermissoesDe(pedidos[p].papeis)
    /\ ~Existe(u)
    /\ conta' = [conta EXCEPT ![u] = [ativa |-> TRUE, papeis |-> papeis, senha |-> 1]]
    /\ Segue(p, Livre)
    /\ UNCHANGED <<sessoes, emitidos, cache, mortos, semLimpeza, semRespaldo>>

Muda(u, situacao) == situacao # "mesma" /\ conta[u].ativa # (situacao = "ativa")

Desativa(u, situacao) == Muda(u, situacao) /\ situacao = "inativa"

UpdateUser(p, u, papeis, situacao) ==
    LET mudam == papeis # conta[u].papeis
    IN  Begin(p, u, IF mudam THEN papeis ELSE {}, IF Muda(u, situacao) THEN situacao ELSE "mesma",
              FALSE, (papeis # {} /\ mudam) \/ Desativa(u, situacao))

SetUserRoles(p, u, papeis) == Begin(p, u, papeis, "mesma", FALSE, TRUE)

SetUserStatus(p, u, situacao) ==
    Muda(u, situacao) /\ Begin(p, u, {}, situacao, FALSE, situacao = "inativa")

ResetUserPassword(p, u) == conta[u].senha < MaxSenhas /\ Begin(p, u, {}, "mesma", TRUE, TRUE)

\* Mutant: only the sessions that were listed are revoked.
RevogarListadas(pedido) == {i \in SessoesDo(pedido.alvo) : sessoes[i].token \in pedido.hashes}

\* The UPDATE revokes the sessions alive when it runs.
RevogarDoUsuario(pedido) == IF pedido.revoga THEN SessoesDo(pedido.alvo) ELSE {}

Gravar(p) ==
    LET pedido == pedidos[p]
        S == RevogarDoUsuario(pedido)
        tokens == {sessoes[i].token : i \in S}
        limpar == Limpeza(pedido.hashes).depois
    IN  /\ pedido.passo = "gravando"
        /\ conta' = [conta EXCEPT ![pedido.alvo] =
               [ativa |-> IF pedido.situacao = "mesma" THEN @.ativa ELSE pedido.situacao = "ativa",
                papeis |-> IF pedido.papeis = {} THEN @.papeis ELSE pedido.papeis,
                senha |-> IF pedido.senha /\ @.senha < MaxSenhas THEN @.senha + 1 ELSE @.senha]]
        /\ sessoes' = [i \in DOMAIN sessoes |->
                          IF i \in S THEN [sessoes[i] EXCEPT !.motivo = "acesso"] ELSE sessoes[i]]
        /\ Matar(tokens)
        /\ semLimpeza' = semLimpeza \cup (tokens \ pedido.hashes)
        /\ semRespaldo' = (semRespaldo \/ ~Administra(pedido.ator))
        /\ Segue(p, IF limpar = {} THEN Livre ELSE [passo |-> "limpando", hashes |-> limpar])
        /\ UNCHANGED <<emitidos, cache>>

LimparCache(p, t) ==
    LET resto == pedidos[p].hashes \ {t}
    IN  /\ pedidos[p].passo = "limpando" /\ t \in pedidos[p].hashes
        /\ cache' = Sem(cache, {t})
        /\ Segue(p, IF resto = {} THEN Livre ELSE [passo |-> "limpando", hashes |-> resto])
        /\ UNCHANGED <<conta, sessoes, emitidos, mortos, semLimpeza, semRespaldo>>

-----------------------------------------------------------------------------
\* A request is dropped: its transaction rolls back, the cache stays.
Interromper(p) ==
    /\ pedidos[p].passo \notin {"livre", "aceito"}
    /\ semLimpeza' = IF pedidos[p].passo = "limpando" THEN semLimpeza \cup pedidos[p].hashes
                                                      ELSE semLimpeza
    /\ Segue(p, Livre)
    /\ UNCHANGED <<conta, sessoes, emitidos, cache, mortos, semRespaldo>>

Expire(i) ==
    /\ EstaViva(sessoes[i])
    /\ sessoes' = [sessoes EXCEPT ![i].expirada = TRUE]
    /\ Matar({sessoes[i].token})
    /\ UNCHANGED <<conta, emitidos, cache, semLimpeza, semRespaldo, pedidos, feitos>>

Tick ==
    LET ficam == {t \in DOMAIN cache : cache[t].idade + 1 < CacheTtl}
    IN  /\ cache' = [t \in ficam |-> [cache[t] EXCEPT !.idade = @ + 1]]
        /\ cache' # cache
        /\ UNCHANGED <<conta, sessoes, emitidos, mortos, semLimpeza, semRespaldo, pedidos, feitos>>

Aberta(u, t) ==
    [usuario |-> u, token |-> t, motivo |-> "", expirada |-> FALSE, senha |-> 1, tardia |-> FALSE]

\* Some of the administrators are logged in.
IdentityInit ==
    /\ conta = [u \in Usuarios |->
                   IF u \in Administradores THEN [ativa |-> TRUE, papeis |-> {"ADMIN"}, senha |-> 1]
                                           ELSE [ativa |-> FALSE, papeis |-> {}, senha |-> 1]]
    /\ \E abertas \in SUBSET Administradores :
           /\ emitidos = Cardinality(abertas) /\ emitidos <= MaxTokens
           /\ \E quem \in [1..emitidos -> abertas] :
                  /\ Range(quem) = abertas
                  /\ sessoes = [t \in 1..emitidos |-> Aberta(quem[t], t)]
    /\ cache = <<>> /\ mortos = {}
    /\ semLimpeza = {} /\ semRespaldo = FALSE
    /\ pedidos = [p \in Processos |-> Livre] /\ feitos = 0

Situacoes == {"ativa", "inativa", "mesma"}

IdentityNext ==
    \/ \E p \in Processos :
           \/ \E u \in Usuarios : Authenticate(p, u) \/ ResetUserPassword(p, u)
           \/ OpenSession(p) \/ ReadUser(p) \/ Guardar(p) \/ Respond(p)
           \/ Refresh(p) \/ Logout(p) \/ Gravar(p) \/ Interromper(p)
           \/ \E t \in Tokens :
                  \/ ResolveHit(p, t) \/ ResolveMiss(p, t)
                  \/ BeginRefresh(p, t) \/ BeginLogout(p, t) \/ LimparCache(p, t)
           \/ \E u \in Usuarios, papeis \in Perfis :
                  SetUserRoles(p, u, papeis) \/ CreateUser(p, u, papeis)
           \/ \E u \in Usuarios, s \in {"ativa", "inativa"} : SetUserStatus(p, u, s)
           \/ \E u \in Usuarios, papeis \in Perfis \cup {{}}, s \in Situacoes :
                  UpdateUser(p, u, papeis, s)
    \/ \E i \in DOMAIN sessoes : Expire(i)
    \/ Tick

IdentitySpec == IdentityInit /\ [][IdentityNext]_identityVars

-----------------------------------------------------------------------------
\* Properties.

IdentityTypeOK ==
    /\ conta \in [Usuarios -> Conta]
    /\ emitidos \in Nat
    /\ sessoes \in Seq(Sessao)
    /\ \A t \in DOMAIN cache : cache[t] \in Entrada

\* A change of access shows at once: an entry of a session it revoked is left
\* only while the command still clears the cache, when the resolution that
\* wrote the entry was already under way, or when the command died or did not
\* know the token (manage_user.py, _revogar_sessoes).
AccessChangeShowsAtOnce ==
    \A t \in DOMAIN cache :
        (\E i \in BuscarPorTokenHash(t) : sessoes[i].motivo = "acesso")
        => \/ cache[t].tardia \/ t \in semLimpeza
           \/ \E p \in Processos : pedidos[p].passo = "limpando" /\ t \in pedidos[p].hashes

\* A session that can still be used was opened with the password of today,
\* unless its log-in was under way when the password was reset
\* (manage_user.py, ResetUserPasswordHandler).
OldPasswordsHaveNoSession ==
    \A i \in DOMAIN sessoes :
        EstaViva(sessoes[i]) /\ ~sessoes[i].tardia
            => sessoes[i].senha = conta[sessoes[i].usuario].senha

\* Somebody can still administer the accounts, unless a command was committed
\* for an actor that was no longer an administrator by then (manage_user.py:7,
\* the two locks against a system left without an owner).
SomebodyAdministers == semRespaldo \/ \E u \in Usuarios : Administra(u)
=============================================================================
