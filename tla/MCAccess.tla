------------------------------ MODULE MCAccess ------------------------------
(***************************************************************************)
(* Requests on a proposal next to who may make them: accounts and          *)
(* sessions, the limit on log-ins and the tables of roles, for TLC.  They  *)
(* share no variable, so that each is explored with the others at rest;    *)
(* q1 and q2 stand for the requests of each, u1 and u2 for its users, who  *)
(* are administrators to the sessions.                                     *)
(***************************************************************************)
EXTENDS MCProposalRequests, Identity, LoginThrottle, AccessCatalog

MCPerfis == {{"ADMIN"}, {"CONSULTOR"}}

\* A role is dropped, another loses one permission and gains one.
MCCatalogos == {"BKO" :> {"p"} @@ "LIDER" :> {"p", "q"}, "LIDER" :> {"q", "r"}}

\* At rest, with nobody logged in.
SemSessoes == IdentityInit /\ sessoes = <<>>

MCInit == RInit /\ IdentityInit /\ ThrottleInit /\ CatalogoInit

MCNext ==
    \/ /\ SemSessoes /\ ThrottleInit /\ CatalogoInit /\ RNext
       /\ UNCHANGED <<identityVars, throttleVars, catalogoVars>>
    \/ /\ RInit /\ ThrottleInit /\ CatalogoInit /\ IdentityNext
       /\ UNCHANGED <<rvars, throttleVars, catalogoVars>>
    \/ /\ RInit /\ SemSessoes /\ CatalogoInit /\ ThrottleNext
       /\ UNCHANGED <<rvars, identityVars, catalogoVars>>
    \/ /\ RInit /\ SemSessoes /\ ThrottleInit /\ CatalogoNext
       /\ UNCHANGED <<rvars, identityVars, throttleVars>>

MCSpec == MCInit /\ [][MCNext]_<<rvars, identityVars, throttleVars, catalogoVars>>
=============================================================================
