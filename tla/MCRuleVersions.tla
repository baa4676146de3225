--------------------------- MODULE MCRuleVersions ---------------------------
(***************************************************************************)
(* The settlements of a week next to what they rest on, the versions of a  *)
(* rule and the teams, for TLC.  The three share no variable, so that each *)
(* is explored with the others at rest.                                    *)
(***************************************************************************)
EXTENDS MCCommissionSettlements, RuleVersions, MCOrganization

\* Two people, two requests: the same values stand for both.
MCSymmetry == Permutations(Users)

SemRegras == RulesInit /\ especie = (CHOOSE e \in Especies : TRUE)

MCInit == Init /\ RulesInit /\ OrganizationInit

MCNext ==
    \/ SemRegras /\ OrganizationInit /\ Next /\ UNCHANGED <<regrasVars, organizationVars>>
    \/ Init /\ OrganizationInit /\ RulesNext /\ UNCHANGED <<vars, organizationVars>>
    \/ Init /\ SemRegras /\ OrganizationNext /\ UNCHANGED <<vars, regrasVars>>

MCSpec == MCInit /\ [][MCNext]_<<vars, regrasVars, organizationVars>>
=============================================================================
