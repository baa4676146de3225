---------------------- MODULE MCCommissionSettlements ----------------------
(***************************************************************************)
(* Instances of CommissionSettlements for TLC.                             *)
(***************************************************************************)
EXTENDS CommissionSettlements, TLC

Symmetry == Permutations(Beneficiaries) \union Permutations(Users)
=============================================================================
