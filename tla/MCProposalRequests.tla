------------------------ MODULE MCProposalRequests -------------------------
(***************************************************************************)
(* Instances of ProposalRequests for TLC: two requests at a time on one    *)
(* proposal and two receipts.                                              *)
(***************************************************************************)
EXTENDS ProposalRequests, TLC

Symmetry ==
    Permutations(Receipts) \union Permutations(Users) \union Permutations(Requests)

AllHandlers == ProposalFirst \union ReceiptFirst
=============================================================================
