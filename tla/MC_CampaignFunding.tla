-------------------------- MODULE MC_CampaignFunding --------------------------
(* Small instances of CampaignFunding for TLC. *)
EXTENDS CampaignFundingEscrow, TLC

\* Creators and calls of process() are interchangeable.
Symmetry == Permutations(Creators) \cup Permutations(Workers)
=============================================================================
