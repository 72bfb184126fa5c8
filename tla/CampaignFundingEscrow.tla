------------------------ MODULE CampaignFundingEscrow ------------------------
(* The ledger of CampaignFunding implements BaseEscrow. *)
EXTENDS CampaignFunding

Escrow == INSTANCE BaseEscrow WITH
    deposit <- Deposited,
    paid <- {c \in Creators : entry[Release(c)] # 0},
    returned <- {c \in Creators : entry[Cancel(c)] # 0},
    unused <- IF entry[Unused] # 0 THEN op[Unused].amount ELSE 0

(* Every step of the service, the provider or an operator moves the ledger  *)
(* as the escrow allows: one movement at a time, each creator's slot once,  *)
(* nothing before the deposit and nothing beyond it.                        *)
ImplementsEscrow == Escrow!Spec
=============================================================================
