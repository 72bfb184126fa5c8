---------------------- MODULE CommissionSettlementBooks ----------------------
(* The tables of CommissionSettlement implement SettlementBooks. *)
EXTENDS CommissionSettlement

OnBooks == [r \in Requests |->
                IF request[r].state = "absent" THEN NoCommand ELSE request[r].command]
DecidedAs == [r \in Requests |-> IF Decided(r) THEN decision[r].command ELSE NoCommand]
ConfirmedRequests == {r \in Requests : request[r].state = "confirmed"}
Statements == {b \in Batches : batch[b].state # "absent"}
ItemRequests == [b \in Batches |-> [l \in Lines |-> item[b][l].request]]
SettledItems == {p \in Batches \X Lines : item[p[1]][p[2]].state = "confirmed"}

Books == INSTANCE SettlementBooks WITH
    stored <- OnBooks,
    decided <- DecidedAs,
    confirmed <- ConfirmedRequests,
    opened <- Statements,
    entry <- ItemRequests,
    settled <- SettledItems

(* However many runs of a batch and decisions overlap, throw, die and       *)
(* repeat, every step moves the books as they allow: one command for one    *)
(* id, decided as it stands there; one id for one item, in a statement that *)
(* was saved before; an item settled by a confirmed request about its line; *)
(* nothing taken back.                                                      *)
ImplementsBooks == Books!Spec
=============================================================================
