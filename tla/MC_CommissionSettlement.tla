----------------------- MODULE MC_CommissionSettlement -----------------------
(***************************************************************************)
(* Small instances of CommissionSettlement for TLC.  Two lines and two     *)
(* calls at once are too many for all the panel can do, so a behaviour of  *)
(* Instances is in one of four corners, chosen at the start:               *)
(*   races       two calls on one line, its panel, and a second account;   *)
(*   disqualify  one call at a time on two lines, with every revision, and *)
(*   reconcile   decisions of that action from the panel;                  *)
(*   statements  two runs of one statement over two lines, and no panel.   *)
(***************************************************************************)
EXTENDS CommissionSettlementBooks

CONSTANTS First, Other      \* the lines

VARIABLE corner

\* Request ids and batch ids are random, concurrent calls and accounts alike.
Symmetry == Permutations(Requests) \cup Permutations(Calls) \cup Permutations(Batches) \cup Permutations(Accounts)

NoMinimum == [l \in Lines |-> 0]

\* One line's commission reaches the first line's minimum; the other line needs both.
Minimums == [l \in Lines |-> IF l = First THEN 1 ELSE 2]

Busy == {w \in Calls : ctx[w].pc # "idle"}

\* Decisions from the panel begin at "select", with their action.
Panel(actions) == \A w \in Calls : ctx[w].pc = "idle" /\ ctx'[w].pc # "idle" =>
                    ctx'[w].batch # NoBatch \/ ctx'[w].pc = "read" \/ ctx'[w].command.action \in actions

\* A statement over the lines named, or over all that are ready.
Named(selections) == \A w \in Calls : ctx[w].pc = "idle" /\ ctx'[w].batch # NoBatch =>
                        ctx'[w].lines \in selections

\* No preview throws in this step.
Previews == \A w \in Calls, l \in Lines : ~PreviewLine(w, l, FALSE)

Within ==
    \/ /\ corner = "races"
       /\ revision'[Other] = 0 /\ ~held'[First] /\ paid' = paid
       /\ Busy' # {} => revision[First] >= 1
       /\ NoAccount \notin {account, account'}
       /\ account' # account => revision[First] = 1
       /\ Panel({"qualify"}) /\ Named({{First}})
    \/ /\ corner \in {"disqualify", "reconcile"}
       /\ Cardinality(Busy') <= 1
       /\ revision'[Other] <= 1 /\ ~held'[Other]
       /\ Busy' # {} => revision[First] >= 1 /\ revision[Other] = 1
       /\ account' = account
       /\ Panel({corner}) /\ Named({{}})
       /\ Previews
    \/ /\ corner = "statements"
       /\ \A l \in Lines : revision'[l] <= 1 /\ ~held'[l]
       /\ Busy' # {} => \A l \in Lines : revision[l] = 1
       /\ account' = account
       /\ Panel({}) /\ Named({{}})
       /\ Previews /\ \A w \in Calls : ~CallFails(w)

InCorner == Init /\ corner \in {"races", "disqualify", "reconcile", "statements"}

Instances ==
    /\ InCorner
    /\ [][Next /\ Within /\ UNCHANGED corner]_<<vars, corner>>

InNone == Init /\ corner = "none"

\* The whole of it, on bounds small enough, with Fairness.
Everything ==
    /\ InNone
    /\ [][Next /\ UNCHANGED corner]_<<vars, corner>>
    /\ Fairness
=============================================================================
