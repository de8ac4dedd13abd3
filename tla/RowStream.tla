------------------------------ MODULE RowStream ------------------------------
(***************************************************************************)
(* What an operator that hands rows to the engine promises, however it     *)
(* cuts them into chunks: it sends each item as often as it is wanted and  *)
(* never more, and it ends only when all was sent, or when it was cut      *)
(* short for a reason the operator states.                                 *)
(*                                                                         *)
(* An item is a row for a scan and a pair of rows for a join.  What is     *)
(* wanted is a bag: an index may answer one id more than once, and an      *)
(* operator over it promises to be no better and no worse than its answer. *)
(***************************************************************************)
EXTENDS Naturals

CONSTANT Item

VARIABLES
    wanted,  \* how often the answer holds each item: fixed while the operator runs
    sent,    \* how often each item was sent
    open,    \* the operator has not ended
    cut      \* whether it may end before it has sent every wanted item

Init ==
    /\ wanted \in [Item -> Nat]
    /\ sent = [i \in Item |-> 0]
    /\ open = TRUE

Send ==
    /\ open
    /\ sent' \in [Item -> Nat]
    /\ \A i \in Item : sent[i] <= sent'[i] /\ sent'[i] <= wanted[i]
    /\ UNCHANGED <<wanted, open>>

End ==
    /\ open
    /\ cut \/ sent = wanted
    /\ open' = FALSE
    /\ UNCHANGED <<wanted, sent>>

Next == Send \/ End

Spec == Init /\ [][Next]_<<wanted, sent, open>>
=============================================================================
