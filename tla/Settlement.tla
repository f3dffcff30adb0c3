----------------------------- MODULE Settlement -----------------------------
(***************************************************************************)
(* What the two-phase payment flow promises, without requests, locks,      *)
(* events or jobs: a payment is rejected at once or its funds are          *)
(* reserved; reserved funds are released to the recipient by one credit of *)
(* exactly the amount, or they go back to the sender.                      *)
(***************************************************************************)
EXTENDS Integers

CONSTANTS
    Payments,       \* the payments that can be made
    Accounts,
    MaxAmount,
    Confirmations,  \* the confirmations that can release a payment
    None            \* no order

VARIABLES
    order,   \* what each payment says: who pays whom how much
    stage,   \* how far each payment is
    credits  \* the credits that have been made for each payment

vars == <<order, stage, credits>>

Orders == {o \in [from : Accounts, to : Accounts, amount : 1 .. MaxAmount] : o.from # o.to}

Init ==
    /\ order = [p \in Payments |-> None]
    /\ stage = [p \in Payments |-> "none"]
    /\ credits = [p \in Payments |-> {}]

Become(p, s) == stage' = [stage EXCEPT ![p] = s]

\* The payment is made: its funds are reserved, or the balance is too small.
make(p) ==
    /\ stage[p] = "none"
    /\ Become(p, "PENDING") \/ Become(p, "FAILED")
    /\ \E o \in Orders : order' = [order EXCEPT ![p] = o]
    /\ UNCHANGED credits

\* One notice makes one credit, for what the order says.
release(p, w) ==
    /\ stage[p] = "PENDING"
    /\ \A q \in Payments : \A c \in credits[q] : c.by # w
    /\ credits' = [credits EXCEPT ![p] = @ \cup {[by |-> w, order |-> order[p]]}]
    /\ Become(p, "COMPLETED")
    /\ UNCHANGED order

refund(p) ==
    /\ stage[p] = "PENDING"
    /\ Become(p, "FAILED")
    /\ UNCHANGED <<order, credits>>

Next ==
    \E p \in Payments :
        \/ make(p)
        \/ refund(p)
        \/ \E w \in Confirmations : release(p, w)

Spec == Init /\ [][Next]_vars

\* Funds are released exactly once: a completed payment has one credit, that
\* of its order, and no other payment has any.
ReleasedOnce ==
    \A p \in Payments :
        IF stage[p] = "COMPLETED"
        THEN \E w \in Confirmations : credits[p] = {[by |-> w, order |-> order[p]]}
        ELSE credits[p] = {}

==============================================================================
