------------------------------- MODULE MCBank -------------------------------
(***************************************************************************)
(* Instances of Bank for TLC.                                              *)
(***************************************************************************)
EXTENDS Bank, TLC

CONSTANTS A, B, k1, e1, e2

Deposit(a, n) ==
    [kind |-> "deposit", from |-> a, to |-> None, amount |-> n,
     key |-> None, long |-> FALSE]
Payment(a, b, n, k) ==
    [kind |-> "payment", from |-> a, to |-> b, amount |-> n,
     key |-> k, long |-> FALSE]

NoticesAbout(rows, amounts) ==
    [event : EventIds, type : {"payment.succeeded", "payment.failed"},
     tx : rows, amount : amounts]

OneUnit == [a \in Accounts |-> 1]

\* Every label the models declare, as create_all makes the type, and the
\* labels the migrations leave in a deployed database.
CreatedLabels == Types
MigratedLabels == {"DEPOSIT", "PAYMENT", "transfer_in"}

\* Races on a balance and on a key: a deposit, two payloads under one key, and
\* a webhook that credits the account the others change.
RaceBodies == {Deposit(A, 1), Payment(A, B, 1, k1), Payment(A, B, 2, k1)}
PaymentNotices == NoticesAbout(Requests, {1})
RefundNotices == {n \in PaymentNotices : n.type = "payment.failed"}

\* Bound: what the error of a request leaves is looked at without the webhook.
ErrorWithoutNotice ==
    (\E r \in Requests : answer[r].code = "error") =>
        \A w \in Deliveries : note[w] = None

\* A payment, or one that is refused or whose amount does not fit its column,
\* and what the gateway may say of it: both outcomes, twice under one event_id,
\* also after its event was retired, or under two, and a wrong amount.
Huge == Payment(A, B, MaxNumeric + 1, k1)
SettlementBodies ==
    {Payment(A, B, 1, k1), Payment(A, A, 1, k1), Payment(A, None, 1, k1), Huge}
SettlementNotices ==
    PaymentNotices
        \cup {n \in NoticesAbout(Requests, {2}) : n.type = "payment.succeeded"}
SettlementSymmetry ==
    Permutations(Deliveries) \cup Permutations(EventIds) \cup Permutations(Jobs)

\* What must come to an end: a payment each way, and a notice about one of them,
\* the same one in every behaviour as the two are alike, or about none.
LiveBodies == {Payment(A, B, 1, k1), Payment(B, A, 1, k1)}
LiveNotices == NoticesAbout({CHOOSE r \in Requests : TRUE, None}, {1})

\* The smallest instances of what the code does not do.
DepositBodies == {Deposit(A, 1)}
OnePayment == {Payment(A, B, 1, k1)}
HugeBodies == {Huge}
LongBodies == {[b EXCEPT !.long = TRUE] : b \in OnePayment}
NoNotices == {}

SessionSymmetry == Permutations(Requests) \cup Permutations(Deliveries)
==============================================================================
