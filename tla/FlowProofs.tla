----------------------------- MODULE FlowProofs -----------------------------
(***************************************************************************)
(* Where the money goes, proved for every value of the constants of Bank.  *)
(*                                                                         *)
(* The API implements the two-phase flow of Settlement, and so releases    *)
(* the funds of a payment once.  The flow sees a step only through the     *)
(* type, status, parties and amount of the rows, and through the notices   *)
(* of the deliveries that have made a credit.  Most actions leave all of   *)
(* these alone; a deposit adds a row the flow does not see; and four       *)
(* actions are its steps: execute_payment makes a payment, Settle releases *)
(* or refunds one, expire_payment refunds one.                             *)
(*                                                                         *)
(* The balances and the rows that explain them drift apart only through an *)
(* Account object that is stale.  The book of an account is a sum over the *)
(* transactions table; a step changes one row and one balance, and the sum *)
(* over the other rows is the same before and after.  BookInv says that    *)
(* the table is finite and that a payment about to be made has loaded the  *)
(* account it debits.                                                      *)
(***************************************************************************)
EXTENDS BankProofs, FiniteSetTheorems

Proved == INSTANCE SettlementProofs WITH
    Payments <- Requests, MaxAmount <- MaxNumeric, Confirmations <- Deliveries,
    order <- FlowOrder, stage <- FlowStage, credits <- FlowCredits

\* A row of a delivery is a credit, and its notice names a request.
CreditsLinked ==
    \A w \in Deliveries : Exists(w) =>
        txn[w].type = "TRANSFER_IN" /\ note[w].tx \in Requests

\* What the flow sees of row t.
Face(t) == <<txn[t].type, txn[t].status, txn[t].acct, txn[t].rel, txn[t].amount>>

FlowStep == Flow!Next \/ UNCHANGED <<FlowOrder, FlowStage, FlowCredits>>

(***************************************************************************)
(* Steps the flow does not see                                             *)
(***************************************************************************)
\* The flow sees rows by their face and deliveries by their notice.
LEMMA FacesSuffice ==
    ASSUME CreditsLinked,
           \A t \in Rows : Face(t)' = Face(t),
           \A w \in Deliveries : Exists(w) => note'[w] = note[w]
    PROVE  CreditsLinked' /\ FlowStep
<1>1. \A t \in Rows : /\ txn'[t].type = txn[t].type /\ txn'[t].status = txn[t].status
                      /\ txn'[t].acct = txn[t].acct /\ txn'[t].rel = txn[t].rel
                      /\ txn'[t].amount = txn[t].amount
  BY DEF Face
<1>2. \A w \in Deliveries : (Exists(w)' <=> Exists(w)) /\ CreditOf(w)' = CreditOf(w)
  BY <1>1 DEF Exists, CreditOf, Rows
<1>3. \A r \in Requests : CreditsFor(r)' = CreditsFor(r)
  BY <1>2 DEF CreditsFor
<1>4. \A r \in Requests : /\ OrderOf(r)' = OrderOf(r) /\ IsPayment(r)' = IsPayment(r)
                          /\ txn'[r].status = txn[r].status
  BY <1>1 DEF OrderOf, IsPayment, Rows
<1>5. CreditsLinked'
  BY <1>1, <1>2 DEF CreditsLinked, Rows
<1>6. UNCHANGED <<FlowOrder, FlowStage, FlowCredits>>
  BY <1>3, <1>4 DEF FlowOrder, FlowStage, FlowCredits
<1>7. QED
  BY <1>5, <1>6 DEF FlowStep

\* A step that leaves the transactions and the notices alone.
LEMMA TablesSuffice ==
    ASSUME CreditsLinked, UNCHANGED <<txn, note>>
    PROVE  CreditsLinked' /\ FlowStep
BY FacesSuffice DEF Face

(***************************************************************************)
(* Steps of the flow                                                       *)
(***************************************************************************)
\* A payment that appears is made: reserved or rejected.
LEMMA execute_payment_makes ==
    ASSUME IInv, CreditsLinked, NEW r \in Requests, execute_payment(r), note' = note
    PROVE  CreditsLinked' /\ FlowStep
<1> USE Names
<1> DEFINE o == [from |-> body[r].from, to |-> body[r].to, amount |-> body[r].amount]
<1>1. /\ body[r] \in Bodies /\ body[r].to \in Accounts \ {body[r].from}
      /\ txn[r] = NoTransaction /\ pc[r] = "locked"
  BY DEF IInv, RequestOK, execute_payment
<1>2. o \in Flow!Orders
  BY <1>1, BodiesAreValid, MoneyFits DEF Flow!Orders, execute_payment, Fits
<1>3. /\ txn' = [txn EXCEPT ![r] = txn'[r]]
      /\ txn'[r].type = "PAYMENT" /\ txn'[r].status \in {"PENDING", "FAILED"}
      /\ txn'[r].acct = o.from /\ txn'[r].rel = o.to /\ txn'[r].amount = o.amount
  BY DEF IInv, TypeOK, execute_payment
<1>4. \A t \in Rows \ {r} : txn'[t] = txn[t]
  BY <1>3 DEF IInv, TypeOK
<1>5. \A w \in Deliveries : (Exists(w)' <=> Exists(w)) /\ CreditOf(w)' = CreditOf(w)
  BY <1>4 DEF Exists, CreditOf
<1>6. FlowCredits' = FlowCredits
  BY <1>5 DEF FlowCredits, CreditsFor
<1>7. FlowStage[r] = "none"
  BY <1>1 DEF FlowStage, IsPayment, NoTransaction
<1>8. FlowOrder' = [FlowOrder EXCEPT ![r] = o]
  BY <1>3, <1>4 DEF FlowOrder, IsPayment, OrderOf
<1>9. FlowStage' = [FlowStage EXCEPT ![r] = txn'[r].status]
  BY <1>3, <1>4 DEF FlowStage, IsPayment
<1>10. Flow!make(r)
  BY <1>2, <1>3, <1>6, <1>7, <1>8, <1>9 DEF Flow!make, Flow!Become
<1>11. CreditsLinked'
  BY <1>4, <1>5 DEF CreditsLinked
<1>12. QED
  BY <1>10, <1>11 DEF FlowStep, Flow!Next

\* A pending row is a payment, and that of a request.
LEMMA PendingIsPayment ==
    ASSUME IInv, CreditsLinked, NEW t \in Rows, txn[t].status = "PENDING"
    PROVE  /\ t \in Requests /\ IsPayment(t)
           /\ txn[t].rel \in Accounts /\ txn[t].acct \in Accounts
           /\ FlowStage[t] = "PENDING" /\ FlowOrder[t] = OrderOf(t)
<1>1. txn[t].type = "PAYMENT" /\ txn[t].rel \in Accounts
  BY DEF IInv, RowInv
<1>2. t \in Requests
  BY <1>1 DEF CreditsLinked, Exists, Rows
<1>3. txn[t].acct \in Accounts
  BY <1>1 DEF IInv, TypeOK, Transaction, NoTransaction
<1>4. QED
  BY <1>1, <1>2, <1>3 DEF IsPayment, FlowStage, FlowOrder

\* A pending payment whose status becomes FAILED is refunded.
LEMMA FailedIsRefunded ==
    ASSUME IInv, CreditsLinked, NEW t \in Rows, txn[t].status = "PENDING",
           txn' = [txn EXCEPT ![t].status = "FAILED"], note' = note
    PROVE  CreditsLinked' /\ FlowStep
<1>1. /\ t \in Requests /\ IsPayment(t) /\ FlowStage[t] = "PENDING"
  BY PendingIsPayment
<1>2. txn \in [Rows -> Transaction \cup {NoTransaction}]
  BY DEF IInv, TypeOK
<1>3. \A x \in Rows : /\ txn'[x].type = txn[x].type /\ txn'[x].acct = txn[x].acct
                      /\ txn'[x].rel = txn[x].rel /\ txn'[x].amount = txn[x].amount
                      /\ txn'[x].status = IF x = t THEN "FAILED" ELSE txn[x].status
  BY <1>2 DEF Transaction, NoTransaction
<1>4. \A w \in Deliveries : (Exists(w)' <=> Exists(w)) /\ CreditOf(w)' = CreditOf(w)
  BY <1>3 DEF Exists, CreditOf, Rows
<1>5. FlowCredits' = FlowCredits
  BY <1>4 DEF FlowCredits, CreditsFor
<1>6. FlowOrder' = FlowOrder
  BY <1>3 DEF FlowOrder, IsPayment, OrderOf, Rows
<1>7. FlowStage' = [FlowStage EXCEPT ![t] = "FAILED"]
  BY <1>1, <1>3 DEF FlowStage, IsPayment, Rows
<1>8. Flow!refund(t)
  BY <1>1, <1>5, <1>6, <1>7 DEF Flow!refund, Flow!Become
<1>9. CreditsLinked'
  BY <1>3, <1>4 DEF CreditsLinked, Rows
<1>10. QED
  BY <1>1, <1>8, <1>9 DEF FlowStep, Flow!Next

\* A payment that becomes COMPLETED is released by the delivery's credit.
LEMMA process_payment_succeeded_releases ==
    ASSUME IInv, CreditsLinked, NEW w \in Deliveries, process_payment_succeeded(w)
    PROVE  CreditsLinked' /\ FlowStep
<1> USE Names
<1> DEFINE n == note[w]
           t == n.tx
           c == [by |-> w, order |-> OrderOf(t)]
<1>1. /\ t \in Rows /\ txn[t].status = "PENDING" /\ txn[t].amount = n.amount
      /\ txn[w] = NoTransaction /\ n.type = "payment.succeeded"
  BY DEF IInv, DeliveryOK, process_payment_succeeded
<1>2. /\ t \in Requests /\ IsPayment(t) /\ FlowStage[t] = "PENDING"
      /\ FlowOrder[t] = OrderOf(t)
  BY <1>1, PendingIsPayment
<1>3. txn \in [Rows -> Transaction \cup {NoTransaction}]
  BY DEF IInv, TypeOK
<1>4. /\ note' = note /\ t # w
      /\ txn' = [x \in Rows |->
             IF x = t THEN [txn[t] EXCEPT !.status = "COMPLETED"]
             ELSE IF x = w
             THEN [type |-> "TRANSFER_IN", status |-> "COMPLETED",
                   acct |-> txn[t].rel, rel |-> txn[t].acct, amount |-> n.amount,
                   key |-> None, long |-> txn[t].long]
             ELSE txn[x]]
  BY <1>1, <1>2 DEF process_payment_succeeded, Settle, PaidAccount, deliveryVars
<1>5. /\ txn'[t].type = txn[t].type /\ txn'[t].acct = txn[t].acct
      /\ txn'[t].rel = txn[t].rel /\ txn'[t].amount = txn[t].amount
      /\ txn'[t].status = "COMPLETED"
  BY <1>1, <1>3, <1>4 DEF Transaction, NoTransaction
<1>6. /\ \A x \in Rows \ {t, w} : txn'[x] = txn[x]
      /\ txn'[w].type = "TRANSFER_IN" /\ txn'[w].acct = txn[t].rel
      /\ txn'[w].rel = txn[t].acct /\ txn'[w].amount = txn[t].amount
  BY <1>1, <1>4
<1>7. /\ \A v \in Deliveries \ {w} :
           (Exists(v)' <=> Exists(v)) /\ CreditOf(v)' = CreditOf(v)
      /\ ~Exists(w) /\ Exists(w)' /\ CreditOf(w)' = c
  BY <1>1, <1>2, <1>6 DEF Exists, CreditOf, OrderOf, NoTransaction
<1>8. \A q \in Requests : CreditsFor(q)' =
        IF q = t THEN CreditsFor(q) \cup {c} ELSE CreditsFor(q)
  BY <1>4, <1>7 DEF CreditsFor
<1>9. FlowCredits' = [FlowCredits EXCEPT ![t] = @ \cup {c}]
  BY <1>2, <1>8 DEF FlowCredits
<1>10. FlowOrder' = FlowOrder
  BY <1>2, <1>5, <1>6 DEF FlowOrder, IsPayment, OrderOf
<1>11. FlowStage' = [FlowStage EXCEPT ![t] = "COMPLETED"]
  BY <1>2, <1>5, <1>6 DEF FlowStage, IsPayment
<1>12. \A q \in Requests : \A d \in FlowCredits[q] : d.by # w
  BY <1>7 DEF FlowCredits, CreditsFor, CreditOf
<1>13. Flow!release(t, w)
  BY <1>2, <1>9, <1>10, <1>11, <1>12 DEF Flow!release, Flow!Become
<1>14. CreditsLinked'
  BY <1>2, <1>4, <1>6, <1>7 DEF CreditsLinked
<1>15. QED
  BY <1>2, <1>13, <1>14 DEF FlowStep, Flow!Next

(***************************************************************************)
(* Every step                                                              *)
(***************************************************************************)
\* A step of a request makes a payment of the flow, or is none of its steps.
LEMMA RequestKeepsFlow ==
    ASSUME IInv, CreditsLinked, NEW r \in Requests, Request(r)
    PROVE  CreditsLinked' /\ FlowStep
<1> USE Names DEF Request, deliveryVars
<1>1. CASE execute_payment(r)
  BY <1>1, execute_payment_makes
<1>2. CASE execute_deposit(r)
  <2>1. CASE txn' = txn
    BY <2>1, TablesSuffice
  <2>2. CASE txn' # txn
    <3>1. txn[r] = NoTransaction
      BY <1>2 DEF IInv, RequestOK, execute_deposit
    <3>2. /\ txn'[r].type = "DEPOSIT"
          /\ \A t \in Rows \ {r} : txn'[t] = txn[t]
      BY <1>2, <2>2 DEF execute_deposit, IInv, TypeOK
    <3>3. ~IsPayment(r) /\ ~IsPayment(r)'
      BY <3>1, <3>2 DEF IsPayment, NoTransaction
    <3>4. \A w \in Deliveries : (Exists(w)' <=> Exists(w)) /\ CreditOf(w)' = CreditOf(w)
      BY <3>2 DEF Exists, CreditOf
    <3>5. FlowCredits' = FlowCredits
      BY <3>4 DEF FlowCredits, CreditsFor
    <3>6. FlowOrder' = FlowOrder /\ FlowStage' = FlowStage
      BY <3>2, <3>3 DEF FlowOrder, FlowStage, IsPayment, OrderOf
    <3>7. CreditsLinked'
      BY <3>2, <3>4 DEF CreditsLinked
    <3>8. QED
      BY <3>5, <3>6, <3>7 DEF FlowStep
  <2>3. QED
    BY <2>1, <2>2
<1>3. ASSUME ~execute_payment(r), ~execute_deposit(r)
      PROVE  CreditsLinked' /\ FlowStep
  <2>1. txn' = txn
    BY <1>3 DEF RequestStep, HandleRequest, get_current_account, reject_payment,
         reserve_idempotency_key, answer_conflict, lock_sender, payment_overflows,
         abort_request, refresh_payment, finalize_idempotency_key, tables
  <2>2. QED
    BY <2>1, TablesSuffice
<1>4. QED
  BY <1>1, <1>2, <1>3

\* Whatever raises, no money moves by it.
LEMMA AbortMovesNoMoney ==
    ASSUME NEW s \in Sessions, Abort(s)
    PROVE  UNCHANGED <<balance, txn, note>>
<1> USE DEF tables, deliveryVars
<1>1. CASE abort_request(s) /\ UNCHANGED deliveryVars
  BY <1>1 DEF abort_request
<1>2. CASE abort_delivery(s)
  BY <1>2 DEF abort_delivery, refresh_raises, abort_settlement, mark_raises,
     record_raises, EndUncaught
<1>3. CASE end_run(s) /\ UNCHANGED deliveryVars
  BY <1>3 DEF end_run
<1>4. QED
  BY <1>1, <1>2, <1>3 DEF Abort

\* A step of a delivery releases, refunds or is not seen.
LEMMA DeliveryKeepsFlow ==
    ASSUME IInv, CreditsLinked, NEW w \in Deliveries, Delivery(w)
    PROVE  CreditsLinked' /\ FlowStep
<1> USE Names DEF Delivery
<1>1. CASE process_payment_succeeded(w)
  BY <1>1, process_payment_succeeded_releases
<1>2. CASE process_payment_failed(w)
  <2>1. /\ note[w].tx \in Rows /\ txn[note[w].tx].status = "PENDING"
        /\ txn[w] = NoTransaction /\ txn \in [Rows -> Transaction \cup {NoTransaction}]
    BY <1>2 DEF process_payment_failed, IInv, DeliveryOK, TypeOK
  <2>2. /\ txn' = [txn EXCEPT ![note[w].tx].status = "FAILED"]
        /\ note' = note
    BY <1>2, <2>1 DEF process_payment_failed, Settle, deliveryVars
  <2>3. QED
    BY <2>1, <2>2, FailedIsRefunded
<1>3. CASE payment_confirmation(w)
  <2>1. ~Exists(w)
    <3>1. DeliveryOK(w) /\ pc[w] = "idle"
      BY <1>3 DEF payment_confirmation, IInv
    <3>2. QED
      BY <3>1 DEF DeliveryOK, Exists, NoTransaction
  <2>2. txn' = txn
    BY <1>3 DEF payment_confirmation
  <2>3. \A v \in Deliveries \ {w} : note'[v] = note[v]
    BY <1>3 DEF payment_confirmation, IInv, TypeOK
  <2>4. QED
    BY <2>1, <2>2, <2>3, FacesSuffice DEF Face
<1>4. ASSUME ~process_payment_succeeded(w), ~process_payment_failed(w),
             ~payment_confirmation(w)
      PROVE  CreditsLinked' /\ FlowStep
  <2>1. txn' = txn /\ note' = note
    BY <1>4 DEF DeliveryStep, HandleDelivery, handle_webhook_event, schedule_task,
         lock_payment, lock_paid_account, settlement_is_refused, abort_settlement,
         mark_webhook_processed, record_webhook_error, Fail, tables, deliveryVars
  <2>2. QED
    BY <2>1, TablesSuffice
<1>5. QED
  BY <1>1, <1>2, <1>3, <1>4

\* A step of a job refunds or is not seen.
LEMMA JobKeepsFlow ==
    ASSUME IInv, CreditsLinked, NEW j \in Jobs, Job(j)
    PROVE  CreditsLinked' /\ FlowStep
<1> USE Names DEF Job, deliveryVars
<1>1. CASE expire_payment(j)
  <2>1. /\ current[j] \in Rows /\ txn[current[j]].status = "PENDING"
        /\ txn' = [txn EXCEPT ![current[j]].status = "FAILED"]
    BY <1>1 DEF expire_payment, IInv, JobOK
  <2>2. QED
    BY <2>1, FailedIsRefunded
<1>2. CASE cleanup_expired_idempotency_keys(j)
  <2>1. \A t \in Rows : Face(t)' = Face(t)
    BY <1>2 DEF cleanup_expired_idempotency_keys, Face, IInv, TypeOK, Transaction,
         NoTransaction
  <2>2. QED
    BY <2>1, FacesSuffice
<1>3. ASSUME ~expire_payment(j), ~cleanup_expired_idempotency_keys(j)
      PROVE  CreditsLinked' /\ FlowStep
  <2>1. txn' = txn
    BY <1>3 DEF run_cleanup_job, cleanup_old_webhook_events, select_stale_ids,
         next_stale_id, lock_stale_payment, lock_sender_account, refund_is_refused,
         all_visited, end_run, tables
  <2>2. QED
    BY <2>1, TablesSuffice
<1>4. QED
  BY <1>1, <1>2, <1>3

\* Every step of the API is a step of the flow or one it does not see.
LEMMA NextKeepsFlow ==
    ASSUME IInv, CreditsLinked, [Next]_vars
    PROVE  CreditsLinked' /\ FlowStep
<1>1. ASSUME NEW s \in Sessions, deadlock_detected(s) \/ database_error(s)
      PROVE  CreditsLinked' /\ FlowStep
  <2>1. Abort(s)
    BY <1>1 DEF deadlock_detected, database_error
  <2>2. QED
    BY <2>1, AbortMovesNoMoney, TablesSuffice
<1>2. TimePasses \/ crash \/ UNCHANGED vars => txn' = txn /\ note' = note
  BY DEF TimePasses, crash, vars, storeVars, tables, deliveryVars
<1>3. QED
  BY <1>1, <1>2, TablesSuffice, RequestKeepsFlow, DeliveryKeepsFlow, JobKeepsFlow DEF Next

\* At the start there is no payment and no credit.
LEMMA InitFlow ==
    ASSUME Init
    PROVE  CreditsLinked /\ Flow!Init
<1>1. \A t \in Rows : ~Exists(t) /\ txn[t].type = "none"
  BY DEF Init, InitStore, Exists, NoTransaction
<1>2. QED
  BY <1>1 DEF CreditsLinked, Flow!Init, FlowOrder, FlowStage, FlowCredits, CreditsFor,
       IsPayment, Rows

(***************************************************************************)
(* The theorems                                                            *)
(***************************************************************************)
\* Every row that a webhook inserts is a credit for the payment of its notice
\* (process_payment_succeeded): the mapping to the flow rests on it.
THEOREM LinkInvariance == Spec => [](IInv /\ CreditsLinked)
<1>1. Init => CreditsLinked
  BY InitFlow
<1>2. IInv /\ CreditsLinked /\ [Next]_vars => CreditsLinked'
  BY NextKeepsFlow
<1>3. QED
  BY <1>1, <1>2, Invariance, PTL DEF Spec

\* The API implements the flow of README.md:25: for any number of requests,
\* webhooks, jobs, deadlocks and crashes, a payment is made once, and then
\* released by one credit or refunded, never both.
THEOREM SettlementRefinement == Spec => ImplementsSettlement
<1>1. Init => Flow!Init
  BY InitFlow
<1>2. IInv /\ CreditsLinked /\ [Next]_vars => [Flow!Next]_Flow!vars
  BY NextKeepsFlow DEF FlowStep, Flow!vars
<1>3. QED
  BY <1>1, <1>2, LinkInvariance, PTL DEF Spec, ImplementsSettlement, Flow!Spec

\* A completed payment has exactly one credit, to its recipient and of its
\* amount, and there are no other credits.
THEOREM ReleasedOnceHolds == Spec => []ReleasedOnce
<1> DEFINE Kept == Flow!ReleasedOnce
<1>1. Flow!Init => Kept
  BY DEF Flow!Init, Flow!ReleasedOnce
<1>2. Proved!Shape
  BY DEF Proved!Shape, FlowStage, FlowCredits
<1>3. Kept <=> Proved!ReleasedOnce
  BY DEF Flow!ReleasedOnce, Proved!ReleasedOnce
<1>4. Flow!Next => Proved!Next
  BY DEF Flow!Next, Proved!Next, Flow!make, Proved!make, Flow!refund, Proved!refund,
       Flow!release, Proved!release, Flow!Become, Proved!Become, Flow!Orders,
       Proved!Orders
<1>5. Kept /\ Flow!Next => Kept'
  BY <1>2, <1>3, <1>4, Proved!StepReleasesOnce
       DEF Flow!ReleasedOnce, Proved!ReleasedOnce
<1>6. Kept /\ UNCHANGED <<FlowOrder, FlowStage, FlowCredits>> => Kept'
  BY DEF Flow!ReleasedOnce
<1>7. IInv /\ CreditsLinked /\ Kept /\ [Next]_vars => Kept'
  BY <1>5, <1>6, NextKeepsFlow DEF FlowStep
<1>8. Init => Kept
  BY <1>1, InitFlow
<1>9. Kept /\ CreditsLinked => ReleasedOnce
  BY DEF ReleasedOnce, CreditsLinked
<1>10. QED
  BY <1>7, <1>8, <1>9, LinkInvariance, PTL DEF Spec

(***************************************************************************)
(* Sums over a table                                                       *)
(***************************************************************************)
\* The amounts of the rows S of table f; Total(S) is this of the table txn.
SumOf(f, S) == MapThenSumSet(LAMBDA t : f[t].amount, S)

First(S) == CHOOSE x \in S : TRUE

\* g gives the sum over every subset of S, by taking out its first row.
AddsUp(g, f, S) ==
    g = [s \in SUBSET S |-> IF s = {} THEN 0 ELSE f[First(s)].amount + g[s \ {First(s)}]]

\* The amounts of the rows S are numbers.
Amounts(f, S) == \A x \in S : f[x].amount \in Int

\* Over a finite set the recursion of MapThenSumSet comes to an end.
LEMMA SumIsDefined ==
    ASSUME NEW f, NEW S, IsFiniteSet(S), Amounts(f, S)
    PROVE  \E g : AddsUp(g, f, S) /\ SumOf(f, S) = g[S]
<1> DEFINE Upto(n) == {s \in SUBSET S : Cardinality(s) <= n}
           Sums(g, n) == \A s \in Upto(n) :
               g[s] = IF s = {} THEN 0 ELSE f[First(s)].amount + g[s \ {First(s)}]
           Fails == {n \in Nat : ~\E g : g = [s \in SUBSET S |-> g[s]] /\ Sums(g, n)}
<1>1. ASSUME NEW s \in SUBSET S
      PROVE  /\ IsFiniteSet(s) /\ Cardinality(s) \in Nat
             /\ Cardinality(s) = 0 => s = {}
             /\ s = {} => Cardinality(s) = 0
             /\ s # {} => /\ First(s) \in s /\ s \ {First(s)} \in SUBSET S
                          /\ Cardinality(s \ {First(s)}) = Cardinality(s) - 1
  <2>1. IsFiniteSet(s)
    BY FS_Subset
  <2>2. Cardinality(s) \in Nat /\ (Cardinality(s) = 0 <=> s = {})
    BY <2>1, FS_CardinalityType, FS_EmptySet
  <2>3. s # {} => First(s) \in s
    BY DEF First
  <2>4. s # {} => Cardinality(s \ {First(s)}) = Cardinality(s) - 1
    BY <2>1, <2>3, FS_RemoveElement
  <2> QED BY <2>1, <2>2, <2>3, <2>4
<1>0. \A s \in SUBSET S : Cardinality(s) \in Nat /\ (Cardinality(s) = 0 => s = {})
  BY <1>1
<1>2. Fails = {}
  <2> SUFFICES ASSUME Fails # {} PROVE FALSE
    OBVIOUS
  <2>1. PICK n \in Fails : \A m \in Fails : ~(<<m, n>> \in OpToRel(<, Nat))
    <3>1. Fails \subseteq Nat
      OBVIOUS
    <3> QED BY <3>1, WFMin, NatLessThanWellFounded
  <2>2. n \in Nat /\ \A m \in Nat : m < n => m \notin Fails
    BY <2>1 DEF OpToRel
  <2>3. CASE n = 0
    <3> DEFINE g == [s \in SUBSET S |-> 0]
    <3>1. ASSUME NEW s \in Upto(0) PROVE s = {}
      <4>1. s \in SUBSET S /\ Cardinality(s) <= 0
        OBVIOUS
      <4>2. Cardinality(s) = 0
        BY <1>0, <4>1
      <4> QED BY <1>0, <4>1, <4>2
    <3>2. Sums(g, 0)
      BY <3>1
    <3>3. g = [s \in SUBSET S |-> g[s]]
      OBVIOUS
    <3> QED BY <2>1, <2>3, <3>2, <3>3
  <2>4. CASE n # 0
    <3>1. n - 1 \in Nat /\ n - 1 < n
      BY <2>2, <2>4
    <3>2. PICK g : g = [s \in SUBSET S |-> g[s]] /\ Sums(g, n - 1)
      BY <2>2, <3>1
    <3> DEFINE h == [s \in SUBSET S |->
                        IF Cardinality(s) <= n - 1 THEN g[s]
                        ELSE f[First(s)].amount + g[s \ {First(s)}]]
    <3>3. ASSUME NEW s \in Upto(n)
          PROVE  h[s] = IF s = {} THEN 0 ELSE f[First(s)].amount + h[s \ {First(s)}]
      <4>1. CASE s = {}
        <5>1. s \in SUBSET S /\ Cardinality(s) <= n - 1
          <6>1. Cardinality(s) = 0
            BY <4>1, FS_EmptySet
          <6> QED BY <2>2, <2>4, <6>1
        <5>2. g[s] = 0
          BY <3>2, <4>1, <5>1
        <5> QED BY <4>1, <5>1, <5>2
      <4>2. CASE s # {}
        <5>1. /\ s \ {First(s)} \in SUBSET S
              /\ Cardinality(s \ {First(s)}) <= n - 1
          BY <1>1, <2>2, <4>2
        <5>2. h[s \ {First(s)}] = g[s \ {First(s)}]
          BY <5>1
        <5>3. h[s] = f[First(s)].amount + g[s \ {First(s)}]
          BY <3>2, <4>2
        <5> QED BY <4>2, <5>2, <5>3
      <4> QED BY <4>1, <4>2
    <3>4. Sums(h, n) /\ h = [s \in SUBSET S |-> h[s]]
      <4> HIDE DEF h
      <4>1. Sums(h, n)
        BY <3>3
      <4>2. h = [s \in SUBSET S |-> h[s]]
        BY DEF h
      <4> QED BY <4>1, <4>2
    <3> HIDE DEF h
    <3> QED BY <2>1, <3>4
  <2> QED BY <2>3, <2>4
<1>3. PICK g : g = [s \in SUBSET S |-> g[s]] /\ Sums(g, Cardinality(S))
  <2>1. Cardinality(S) \in Nat
    BY FS_CardinalityType
  <2> QED BY <1>2, <2>1
<1>4. AddsUp(g, f, S)
  <2>1. \A s \in SUBSET S : s \in Upto(Cardinality(S))
    BY FS_Subset
  <2> QED BY <1>3, <2>1 DEF AddsUp
<1> DEFINE G == CHOOSE h : AddsUp(h, f, S)
<1>5. AddsUp(G, f, S)
  BY <1>4
<1>6. SumOf(f, S) = G[S]
  BY DEF SumOf, MapThenSumSet, MapThenFoldSet, AddsUp, First
<1> QED BY <1>5, <1>6

\* The sum over a set, from that over the set without its first row.
LEMMA SumFromFirst ==
    ASSUME NEW f, NEW S, IsFiniteSet(S), Amounts(f, S)
    PROVE  /\ SumOf(f, {}) = 0
           /\ S # {} => SumOf(f, S) = f[First(S)].amount + SumOf(f, S \ {First(S)})
<1>1. ASSUME NEW T, IsFiniteSet(T), Amounts(f, T), NEW g, AddsUp(g, f, S),
             T \in SUBSET S
      PROVE  g[T] = SumOf(f, T)
  <2>1. PICK h : AddsUp(h, f, T) /\ SumOf(f, T) = h[T]
    BY <1>1, SumIsDefined
  <2> DEFINE Differ == {n \in Nat : \E s \in SUBSET T : Cardinality(s) = n /\ g[s] # h[s]}
  <2>2. Differ = {}
    <3> SUFFICES ASSUME Differ # {} PROVE FALSE
      OBVIOUS
    <3>1. PICK n \in Differ : \A m \in Differ : ~(<<m, n>> \in OpToRel(<, Nat))
      <4>1. Differ \subseteq Nat
        OBVIOUS
      <4> QED BY <4>1, WFMin, NatLessThanWellFounded
    <3>2. n \in Nat /\ \A m \in Nat : m < n => m \notin Differ
      BY <3>1 DEF OpToRel
    <3>3. PICK s \in SUBSET T : Cardinality(s) = n /\ g[s] # h[s]
      BY <3>1
    <3>4. s \in SUBSET S
      BY <1>1
    <3>5. CASE s = {}
      BY <1>1, <2>1, <3>3, <3>4, <3>5 DEF AddsUp
    <3>6. CASE s # {}
      <4> DEFINE r == s \ {First(s)}
      <4>1. First(s) \in s
        BY <3>6 DEF First
      <4>2. IsFiniteSet(s)
        BY <1>1, FS_Subset
      <4>3. r \in SUBSET T /\ r \in SUBSET S /\ Cardinality(r) = n - 1
        BY <3>3, <3>4, <4>1, <4>2, FS_RemoveElement
      <4>4. n - 1 \in Nat /\ n - 1 < n
        BY <3>2, <3>3, <3>6, <4>2, FS_CardinalityType, FS_EmptySet
      <4>5. g[r] = h[r]
        BY <3>2, <4>3, <4>4
      <4>6. g[s] = f[First(s)].amount + g[r] /\ h[s] = f[First(s)].amount + h[r]
        BY <1>1, <2>1, <3>4, <3>6 DEF AddsUp
      <4> QED BY <3>3, <4>5, <4>6
    <3> QED BY <3>5, <3>6
  <2>3. Cardinality(T) \in Nat
    BY <1>1, FS_CardinalityType
  <2> QED BY <2>1, <2>2, <2>3
<1>2. PICK g : AddsUp(g, f, S) /\ SumOf(f, S) = g[S]
  BY SumIsDefined
<1>3. g[{}] = 0
  BY <1>2 DEF AddsUp
<1>4. SumOf(f, {}) = 0
  BY <1>1, <1>2, <1>3, FS_EmptySet DEF Amounts
<1>5. ASSUME S # {}
      PROVE  SumOf(f, S) = f[First(S)].amount + SumOf(f, S \ {First(S)})
  <2>1. IsFiniteSet(S \ {First(S)}) /\ Amounts(f, S \ {First(S)})
    BY FS_RemoveElement DEF Amounts
  <2>2. g[S \ {First(S)}] = SumOf(f, S \ {First(S)})
    BY <1>1, <1>2, <2>1
  <2> QED BY <1>2, <1>5, <2>2 DEF AddsUp
<1> QED BY <1>4, <1>5

\* A sum is a number, and it is the same whichever row is taken out first.
LEMMA SumWithout ==
    ASSUME NEW f, NEW S, IsFiniteSet(S), Amounts(f, S)
    PROVE  /\ SumOf(f, S) \in Int
           /\ \A x \in S : SumOf(f, S) = f[x].amount + SumOf(f, S \ {x})
<1> DEFINE Holds(T) == /\ SumOf(f, T) \in Int
                       /\ \A x \in T : SumOf(f, T) = f[x].amount + SumOf(f, T \ {x})
           Fails == {n \in Nat : \E T \in SUBSET S : Cardinality(T) = n /\ ~Holds(T)}
<1>1. Fails = {}
  <2> SUFFICES ASSUME Fails # {} PROVE FALSE
    OBVIOUS
  <2>1. PICK n \in Fails : \A m \in Fails : ~(<<m, n>> \in OpToRel(<, Nat))
    <3>1. Fails \subseteq Nat
      OBVIOUS
    <3> QED BY <3>1, WFMin, NatLessThanWellFounded
  <2>2. n \in Nat /\ \A m \in Nat : m < n => m \notin Fails
    BY <2>1 DEF OpToRel
  <2>3. PICK T \in SUBSET S : Cardinality(T) = n /\ ~Holds(T)
    BY <2>1
  <2>4. IsFiniteSet(T) /\ Amounts(f, T)
    BY FS_Subset DEF Amounts
  <2>5. T # {}
    <3>1. SumOf(f, {}) = 0
      BY SumFromFirst
    <3> QED BY <2>3, <3>1
  <2>6. ASSUME NEW x \in T
        PROVE  /\ Holds(T \ {x})
               /\ IsFiniteSet(T \ {x}) /\ Amounts(f, T \ {x}) /\ f[x].amount \in Int
    <3>1. Cardinality(T \ {x}) = n - 1 /\ IsFiniteSet(T \ {x}) /\ T \ {x} \in SUBSET S
      BY <2>3, <2>4, FS_RemoveElement
    <3>2. n - 1 \in Nat /\ n - 1 < n
      BY <2>2, <2>3, <2>4, <2>5, FS_EmptySet
    <3>3. Holds(T \ {x})
      <4> HIDE DEF Holds
      <4> QED BY <2>2, <3>1, <3>2
    <3> QED BY <2>4, <3>1, <3>3 DEF Amounts
  <2> DEFINE c == First(T)
  <2>7. c \in T
    BY <2>5 DEF First
  <2>8. SumOf(f, T) = f[c].amount + SumOf(f, T \ {c})
    BY <2>4, <2>5, SumFromFirst
  <2>9. SumOf(f, T) \in Int
    <3>1. Holds(T \ {c}) /\ f[c].amount \in Int
      BY <2>6, <2>7
    <3>2. SumOf(f, T \ {c}) \in Int
      BY <3>1
    <3> HIDE DEF Holds
    <3> QED BY <2>8, <3>1, <3>2
  <2>10. ASSUME NEW x \in T, x # c
         PROVE  SumOf(f, T) = f[x].amount + SumOf(f, T \ {x})
    <3>1. SumOf(f, T \ {c}) = f[x].amount + SumOf(f, (T \ {c}) \ {x})
      BY <2>6, <2>7, <2>10
    <3>2. SumOf(f, T \ {x}) = f[c].amount + SumOf(f, (T \ {x}) \ {c})
      BY <2>6, <2>7, <2>10
    <3>3. (T \ {c}) \ {x} = (T \ {x}) \ {c}
      OBVIOUS
    <3>4. SumOf(f, (T \ {x}) \ {c}) \in Int
      <4>1. IsFiniteSet((T \ {x}) \ {c}) /\ Amounts(f, (T \ {x}) \ {c})
        BY <2>6, FS_RemoveElement DEF Amounts
      <4>2. SumOf(f, T \ {x}) \in Int /\ c \in T \ {x}
        BY <2>6, <2>7, <2>10
      <4>3. Cardinality((T \ {x}) \ {c}) = n - 2 /\ n - 2 \in Nat
        <5>1. Cardinality(T \ {x}) = n - 1 /\ Cardinality((T \ {x}) \ {c}) = (n - 1) - 1
          <6>1. Cardinality(T \ {x}) = n - 1 /\ IsFiniteSet(T \ {x})
            BY <2>3, <2>4, FS_RemoveElement
          <6> DEFINE U == T \ {x}
          <6>2. c \in U /\ IsFiniteSet(U)
            BY <4>2, <6>1
          <6> HIDE DEF U, c
          <6>3. Cardinality(U \ {c}) = Cardinality(U) - 1
            BY <6>2, FS_RemoveElement
          <6> QED BY <6>1, <6>3 DEF U
        <5> QED BY <2>2, <4>1, <5>1, FS_CardinalityType
      <4>4. Holds((T \ {x}) \ {c})
        <5> HIDE DEF Holds
        <5> QED BY <2>2, <4>3
      <4> QED BY <4>4
    <3>5. f[x].amount \in Int /\ f[c].amount \in Int
      BY <2>6, <2>7
    <3> HIDE DEF Holds
    <3> QED BY <2>8, <3>1, <3>2, <3>3, <3>4, <3>5
  <2> QED BY <2>3, <2>8, <2>9, <2>10
<1>2. Cardinality(S) \in Nat
  BY FS_CardinalityType
<1>3. Holds(S)
  <2> HIDE DEF Holds
  <2> QED BY <1>1, <1>2
<1> QED BY <1>3

\* Tables that agree on the amounts of the rows have the same sum.
LEMMA SumOfSame ==
    ASSUME NEW f, NEW g, NEW S, IsFiniteSet(S), Amounts(f, S),
           \A x \in S : g[x].amount = f[x].amount
    PROVE  SumOf(g, S) = SumOf(f, S)
<1> DEFINE Fails == {n \in Nat : \E T \in SUBSET S :
                        Cardinality(T) = n /\ SumOf(g, T) # SumOf(f, T)}
<1>1. Fails = {}
  <2> SUFFICES ASSUME Fails # {} PROVE FALSE
    OBVIOUS
  <2>1. PICK n \in Fails : \A m \in Fails : ~(<<m, n>> \in OpToRel(<, Nat))
    <3>1. Fails \subseteq Nat
      OBVIOUS
    <3> QED BY <3>1, WFMin, NatLessThanWellFounded
  <2>2. n \in Nat /\ \A m \in Nat : m < n => m \notin Fails
    BY <2>1 DEF OpToRel
  <2>3. PICK T \in SUBSET S : Cardinality(T) = n /\ SumOf(g, T) # SumOf(f, T)
    BY <2>1
  <2>4. IsFiniteSet(T) /\ Amounts(f, T) /\ Amounts(g, T)
    BY FS_Subset DEF Amounts
  <2>5. T # {}
    BY <2>3, <2>4, SumFromFirst
  <2> DEFINE c == First(T)
  <2>6. c \in T
    BY <2>5 DEF First
  <2>7. Cardinality(T \ {c}) = n - 1 /\ n - 1 \in Nat /\ n - 1 < n
    <3>1. Cardinality(T \ {c}) = n - 1 /\ IsFiniteSet(T \ {c})
      BY <2>3, <2>4, <2>6, FS_RemoveElement
    <3>2. Cardinality(T \ {c}) \in Nat
      BY <3>1, FS_CardinalityType
    <3> QED BY <2>2, <3>1, <3>2
  <2>8. SumOf(g, T \ {c}) = SumOf(f, T \ {c})
    BY <2>2, <2>7
  <2> QED BY <2>3, <2>4, <2>5, <2>6, <2>8, SumFromFirst
<1> QED BY <1>1, FS_CardinalityType

(***************************************************************************)
(* The book of an account, row by row                                      *)
(***************************************************************************)
\* Of the table f: the rows there are, and those that pay in and out.
Existing(f) == {t \in Rows : f[t].type # "none"}
In(f, a) == {t \in Rows : f[t].acct = a /\ f[t].type \in {"DEPOSIT", "TRANSFER_IN"}}
Out(f, a) == {t \in Rows : f[t].acct = a /\ f[t].type = "PAYMENT" /\ f[t].status # "FAILED"}

BookOf(f, a) == Opening[a] + SumOf(f, In(f, a)) - SumOf(f, Out(f, a))

\* What row t adds to the book of account a.
Entry(f, t, a) ==
    IF t \in In(f, a) THEN f[t].amount
    ELSE IF t \in Out(f, a) THEN -f[t].amount ELSE 0

IsTable(f) ==
    /\ f \in [Rows -> Transaction \cup {NoTransaction}]
    /\ IsFiniteSet(Existing(f))

\* Row t says in the book of one table what it says in that of the other.
SameEntry(f, g, t) ==
    /\ g[t].acct = f[t].acct
    /\ g[t].type = f[t].type
    /\ g[t].amount = f[t].amount
    /\ g[t].status = "FAILED" <=> f[t].status = "FAILED"

\* Taking one row, which may be in the set or not, out of a sum.
LEMMA SumWithOrWithout ==
    ASSUME NEW f, NEW S, IsFiniteSet(S), Amounts(f, S), NEW t
    PROVE  /\ SumOf(f, S) \in Int /\ SumOf(f, S \ {t}) \in Int
           /\ t \in S => SumOf(f, S) = f[t].amount + SumOf(f, S \ {t})
           /\ t \notin S => SumOf(f, S) = SumOf(f, S \ {t})
<1>1. SumOf(f, S) \in Int /\ \A x \in S : SumOf(f, S) = f[x].amount + SumOf(f, S \ {x})
  BY SumWithout
<1>2. IsFiniteSet(S \ {t}) /\ Amounts(f, S \ {t})
  BY FS_RemoveElement DEF Amounts
<1>3. SumOf(f, S \ {t}) \in Int
  BY <1>2, SumWithout
<1>4. t \notin S => S \ {t} = S
  OBVIOUS
<1> QED BY <1>1, <1>3, <1>4

\* The rows that count are finite in number, and their amounts are numbers.
LEMMA EntriesAreFinite ==
    ASSUME NEW f, IsTable(f), NEW a \in Accounts
    PROVE  /\ \A x \in Rows : f[x].amount \in Int
           /\ IsFiniteSet(In(f, a)) /\ Amounts(f, In(f, a))
           /\ IsFiniteSet(Out(f, a)) /\ Amounts(f, Out(f, a))
<1>1. ASSUME NEW x \in Rows PROVE f[x].amount \in Int
  <2>1. f[x] \in Transaction \/ f[x] = NoTransaction
    BY DEF IsTable
  <2> QED BY <2>1, MoneyFits DEF Transaction, NoTransaction
<1>2. In(f, a) \in SUBSET Existing(f) /\ Out(f, a) \in SUBSET Existing(f)
  BY DEF In, Out, Existing
<1>3. IsFiniteSet(In(f, a)) /\ IsFiniteSet(Out(f, a))
  BY <1>2, FS_Subset DEF IsTable
<1> QED BY <1>1, <1>3 DEF Amounts, In, Out

\* The book is the entry of any row and a rest.
LEMMA BookWithout ==
    ASSUME NEW f, IsTable(f), NEW a \in Accounts, NEW t \in Rows
    PROVE  /\ Entry(f, t, a) \in Int
           /\ SumOf(f, In(f, a) \ {t}) \in Int /\ SumOf(f, Out(f, a) \ {t}) \in Int
           /\ BookOf(f, a) = Opening[a] + Entry(f, t, a)
                          + SumOf(f, In(f, a) \ {t}) - SumOf(f, Out(f, a) \ {t})
<1>1. /\ SumOf(f, In(f, a)) \in Int /\ SumOf(f, In(f, a) \ {t}) \in Int
      /\ t \in In(f, a) => SumOf(f, In(f, a)) = f[t].amount + SumOf(f, In(f, a) \ {t})
      /\ t \notin In(f, a) => SumOf(f, In(f, a)) = SumOf(f, In(f, a) \ {t})
  BY EntriesAreFinite, SumWithOrWithout
<1>2. /\ SumOf(f, Out(f, a)) \in Int /\ SumOf(f, Out(f, a) \ {t}) \in Int
      /\ t \in Out(f, a) => SumOf(f, Out(f, a)) = f[t].amount + SumOf(f, Out(f, a) \ {t})
      /\ t \notin Out(f, a) => SumOf(f, Out(f, a)) = SumOf(f, Out(f, a) \ {t})
  BY EntriesAreFinite, SumWithOrWithout
<1>3. Opening[a] \in Int /\ f[t].amount \in Int
  BY EntriesAreFinite, MoneyFits
<1>4. ~(t \in In(f, a) /\ t \in Out(f, a))
  BY DEF In, Out
<1> QED BY <1>1, <1>2, <1>3, <1>4 DEF Entry, BookOf

\* Where all rows but one say the same, the books differ by its entries.
LEMMA BookOfOneRow ==
    ASSUME NEW f, IsTable(f), NEW g, IsTable(g), NEW a \in Accounts, NEW t \in Rows,
           \A x \in Rows \ {t} : SameEntry(f, g, x)
    PROVE  /\ BookOf(f, a) \in Int /\ Entry(f, t, a) \in Int /\ Entry(g, t, a) \in Int
           /\ BookOf(g, a) = BookOf(f, a) + (Entry(g, t, a) - Entry(f, t, a))
<1>1. In(g, a) \ {t} = In(f, a) \ {t} /\ Out(g, a) \ {t} = Out(f, a) \ {t}
  BY DEF In, Out, SameEntry
<1>2. /\ IsFiniteSet(In(f, a) \ {t}) /\ Amounts(f, In(f, a) \ {t})
      /\ IsFiniteSet(Out(f, a) \ {t}) /\ Amounts(f, Out(f, a) \ {t})
  BY EntriesAreFinite, FS_RemoveElement DEF Amounts
<1>3. \A x \in (In(f, a) \cup Out(f, a)) \ {t} : g[x].amount = f[x].amount
  BY DEF In, Out, SameEntry
<1>4. /\ SumOf(g, In(f, a) \ {t}) = SumOf(f, In(f, a) \ {t})
      /\ SumOf(g, Out(f, a) \ {t}) = SumOf(f, Out(f, a) \ {t})
  BY <1>2, <1>3, SumOfSame
<1>5. /\ Entry(f, t, a) \in Int
      /\ SumOf(f, In(f, a) \ {t}) \in Int /\ SumOf(f, Out(f, a) \ {t}) \in Int
      /\ BookOf(f, a) = Opening[a] + Entry(f, t, a)
                          + SumOf(f, In(f, a) \ {t}) - SumOf(f, Out(f, a) \ {t})
  BY BookWithout
<1>6. /\ Entry(g, t, a) \in Int
      /\ BookOf(g, a) = Opening[a] + Entry(g, t, a)
                          + SumOf(g, In(g, a) \ {t}) - SumOf(g, Out(g, a) \ {t})
  BY BookWithout
<1>7. Opening[a] \in Int
  BY MoneyFits
<1>8. BookOf(g, a) = Opening[a] + Entry(g, t, a)
                       + SumOf(f, In(f, a) \ {t}) - SumOf(f, Out(f, a) \ {t})
  BY <1>1, <1>4, <1>6
<1>9. BookOf(f, a) \in Int
  BY <1>5, <1>7
<1>10. BookOf(g, a) = BookOf(f, a) + (Entry(g, t, a) - Entry(f, t, a))
  BY <1>5, <1>6, <1>7, <1>8
<1> QED BY <1>5, <1>6, <1>9, <1>10

(***************************************************************************)
(* The invariant                                                           *)
(***************************************************************************)
\* Finitely many rows have been inserted.
FiniteTable == IsFiniteSet(Existing(txn))

\* A payment that holds the lock of its sender has the sender in its session.
SenderLoaded == \A r \in Requests : pc[r] = "locked" => cached[r].id = body[r].from

BookInv == FiniteTable /\ SenderLoaded

\* A step is that of one session, or leaves the transactions alone.
LEMMA StepsOfSessions ==
    ASSUME IInv, [Next]_vars
    PROVE  (\E s \in Sessions : StepOf(s)) \/ txn' = txn
<1>1. (\E r \in Requests : Request(r)) => \E s \in Sessions : StepOf(s)
  BY RequestStepKeepsIInv, Names DEF Request
<1>2. (\E w \in Deliveries : Delivery(w)) => \E s \in Sessions : StepOf(s)
  BY DeliveryStepKeepsIInv, Names DEF Delivery
<1>3. (\E j \in Jobs : Job(j)) => \E s \in Sessions : StepOf(s)
  BY JobStepKeepsIInv, Names DEF Job
<1>4. (\E s \in Sessions : deadlock_detected(s) \/ database_error(s)) =>
        \E s \in Sessions : StepOf(s)
  BY Abort_keeps_IInv DEF deadlock_detected, database_error
<1>5. TimePasses \/ crash \/ UNCHANGED vars => txn' = txn
  BY DEF TimePasses, crash, vars, storeVars, tables
<1> QED BY <1>1, <1>2, <1>3, <1>4, <1>5 DEF Next

\* A step inserts one row at most.
LEMMA FiniteTableKept ==
    ASSUME IInv, FiniteTable, [Next]_vars
    PROVE  FiniteTable'
<1>1. ASSUME NEW s \in Sessions, StepOf(s)
      PROVE  FiniteTable'
  <2>1. Existing(txn') \in SUBSET (Existing(txn) \cup {s})
    BY <1>1 DEF StepOf, RowsAlone, Existing, Exists
  <2>2. IsFiniteSet(Existing(txn) \cup {s})
    BY FS_AddElement DEF FiniteTable
  <2> QED BY <2>1, <2>2, FS_Subset DEF FiniteTable
<1>2. CASE txn' = txn
  BY <1>2 DEF FiniteTable, Existing
<1> QED BY <1>1, <1>2, StepsOfSessions

\* The object of the sender stays in the session from the lock to the commit.
LEMMA SenderLoadedKept ==
    ASSUME IInv, SenderLoaded, [Next]_vars
    PROVE  SenderLoaded'
<1> USE Names DEF SenderLoaded
<1>1. ASSUME NEW r \in Requests, Request(r)
      PROVE  SenderLoaded'
  <2>1. StepOf(r)
    BY <1>1, RequestStepKeepsIInv DEF Request
  <2>2. \A q \in Requests \ {r} :
           pc'[q] = pc[q] /\ cached'[q] = cached[q] /\ body'[q] = body[q]
    BY <2>1 DEF StepOf, SessionsAlone
  <2>3. pc'[r] = "locked" => cached'[r].id = body'[r].from
    <3> USE DEF IInv, TypeOK, Goto, Respond
    <3>1. CASE lock_sender(r)
      <4>1. body[r] \in Bodies /\ body' = body
        BY <3>1 DEF lock_sender, RequestOK, requestVars
      <4>2. body[r].from \in Accounts
        BY <4>1, BodiesAreValid
      <4>3. cached'[r] = LoadAccount(r, body[r].from)
        BY <3>1 DEF lock_sender, Load
      <4> QED BY <4>1, <4>2, <4>3, LoadAccountType
    <3>2. CASE RequestStep(r) /\ ~lock_sender(r)
      <4>1. pc'[r] # "locked"
        BY <3>2 DEF RequestStep, HandleRequest, get_current_account, execute_deposit,
           reject_payment, reserve_idempotency_key, answer_conflict, execute_payment,
           payment_overflows, abort_request, refresh_payment, finalize_idempotency_key
      <4> QED BY <4>1
    <3> QED BY <1>1, <3>1, <3>2 DEF Request
  <2> QED BY <2>2, <2>3
<1>2. ASSUME NEW w \in Sessions \ Requests, StepOf(w)
      PROVE  SenderLoaded'
  BY <1>2 DEF StepOf, SessionsAlone
<1>3. ASSUME NEW s \in Sessions, deadlock_detected(s) \/ database_error(s)
      PROVE  SenderLoaded'
  <2>1. Abort(s)
    BY <1>3 DEF deadlock_detected, database_error
  <2>2. StepOf(s)
    BY <2>1, Abort_keeps_IInv
  <2>3. CASE s \in Requests
    <3>1. pc'[s] = "done"
      BY <2>1, <2>3 DEF Abort, abort_request, Respond, Goto, IInv, TypeOK
    <3> QED BY <2>2, <2>3, <3>1 DEF StepOf, SessionsAlone
  <2> QED BY <1>2, <2>2, <2>3
<1>4. CASE crash
  <2>1. \A r \in Requests : pc'[r] # "locked"
    BY <1>4 DEF crash, Running, IInv, TypeOK, RequestSteps
  <2> QED BY <2>1
<1>5. CASE TimePasses \/ UNCHANGED vars
  BY <1>5 DEF TimePasses, vars, storeVars, requestVars
<1>6. ASSUME NEW w \in Deliveries, Delivery(w) PROVE SenderLoaded'
  BY <1>2, <1>6, DeliveryStepKeepsIInv DEF Delivery
<1>7. ASSUME NEW j \in Jobs, Job(j) PROVE SenderLoaded'
  BY <1>2, <1>7, JobStepKeepsIInv DEF Job
<1> QED BY <1>1, <1>3, <1>4, <1>5, <1>6, <1>7 DEF Next

(***************************************************************************)
(* What each step does to the drift                                        *)
(***************************************************************************)
\* The drift, in terms of the sums above.
LEMMA DriftIsFromBook ==
    ASSUME NEW a \in Accounts
    PROVE  /\ Drift(a) = balance[a] - BookOf(txn, a)
           /\ Drift(a)' = balance'[a] - BookOf(txn', a)
<1>1. Drift(a) = balance[a] - BookOf(txn, a)
  BY DEF Drift, Book, Total, BookOf, SumOf, In, Out, MapThenSumSet, MapThenFoldSet
<1>2. Drift(a)' = balance'[a] - BookOf(txn', a)
  BY DEF Drift, Book, Total, BookOf, SumOf, In, Out, MapThenSumSet, MapThenFoldSet
<1> QED BY <1>1, <1>2

\* The drift of a, after a step that changes at most row t of the table.
LEMMA DriftOfOneRow ==
    ASSUME IInv, IInv', FiniteTable, FiniteTable', NEW a \in Accounts, NEW t \in Rows,
           \A x \in Rows \ {t} : SameEntry(txn, txn', x)
    PROVE  /\ Entry(txn, t, a) \in Int /\ Entry(txn', t, a) \in Int
           /\ balance[a] \in Int /\ balance'[a] \in Int
           /\ Drift(a)' - Drift(a) =
                (balance'[a] - balance[a]) - (Entry(txn', t, a) - Entry(txn, t, a))
<1>1. IsTable(txn) /\ IsTable(txn')
  BY DEF IsTable, FiniteTable, IInv, TypeOK
<1>2. /\ BookOf(txn, a) \in Int /\ Entry(txn, t, a) \in Int /\ Entry(txn', t, a) \in Int
      /\ BookOf(txn', a) = BookOf(txn, a) + (Entry(txn', t, a) - Entry(txn, t, a))
  BY <1>1, BookOfOneRow
<1>3. balance[a] \in Int /\ balance'[a] \in Int
  BY MoneyFits DEF IInv, TypeOK, Balances
<1>4. Drift(a) = balance[a] - BookOf(txn, a) /\ Drift(a)' = balance'[a] - BookOf(txn', a)
  BY DriftIsFromBook
<1> QED BY <1>2, <1>3, <1>4

\* A step that changes no balance and no entry.
LEMMA NoDrift ==
    ASSUME IInv, FiniteTable, NEW a \in Accounts, balance' = balance,
           \A x \in Rows : SameEntry(txn, txn', x)
    PROVE  Drift(a)' = Drift(a)
<1>1. IsTable(txn)
  BY DEF IsTable, FiniteTable, IInv, TypeOK
<1>2. In(txn', a) = In(txn, a) /\ Out(txn', a) = Out(txn, a)
  BY DEF In, Out, SameEntry
<1>3. \A x \in In(txn, a) \cup Out(txn, a) : txn'[x].amount = txn[x].amount
  BY DEF In, Out, SameEntry
<1>4. /\ SumOf(txn', In(txn, a)) = SumOf(txn, In(txn, a))
      /\ SumOf(txn', Out(txn, a)) = SumOf(txn, Out(txn, a))
  BY <1>1, <1>3, EntriesAreFinite, SumOfSame
<1>5. BookOf(txn', a) = BookOf(txn, a)
  BY <1>2, <1>4 DEF BookOf
<1>6. Drift(a) = balance[a] - BookOf(txn, a) /\ Drift(a)' = balance'[a] - BookOf(txn', a)
  BY DriftIsFromBook
<1> QED BY <1>5, <1>6

\* The step is that of a session with a stale object, or the drift stays.
Explained(a) ==
    Drift(a)' # Drift(a) =>
        \E s \in Requests \cup Jobs :
            /\ pc[s] # pc'[s]
            /\ Drift(a)' - Drift(a) = Staleness(s, a)

\* The same, from the difference.
LEMMA ExplainedBy ==
    ASSUME NEW a \in Accounts, Drift(a) \in Int, Drift(a)' \in Int,
           \/ Drift(a)' - Drift(a) = 0
           \/ \E s \in Requests \cup Jobs :
                pc[s] # pc'[s] /\ Drift(a)' - Drift(a) = Staleness(s, a)
    PROVE  Explained(a)
BY DEF Explained

\* The drift of an account is a number.
LEMMA DriftsAreNumbers ==
    ASSUME IInv, IInv', FiniteTable, FiniteTable', NEW a \in Accounts
    PROVE  Drift(a) \in Int /\ Drift(a)' \in Int
<1>1. ASSUME NEW f, IsTable(f)
      PROVE  BookOf(f, a) \in Int
  <2>1. SumOf(f, In(f, a)) \in Int /\ SumOf(f, Out(f, a)) \in Int
    BY <1>1, EntriesAreFinite, SumWithout
  <2> QED BY <2>1, MoneyFits DEF BookOf
<1>2. IsTable(txn) /\ IsTable(txn')
  BY DEF IsTable, FiniteTable, IInv, TypeOK
<1>3. balance[a] \in Int /\ balance'[a] \in Int
  BY MoneyFits DEF IInv, TypeOK, Balances
<1>4. Drift(a) = balance[a] - BookOf(txn, a) /\ Drift(a)' = balance'[a] - BookOf(txn', a)
  BY DriftIsFromBook
<1> QED BY <1>1, <1>2, <1>3, <1>4

\* A deposit.
LEMMA DepositDrift ==
    ASSUME IInv, IInv', FiniteTable, FiniteTable', NEW a \in Accounts,
           NEW r \in Requests, execute_deposit(r)
    PROVE  Explained(a)
<1> USE Names DEF IInv, TypeOK
<1> DEFINE b == body[r]
           new == LoadAccount(r, b.from).balance + b.amount
<1>1. /\ pc[r] = "loaded" /\ b \in Bodies /\ txn[r] = NoTransaction
  BY DEF execute_deposit, RequestOK
<1>2. b.from \in Accounts /\ b.amount \in Int
  BY <1>1, BodiesAreValid
<1>3. LoadAccount(r, b.from).balance \in Int
  BY <1>2, LoadAccountType, MoneyFits DEF Balances
<1>4. CASE ~Fits(new)
  BY <1>4, NoDrift DEF execute_deposit, SameEntry, Explained
<1>5. CASE Fits(new)
  <2>1. /\ balance' = [balance EXCEPT ![b.from] = new]
        /\ txn' = [txn EXCEPT ![r] =
                      [type |-> "DEPOSIT", status |-> "COMPLETED",
                       acct |-> b.from, rel |-> None,
                       amount |-> b.amount, key |-> None,
                       long |-> b.long]]
        /\ pc'[r] = "done"
    BY <1>5 DEF execute_deposit, Respond, Goto
  <2>2. \A x \in Rows \ {r} : SameEntry(txn, txn', x)
    BY <2>1 DEF SameEntry
  <2>3. Entry(txn, r, a) = 0
    BY <1>1 DEF Entry, In, Out, NoTransaction
  <2>4. Entry(txn', r, a) = IF a = b.from THEN b.amount ELSE 0
    BY <2>1 DEF Entry, In, Out
  <2>5. /\ balance[a] \in Int /\ balance'[a] \in Int
        /\ Drift(a)' - Drift(a) = (balance'[a] - balance[a]) - Entry(txn', r, a)
    BY <2>2, <2>3, DriftOfOneRow
  <2>6. balance'[a] = IF a = b.from THEN new ELSE balance[a]
    BY <1>2, <2>1
  <2>7. CASE a # b.from
    <3>1. Drift(a)' - Drift(a) = 0
      BY <1>3, <2>4, <2>5, <2>6, <2>7
    <3> QED BY <3>1, DriftsAreNumbers, ExplainedBy
  <2>8. CASE a = b.from
    <3>1. Drift(a)' - Drift(a) = LoadAccount(r, a).balance - balance[a]
      BY <1>2, <1>3, <2>4, <2>5, <2>6, <2>8
    <3>2. LoadAccount(r, a).balance - balance[a] = Staleness(r, a)
      BY <2>5 DEF LoadAccount, Staleness
    <3> QED BY <1>1, <2>1, <3>1, <3>2, DriftsAreNumbers, ExplainedBy
  <2> QED BY <2>7, <2>8
<1> QED BY <1>4, <1>5

\* A payment debits the sender, or does not.
LEMMA PaymentDrift ==
    ASSUME IInv, IInv', BookInv, FiniteTable', NEW a \in Accounts,
           NEW r \in Requests, execute_payment(r)
    PROVE  Explained(a)
<1> USE Names DEF IInv, TypeOK, BookInv
<1> DEFINE b == body[r]
<1>1. /\ pc[r] = "locked" /\ b \in Bodies /\ txn[r] = NoTransaction
      /\ cached[r].id = b.from
  BY DEF execute_payment, RequestOK, SenderLoaded
<1>2. b.from \in Accounts /\ b.amount \in Int
  BY <1>1, BodiesAreValid
<1>3. cached[r].balance \in Int
  <2>1. LoadAccount(r, b.from) = cached[r]
    BY <1>1 DEF LoadAccount
  <2> QED BY <1>2, <2>1, LoadAccountType, MoneyFits DEF Balances
<1>4. /\ balance' = IF Enough(r)
                    THEN [balance EXCEPT ![b.from] = cached[r].balance - b.amount]
                    ELSE balance
      /\ txn' = [txn EXCEPT ![r] =
                   [type |-> "PAYMENT",
                    status |-> IF Enough(r) THEN "PENDING" ELSE "FAILED",
                    acct |-> b.from, rel |-> b.to, amount |-> b.amount,
                    key |-> r, long |-> b.long]]
      /\ pc'[r] = "committed"
  BY DEF execute_payment, Goto
<1>5. \A x \in Rows \ {r} : SameEntry(txn, txn', x)
  BY <1>4 DEF SameEntry
<1>6. Entry(txn, r, a) = 0
  BY <1>1 DEF Entry, In, Out, NoTransaction
<1>7. Entry(txn', r, a) = IF a = b.from /\ Enough(r) THEN -b.amount ELSE 0
  BY <1>4 DEF Entry, In, Out
<1>8. /\ balance[a] \in Int /\ balance'[a] \in Int
      /\ Drift(a)' - Drift(a) = (balance'[a] - balance[a]) - Entry(txn', r, a)
  BY <1>5, <1>6, DriftOfOneRow
<1>9. balance'[a] = IF a = b.from /\ Enough(r) THEN cached[r].balance - b.amount ELSE balance[a]
  BY <1>2, <1>4
<1>10. CASE ~(a = b.from /\ Enough(r))
  <2>1. Drift(a)' - Drift(a) = 0
    BY <1>7, <1>8, <1>9, <1>10
  <2> QED BY <2>1, DriftsAreNumbers, ExplainedBy
<1>11. CASE a = b.from /\ Enough(r)
  <2>1. Drift(a)' - Drift(a) = cached[r].balance - balance[a]
    BY <1>2, <1>3, <1>7, <1>8, <1>9, <1>11
  <2>2. cached[r].balance - balance[a] = Staleness(r, a)
    BY <1>1, <1>11 DEF Staleness
  <2> QED BY <1>1, <1>4, <2>1, <2>2, DriftsAreNumbers, ExplainedBy
<1> QED BY <1>10, <1>11

\* A payment that fails after it was pending is refunded: what enters the
\* balance of its sender has left the book of what went out.
LEMMA RefundDrift ==
    ASSUME IInv, IInv', FiniteTable, FiniteTable', NEW a \in Accounts,
           NEW t \in Rows, txn[t].status = "PENDING",
           txn' = [txn EXCEPT ![t].status = "FAILED"],
           NEW held \in Int,
           balance' = [balance EXCEPT ![txn[t].acct] = held + txn[t].amount]
    PROVE  Drift(a)' - Drift(a) = IF a = txn[t].acct THEN held - balance[a] ELSE 0
<1> USE DEF IInv, TypeOK
<1>1. txn[t] \in Transaction /\ txn[t].type = "PAYMENT"
  BY DEF NoTransaction, RowInv
<1>2. txn[t].acct \in Accounts /\ txn[t].amount \in Int
  BY <1>1, MoneyFits DEF Transaction
<1>3. txn'[t] = [txn[t] EXCEPT !.status = "FAILED"] /\ \A x \in Rows \ {t} : txn'[x] = txn[x]
  OBVIOUS
<1>4. /\ txn'[t].type = "PAYMENT" /\ txn'[t].status = "FAILED"
      /\ txn'[t].acct = txn[t].acct
  BY <1>1, <1>3 DEF Transaction
<1>5. Entry(txn, t, a) = IF a = txn[t].acct THEN -txn[t].amount ELSE 0
  BY <1>1 DEF Entry, In, Out
<1>6. Entry(txn', t, a) = 0
  BY <1>4 DEF Entry, In, Out
<1>7. /\ balance[a] \in Int
      /\ Drift(a)' - Drift(a) =
           (balance'[a] - balance[a]) - (Entry(txn', t, a) - Entry(txn, t, a))
  BY <1>3, DriftOfOneRow DEF SameEntry
<1>8. balance'[a] = IF a = txn[t].acct THEN held + txn[t].amount ELSE balance[a]
  BY <1>2
<1> QED BY <1>2, <1>5, <1>6, <1>7, <1>8

\* A webhook settles with an object that is fresh.
LEMMA SettlementDrift ==
    ASSUME IInv, IInv', FiniteTable, FiniteTable', NEW a \in Accounts, NEW w \in Deliveries,
           process_payment_succeeded(w) \/ process_payment_failed(w)
    PROVE  Explained(a)
<1> USE Names DEF IInv, TypeOK
<1> DEFINE t == note[w].tx
           p == PaidAccount(note[w])
<1>1. /\ t \in Rows /\ txn[t].status = "PENDING" /\ txn[t].amount = note[w].amount
      /\ cached[w] = [id |-> p, balance |-> balance[p]]
      /\ txn[w] = NoTransaction
  BY DEF process_payment_succeeded, process_payment_failed, DeliveryOK
<1>2. txn[t] \in Transaction /\ txn[t].type = "PAYMENT" /\ t # w
  BY <1>1 DEF NoTransaction, RowInv
<1>3. txn[t].acct \in Accounts /\ txn[t].rel \in Accounts /\ txn[t].amount \in Int
  BY <1>1, <1>2, MoneyFits DEF Transaction, RowInv
<1>4. cached[w].balance = balance[p]
  BY <1>1
<1>5. CASE process_payment_failed(w)
  <2>1. p = txn[t].acct
    BY <1>5 DEF process_payment_failed, PaidAccount
  <2>2. balance[p] \in Int
    BY <1>3, <2>1, MoneyFits DEF Balances
  <2>3. txn' = [txn EXCEPT ![t].status = "FAILED"]
    <3>1. txn' = [x \in Rows |->
                    IF x = t THEN [txn[t] EXCEPT !.status = "FAILED"] ELSE txn[x]]
      BY <1>5 DEF process_payment_failed, Settle
    <3> QED BY <1>1, <3>1
  <2>4. balance' = [balance EXCEPT ![txn[t].acct] = balance[p] + txn[t].amount]
    BY <1>1, <1>4, <1>5, <2>1 DEF process_payment_failed, Settle
  <2>5. Drift(a)' - Drift(a) = IF a = txn[t].acct THEN balance[p] - balance[a] ELSE 0
    BY <1>1, <2>2, <2>3, <2>4, RefundDrift
  <2>6. Drift(a)' - Drift(a) = 0
    BY <2>1, <2>2, <2>5
  <2> QED BY <2>6, DriftsAreNumbers, ExplainedBy
<1>6. CASE process_payment_succeeded(w)
  <2>1. p = txn[t].rel
    BY <1>6 DEF process_payment_succeeded, PaidAccount
  <2>2. balance[p] \in Int
    BY <1>3, <2>1, MoneyFits DEF Balances
  <2>3. txn' = [x \in Rows |->
                  IF x = t THEN [txn[t] EXCEPT !.status = "COMPLETED"]
                  ELSE IF x = w
                  THEN [type |-> "TRANSFER_IN", status |-> "COMPLETED",
                        acct |-> p, rel |-> txn[t].acct, amount |-> note[w].amount,
                        key |-> None, long |-> txn[t].long]
                  ELSE txn[x]]
    BY <1>6 DEF process_payment_succeeded, Settle
  <2>4. balance' = [balance EXCEPT ![p] = balance[p] + txn[t].amount]
    BY <1>1, <1>4, <1>6 DEF process_payment_succeeded, Settle
  <2>5. SameEntry(txn, txn', t)
    BY <1>1, <1>2, <2>3 DEF SameEntry, Transaction
  <2>6. \A x \in Rows \ {w} : SameEntry(txn, txn', x)
    BY <2>3, <2>5 DEF SameEntry
  <2>7. Entry(txn, w, a) = 0
    BY <1>1 DEF Entry, In, Out, NoTransaction
  <2>8. Entry(txn', w, a) = IF a = p THEN txn[t].amount ELSE 0
    BY <1>1, <1>2, <2>3 DEF Entry, In, Out
  <2>9. /\ balance[a] \in Int
        /\ Drift(a)' - Drift(a) =
             (balance'[a] - balance[a]) - (Entry(txn', w, a) - Entry(txn, w, a))
    BY <2>6, DriftOfOneRow
  <2>10. balance'[a] = IF a = p THEN balance[p] + txn[t].amount ELSE balance[a]
    BY <1>3, <2>1, <2>4
  <2>11. Drift(a)' - Drift(a) = 0
    BY <1>3, <2>2, <2>7, <2>8, <2>9, <2>10
  <2> QED BY <2>11, DriftsAreNumbers, ExplainedBy
<1> QED BY <1>5, <1>6

\* The job refunds with the object it keeps from one payment to the next.
LEMMA ExpiryDrift ==
    ASSUME IInv, IInv', FiniteTable, FiniteTable', NEW a \in Accounts,
           NEW j \in Jobs, expire_payment(j)
    PROVE  Explained(a)
<1> USE Names DEF IInv, TypeOK
<1> DEFINE t == current[j]
<1>1. /\ t \in Rows /\ txn[t].status = "PENDING"
      /\ cached[j].id = txn[t].acct /\ pc[j] = "account_locked"
  BY DEF expire_payment, JobOK
<1>2. txn[t].acct \in Accounts
  BY <1>1 DEF NoTransaction, Transaction
<1>3. cached[j].balance \in Int
  <2>1. LoadAccount(j, txn[t].acct) = cached[j]
    BY <1>1 DEF LoadAccount
  <2> QED BY <1>2, <2>1, LoadAccountType, MoneyFits DEF Balances
<1>4. /\ txn' = [txn EXCEPT ![t].status = "FAILED"]
      /\ balance' = [balance EXCEPT ![txn[t].acct] = cached[j].balance + txn[t].amount]
      /\ pc'[j] = "looping"
  BY DEF expire_payment, Goto
<1>5. Drift(a)' - Drift(a) = IF a = txn[t].acct THEN cached[j].balance - balance[a] ELSE 0
  BY <1>1, <1>3, <1>4, RefundDrift
<1>6. a = txn[t].acct => cached[j].balance - balance[a] = Staleness(j, a)
  BY <1>1 DEF Staleness
<1> QED BY <1>1, <1>4, <1>5, <1>6, DriftsAreNumbers, ExplainedBy

\* Every other step leaves balances and entries alone.
LEMMA EveryDriftIsExplained ==
    ASSUME IInv, BookInv, [Next]_vars, NEW a \in Accounts
    PROVE  Explained(a)
<1>1. IInv' /\ FiniteTable /\ FiniteTable'
  BY NextKeepsIInv, FiniteTableKept DEF BookInv
<1>2. ASSUME balance' = balance, \A x \in Rows : SameEntry(txn, txn', x)
      PROVE  Explained(a)
  BY <1>1, <1>2, NoDrift DEF Explained
<1>3. CASE balance' = balance /\ txn' = txn
  BY <1>2, <1>3 DEF SameEntry
<1>4. ASSUME NEW r \in Requests, RequestStep(r)
      PROVE  Explained(a)
  <2>1. CASE execute_deposit(r)
    BY <1>1, <2>1, DepositDrift
  <2>2. CASE execute_payment(r)
    BY <1>1, <2>2, PaymentDrift
  <2>3. CASE ~execute_deposit(r) /\ ~execute_payment(r)
    BY <1>3, <1>4, <2>3 DEF RequestStep, HandleRequest, get_current_account, reject_payment,
       reserve_idempotency_key, answer_conflict, lock_sender, payment_overflows,
       abort_request, refresh_payment, finalize_idempotency_key, tables
  <2> QED BY <2>1, <2>2, <2>3
<1>5. ASSUME NEW w \in Deliveries, DeliveryStep(w)
      PROVE  Explained(a)
  <2>1. CASE process_payment_succeeded(w) \/ process_payment_failed(w)
    BY <1>1, <2>1, SettlementDrift
  <2>2. CASE ~process_payment_succeeded(w) /\ ~process_payment_failed(w)
    BY <1>3, <1>5, <2>2 DEF DeliveryStep, HandleDelivery, handle_webhook_event,
       payment_confirmation, schedule_task, lock_payment, lock_paid_account,
       settlement_is_refused, abort_settlement, mark_webhook_processed,
       record_webhook_error, tables
  <2> QED BY <2>1, <2>2
<1>6. ASSUME NEW j \in Jobs, run_cleanup_job(j)
      PROVE  Explained(a)
  <2>1. CASE expire_payment(j)
    BY <1>1, <2>1, ExpiryDrift
  <2>2. CASE cleanup_expired_idempotency_keys(j)
    <3>1. \A x \in Rows : SameEntry(txn, txn', x)
      BY <2>2 DEF cleanup_expired_idempotency_keys, SameEntry, IInv, TypeOK, Transaction,
         NoTransaction
    <3> QED BY <1>2, <2>2, <3>1 DEF cleanup_expired_idempotency_keys
  <2>3. CASE ~expire_payment(j) /\ ~cleanup_expired_idempotency_keys(j)
    BY <1>3, <1>6, <2>3 DEF run_cleanup_job, cleanup_old_webhook_events, select_stale_ids,
       next_stale_id, lock_stale_payment, lock_sender_account, refund_is_refused,
       all_visited, end_run, tables
  <2> QED BY <2>1, <2>2, <2>3
<1>7. (\E s \in Sessions : deadlock_detected(s) \/ database_error(s)) =>
        balance' = balance /\ txn' = txn
  BY AbortMovesNoMoney DEF deadlock_detected, database_error
<1>8. TimePasses \/ crash \/ UNCHANGED vars => balance' = balance /\ txn' = txn
  BY DEF TimePasses, crash, vars, storeVars, tables
<1> QED BY <1>3, <1>4, <1>5, <1>6, <1>7, <1>8 DEF Next, Request, Delivery, Job

\* The table stays finite, and who debits under the lock has loaded the sender.
THEOREM BookInvariance == Spec => [](IInv /\ BookInv)
<1>1. Init => BookInv
  <2>1. Init => Existing(txn) = {}
    BY DEF Init, InitStore, Existing, NoTransaction
  <2> QED BY <2>1, FS_EmptySet DEF Init, InitStore, BookInv, FiniteTable, SenderLoaded, Sessions, Rows
<1>2. IInv /\ BookInv /\ [Next]_vars => BookInv'
  BY FiniteTableKept, SenderLoadedKept DEF BookInv
<1> QED BY <1>1, <1>2, Invariance, PTL DEF Spec

\* Money appears or disappears only through a stale Account object, and then
\* exactly as much as it is stale: for any number of accounts, requests,
\* webhooks, jobs, deadlocks and crashes.
THEOREM DriftIsStaleness == Spec => DriftOnlyFromStaleObject
<1>1. IInv /\ BookInv /\ [Next]_vars =>
        [\A a \in Accounts : Drift(a)' # Drift(a) =>
           \E s \in Requests \cup Jobs :
              /\ pc[s] # pc'[s]
              /\ Drift(a)' - Drift(a) = Staleness(s, a)]_vars
  BY EveryDriftIsExplained DEF Explained
<1> QED BY <1>1, BookInvariance, PTL DEF Spec, DriftOnlyFromStaleObject

\* A behaviour in which whoever changes a balance or a transaction holds no
\* stale Account object, as if every lock were taken before the object is read.
FreshWriters ==
    [][\A s \in Requests \cup Jobs, a \in Accounts :
         pc'[s] # pc[s] /\ <<txn, balance>>' # <<txn, balance>> => Staleness(s, a) = 0]_vars

\* What README.md:24 promises holds wherever the objects are fresh: then every
\* balance is what its transactions add up to, for any interleaving, deadlocks
\* and crashes. So nothing but the reading of an account before its lock
\* (dependencies.py) can make money appear or disappear.
THEOREM FreshObjectsAreSound == Spec /\ FreshWriters => []BalancesAddUp
<1>1. Init => BalancesAddUp
  <2> SUFFICES ASSUME Init, NEW a \in Accounts PROVE Drift(a) = 0
    BY DEF BalancesAddUp
  <2>1. In(txn, a) = {} /\ Out(txn, a) = {}
    BY DEF Init, InitStore, In, Out, NoTransaction
  <2>2. SumOf(txn, {}) = 0
    BY FS_EmptySet, SumFromFirst DEF Amounts
  <2>3. balance[a] = Opening[a] /\ Opening[a] \in Int
    BY MoneyFits DEF Init, InitStore
  <2>4. BookOf(txn, a) = Opening[a] + 0 - 0
    BY <2>1, <2>2, Zenon DEF BookOf
  <2>5. Drift(a) = balance[a] - BookOf(txn, a)
    BY DriftIsFromBook
  <2> QED BY <2>3, <2>4, <2>5
<1> DEFINE Fresh == \A s \in Requests \cup Jobs, a \in Accounts :
               pc'[s] # pc[s] /\ <<txn, balance>>' # <<txn, balance>> => Staleness(s, a) = 0
<1>2. IInv /\ BookInv /\ BalancesAddUp /\ [Next]_vars /\ [Fresh]_vars => BalancesAddUp'
  <2> SUFFICES ASSUME IInv, BookInv, BalancesAddUp, [Next]_vars, [Fresh]_vars, NEW a \in Accounts
               PROVE  Drift(a)' = 0
    BY DEF BalancesAddUp
  <2>1. Drift(a) = 0
    BY DEF BalancesAddUp
  <2>2. CASE txn' = txn /\ balance' = balance
    BY <2>1, <2>2, DriftIsFromBook
  <2>3. CASE <<txn, balance>>' # <<txn, balance>>
    <3>1. vars' # vars
      BY <2>3 DEF vars, storeVars, tables
    <3>2. Fresh
      BY <3>1
    <3>3. Explained(a)
      BY EveryDriftIsExplained
    <3>4. Drift(a) \in Int /\ Drift(a)' \in Int
      BY NextKeepsIInv, FiniteTableKept, DriftsAreNumbers DEF BookInv
    <3>5. Drift(a)' # Drift(a) => Drift(a)' - Drift(a) = 0
      BY <2>3, <3>2, <3>3 DEF Explained
    <3> QED BY <2>1, <3>4, <3>5
  <2> QED BY <2>2, <2>3
<1> QED BY <1>1, <1>2, BookInvariance, PTL DEF Spec, FreshWriters

=============================================================================
