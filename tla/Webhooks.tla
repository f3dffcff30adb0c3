------------------------------ MODULE Webhooks ------------------------------
(***************************************************************************)
(* POST /webhooks/payment-confirmation (app/routers/webhooks.py) and the   *)
(* background task that settles the payment it is about                    *)
(* (app/services/webhook_processing.py).  Signature checking is left out:  *)
(* every delivery here is one the endpoint has verified and parsed.        *)
(***************************************************************************)
EXTENDS Store

CONSTANT Notices  \* the bodies the gateway signs; tx = None is an unknown id

ASSUME NoticesAreValid ==
    Notices \subseteq
        [event : EventIds, type : {"payment.succeeded", "payment.failed"},
         tx : Rows \cup {None}, amount : Nat]

VARIABLES
    note,   \* the body of each delivery
    fault   \* the exception a delivery is about to record, or how it was cut off

deliveryVars == <<note, fault>>

\* The error_message of an event; "none" is NULL.
Errors == {"not_found", "already_processed", "amount_mismatch", "internal"}

\* An exception that nothing catches, or a task lost with its process.
Faults == Errors \cup {"none", "uncaught", "lost"}

\* process_payment_failed builds its exceptions without the argument they
\* require, so what it raises is a TypeError, caught as an unexpected error.
Raised(n, error) == IF n.type = "payment.failed" THEN "internal" ELSE error

AmountNotCompared(n) == FALSE
AmountDiffers(n) == txn[n.tx].amount # n.amount

\* The checks both process_payment_ functions make, in their order.
Rejection(n) ==
    IF n.tx = None THEN Raised(n, "not_found")
    ELSE IF txn[n.tx].status # "PENDING" THEN Raised(n, "already_processed")
    ELSE IF AmountDiffers(n) THEN Raised(n, "amount_mismatch")
    ELSE "none"

\* The account a settlement pays: the recipient, or the sender refunded.
PaidToRecipient(n) == txn[n.tx].rel
PaidAccount(n) ==
    IF n.type = "payment.succeeded" THEN txn[n.tx].rel ELSE txn[n.tx].acct

InitWebhooks ==
    /\ note = [w \in Deliveries |-> None]
    /\ fault = [w \in Deliveries |-> "none"]

\* Roll back; the error is recorded by the next step.
Fail(w, error) ==
    /\ fault' = [fault EXCEPT ![w] = error]
    /\ Goto(w, "failing")
    /\ Forget(w)
    /\ Release(w)

\* The request or the task ends with the exception.
EndUncaught(w) ==
    /\ fault' = [fault EXCEPT ![w] = "uncaught"]
    /\ Goto(w, "done")
    /\ UNCHANGED <<tables, lock, cached, old, note>>

\* INSERT into webhook_events and commit; the unique event_id refuses a
\* duplicate, also of an event that has failed.
reserve_webhook_event(w, n) ==
    \/ /\ event[n.event].id = None
       /\ event' = [event EXCEPT ![n.event] = [NoEvent EXCEPT !.id = w]]
       /\ Goto(w, "stored")
    \/ /\ event[n.event].id # None
       /\ Goto(w, "done")
       /\ UNCHANGED event

\* Store the event, or ignore the duplicate.
payment_confirmation(w) ==
    /\ pc[w] = "idle"
    /\ \E n \in Notices :
        /\ n.tx # None => Exists(n.tx)
        /\ note' = [note EXCEPT ![w] = n]
        /\ reserve_webhook_event(w, n)
    /\ UNCHANGED <<balance, txn, idem, lock, cached, old, fault>>

\* db.refresh(entry), in a transaction of its own, and add_task.
schedule_task(w) ==
    /\ pc[w] = "stored"
    /\ Goto(w, "accepted")
    /\ UNCHANGED <<tables, lock, cached, old, deliveryVars>>

\* The refresh raises: a 500 for an event that is stored and has no task.
refresh_raises(w) == pc[w] = "stored" /\ EndUncaught(w)

\* Lock the payment, then check it.
lock_payment(w) ==
    LET n == note[w]
    IN  /\ pc[w] = "accepted"
        /\ n.tx # None => CanLock(w, n.tx)
        /\ \/ /\ Rejection(n) # "none"
              /\ Fail(w, Rejection(n))
           \/ /\ Rejection(n) = "none"
              /\ Acquire(w, n.tx)
              /\ Goto(w, "payment_locked")
              /\ UNCHANGED <<cached, fault>>
        /\ UNCHANGED <<tables, old, note>>

lock_paid_account_without_for_update(w) ==
    /\ pc[w] = "payment_locked"
    /\ Load(w, PaidAccount(note[w]))
    /\ Goto(w, "account_locked")
    /\ UNCHANGED <<tables, lock, old, deliveryVars>>

lock_paid_account(w) ==
    LET a == PaidAccount(note[w])
    IN  /\ pc[w] = "payment_locked"
        /\ CanLock(w, a)
        /\ Acquire(w, a)
        /\ Load(w, a)
        /\ Goto(w, "account_locked")
        /\ UNCHANGED <<tables, old, deliveryVars>>

\* The commit that ends both process_payment_ functions.
Settle(w, status) ==
    LET n == note[w]
        a == PaidAccount(n)
        t == n.tx
        credit == [type |-> "TRANSFER_IN", status |-> "COMPLETED",
                   acct |-> a, rel |-> txn[t].acct, amount |-> n.amount,
                   key |-> None, long |-> txn[t].long]
    IN  /\ Fits(cached[w].balance + n.amount)
        /\ balance' = [balance EXCEPT ![a] = cached[w].balance + n.amount]
        /\ txn' = [x \in Rows |->
                     IF x = t THEN [txn[t] EXCEPT !.status = status]
                     ELSE IF x = w /\ status = "COMPLETED" THEN credit
                     ELSE txn[x]]
        /\ Release(w)
        /\ Forget(w)
        /\ Goto(w, "settled")
        /\ UNCHANGED <<idem, event, old, deliveryVars>>

process_payment_succeeded(w) ==
    /\ pc[w] = "account_locked"
    /\ note[w].type = "payment.succeeded"
    /\ "TRANSFER_IN" \in TypeLabels
    /\ CanReference(w, txn[note[w].tx].acct)
    /\ Settle(w, "COMPLETED")

process_payment_failed(w) ==
    /\ pc[w] = "account_locked"
    /\ note[w].type = "payment.failed"
    /\ Settle(w, "FAILED")

\* A statement before the settling commit raises.
abort_settlement(w) ==
    /\ pc[w] \in {"accepted", "payment_locked", "account_locked"}
    /\ Fail(w, "internal")
    /\ UNCHANGED <<tables, old, note>>

\* The UPDATE of the balance or the INSERT of the credit is refused.
settlement_is_refused(w) ==
    /\ pc[w] = "account_locked"
    /\ \/ ~Fits(cached[w].balance + note[w].amount)
       \/ note[w].type = "payment.succeeded" /\ "TRANSFER_IN" \notin TypeLabels
    /\ abort_settlement(w)

\* A commit of its own, after the one that settled the payment.
mark_webhook_processed(w) ==
    /\ pc[w] = "settled"
    /\ event' = [event EXCEPT ![note[w].event].processed = TRUE]
    /\ Goto(w, "done")
    /\ UNCHANGED <<balance, txn, idem, lock, cached, old, deliveryVars>>

\* It raises, and so does a settling commit that was not acknowledged.  The
\* mark may have been committed all the same.
mark_raises(w) ==
    /\ pc[w] = "settled"
    /\ \/ UNCHANGED event
       \/ event' = [event EXCEPT ![note[w].event].processed = TRUE]
    /\ Fail(w, "internal")
    /\ UNCHANGED <<balance, txn, idem, old, note>>

record_webhook_error_and_mark_processed(w) ==
    /\ pc[w] = "failing"
    /\ event' = [event EXCEPT ![note[w].event].error = fault[w],
                              ![note[w].event].processed = TRUE]
    /\ Goto(w, "done")
    /\ UNCHANGED <<balance, txn, idem, lock, cached, old, deliveryVars>>

record_webhook_error_without_commit(w) ==
    /\ pc[w] = "failing"
    /\ Goto(w, "done")
    /\ UNCHANGED <<tables, lock, cached, old, deliveryVars>>

record_webhook_error(w) ==
    /\ pc[w] = "failing"
    /\ event' = [event EXCEPT ![note[w].event].error = fault[w]]
    /\ Goto(w, "done")
    /\ UNCHANGED <<balance, txn, idem, lock, cached, old, deliveryVars>>

\* The record of the error raises, outside any try.
record_raises(w) == pc[w] = "failing" /\ EndUncaught(w)

\* What the background task does when the database answers.
handle_webhook_event(w) ==
    \/ lock_payment(w)
    \/ lock_paid_account(w)
    \/ process_payment_succeeded(w)
    \/ process_payment_failed(w)
    \/ settlement_is_refused(w)
    \/ mark_webhook_processed(w)
    \/ record_webhook_error(w)

HandleDelivery(w) == schedule_task(w) \/ handle_webhook_event(w)

DeliveryStep(w) == payment_confirmation(w) \/ HandleDelivery(w)

\* Whatever statement the delivery is at raises.
abort_delivery(w) ==
    \/ refresh_raises(w)
    \/ abort_settlement(w)
    \/ mark_raises(w)
    \/ record_raises(w)

==============================================================================
