------------------------------- MODULE Cleanup -------------------------------
(***************************************************************************)
(* run_cleanup_job (app/scheduler.py) with the three functions of          *)
(* app/services/cleanup.py it calls on one session.                        *)
(***************************************************************************)
EXTENDS Store

VARIABLES
    stale_ids,  \* the ids a job has selected and not yet visited
    current     \* the id a job is visiting

jobVars == <<stale_ids, current>>

InitCleanup ==
    /\ stale_ids = [j \in Jobs |-> {}]
    /\ current = [j \in Jobs |-> None]

end_run_without_close(j) ==
    /\ stale_ids' = [stale_ids EXCEPT ![j] = {}]
    /\ current' = [current EXCEPT ![j] = None]
    /\ Goto(j, "idle")
    /\ UNCHANGED <<tables, lock, cached, old>>

\* The session is closed, after the last statement or after an error.
end_run(j) ==
    /\ Release(j)
    /\ Forget(j)
    /\ stale_ids' = [stale_ids EXCEPT ![j] = {}]
    /\ current' = [current EXCEPT ![j] = None]
    /\ Goto(j, "idle")
    /\ UNCHANGED <<tables, old>>

\* DELETE FROM idempotency_keys; the foreign key of transactions is ON
\* DELETE SET NULL, so it updates the payments made under those keys and
\* waits for whoever has them locked.
cleanup_expired_idempotency_keys(j) ==
    LET deleted == {idem[ak].id : ak \in old.keys}
        linked == {t \in Rows : txn[t].key \in deleted \ {None}}
    IN  /\ pc[j] = "idle"
        /\ \A t \in linked : CanLock(j, t)
        /\ idem' = [ak \in Accounts \X Keys |->
                      IF ak \in old.keys THEN NoKey ELSE idem[ak]]
        /\ txn' = [t \in Rows |->
                     IF t \in linked THEN [txn[t] EXCEPT !.key = None] ELSE txn[t]]
        /\ old' = [old EXCEPT !.keys = {}]
        /\ Goto(j, "keys_deleted")
        /\ UNCHANGED <<balance, event, lock, cached, jobVars>>

\* Only processed events are deleted: one that failed is kept for ever.
cleanup_old_webhook_events(j) ==
    LET deleted == {e \in old.events : event[e].processed}
    IN  /\ pc[j] = "keys_deleted"
        /\ event' = [e \in EventIds |-> IF e \in deleted THEN NoEvent ELSE event[e]]
        /\ old' = [old EXCEPT !.events = @ \ deleted]
        /\ Goto(j, "events_deleted")
        /\ UNCHANGED <<balance, txn, idem, lock, cached, jobVars>>

\* Pending payments created before the cutoff.
CreatedAfterCutoff(t) ==
    /\ t \notin old.rows
    /\ txn[t].type = "PAYMENT"
    /\ txn[t].status = "PENDING"
Stale(t) ==
    /\ t \in old.rows
    /\ txn[t].type = "PAYMENT"
    /\ txn[t].status = "PENDING"

\* The ids are read once, without a lock.
select_stale_ids(j) ==
    /\ pc[j] = "events_deleted"
    /\ stale_ids' = [stale_ids EXCEPT ![j] = {t \in Rows : Stale(t)}]
    /\ Goto(j, "looping")
    /\ UNCHANGED <<tables, lock, cached, old, current>>

\* The query has no ORDER BY.
next_stale_id(j) ==
    /\ pc[j] = "looping"
    /\ \E t \in stale_ids[j] :
        /\ current' = [current EXCEPT ![j] = t]
        /\ stale_ids' = [stale_ids EXCEPT ![j] = @ \ {t}]
    /\ Goto(j, "visiting")
    /\ UNCHANGED <<tables, lock, cached, old>>

\* The check under the lock.
PendingUnchecked(t) == TRUE
StillPending(t) == txn[t].status = "PENDING"

\* A payment settled meanwhile is skipped, and stays locked until the next
\* commit of this session.
lock_stale_payment(j) ==
    LET t == current[j]
    IN  /\ pc[j] = "visiting"
        /\ CanLock(j, t)
        /\ Acquire(j, t)
        /\ \/ /\ ~StillPending(t)
              /\ current' = [current EXCEPT ![j] = None]
              /\ Goto(j, "looping")
           \/ /\ StillPending(t)
              /\ Goto(j, "payment_locked")
              /\ UNCHANGED current
        /\ UNCHANGED <<tables, cached, old, stale_ids>>

\* The variable sender_account still holds the account of the payment
\* expired before this one: when it is the same account, it is not reloaded.
lock_sender_account(j) ==
    LET a == txn[current[j]].acct
    IN  /\ pc[j] = "payment_locked"
        /\ CanLock(j, a)
        /\ Acquire(j, a)
        /\ Load(j, a)
        /\ Goto(j, "account_locked")
        /\ UNCHANGED <<tables, old, jobVars>>

\* The balance with the refund, and the description with the text the job
\* appends to it, must both fit their columns.
RefundFits(j) ==
    /\ Fits(cached[j].balance + txn[current[j]].amount)
    /\ ~txn[current[j]].long

\* One commit for each expired payment.
CommitAfterLoop(j) == UNCHANGED lock
CommitRefund(j) == Release(j)

expire_payment(j) ==
    LET t == current[j]
        a == txn[t].acct
        new == cached[j].balance + txn[t].amount
    IN  /\ pc[j] = "account_locked"
        /\ RefundFits(j)
        /\ balance' = [balance EXCEPT ![a] = new]
        /\ txn' = [txn EXCEPT ![t].status = "FAILED"]
        /\ cached' = [cached EXCEPT ![j].balance = new]
        /\ current' = [current EXCEPT ![j] = None]
        /\ CommitRefund(j)
        /\ Goto(j, "looping")
        /\ UNCHANGED <<idem, event, old, stale_ids>>

\* run_cleanup_job logs the error and ends: the payments it has not visited
\* wait for the next run.
refund_is_refused(j) ==
    /\ pc[j] = "account_locked"
    /\ ~RefundFits(j)
    /\ end_run(j)

all_visited(j) ==
    /\ pc[j] = "looping"
    /\ stale_ids[j] = {}
    /\ end_run(j)

run_cleanup_job(j) ==
    \/ cleanup_expired_idempotency_keys(j)
    \/ cleanup_old_webhook_events(j)
    \/ select_stale_ids(j)
    \/ next_stale_id(j)
    \/ lock_stale_payment(j)
    \/ lock_sender_account(j)
    \/ expire_payment(j)
    \/ refund_is_refused(j)
    \/ all_visited(j)

==============================================================================
