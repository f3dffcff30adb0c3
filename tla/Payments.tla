------------------------------ MODULE Payments ------------------------------
(***************************************************************************)
(* POST /transactions/deposits and POST /transactions/payments: the        *)
(* handlers of app/routers/transactions.py with the services they call.    *)
(* An action is what a session does between two points where another       *)
(* session can run: one statement that may wait, with the commit it ends   *)
(* in when nothing in between can wait.                                    *)
(***************************************************************************)
EXTENDS Store

CONSTANT Bodies  \* the requests clients send: an authenticated user's body

ASSUME BodiesAreValid ==
    Bodies \subseteq
        [kind : {"deposit", "payment"}, from : Accounts,
         to : Accounts \cup {None}, amount : Nat \ {0},
         key : Keys \cup {None}, long : BOOLEAN]

ASSUME PaymentsCarryAKey ==
    \A b \in Bodies : b.kind = "payment" => b.key # None

VARIABLES
    body,    \* the body of each request
    answer   \* the response each request got

requestVars == <<body, answer>>

\* Responses: the outcome, and the transaction a 201 response shows.
Failures ==
    {"own_account", "no_recipient", "retry", "payload_differs",
     "in_progress", "error", "lost"}
NoAnswer == [code |-> "none", id |-> None, status |-> "none"]
Created(t, s) == [code |-> "created", id |-> t, status |-> s]
Failure(c) == [code |-> c, id |-> None, status |-> "none"]

\* SHA-256 over the sorted JSON of the payload, taken to be injective.
hash_without_amount(b) == <<b.to, b.long>>
compute_request_hash(b) == <<b.to, b.amount, b.long>>

KeyOf(r) == <<body[r].from, body[r].key>>

\* The request ends: its session is closed and the client gets a response.
Respond(r, a) ==
    /\ answer' = [answer EXCEPT ![r] = a]
    /\ Goto(r, "done")
    /\ Forget(r)

InitPayments ==
    /\ body = [r \in Requests |-> None]
    /\ answer = [r \in Requests |-> NoAnswer]

\* The dependency loads the account row, without a lock; the object stays
\* in the session until the response.
get_current_account(r) ==
    /\ pc[r] = "idle"
    /\ \E b \in Bodies :
        /\ body' = [body EXCEPT ![r] = b]
        /\ Load(r, b.from)
    /\ Goto(r, "loaded")
    /\ UNCHANGED <<tables, lock, old, answer>>

\* Lock, add to the object in the session, insert, commit.
execute_deposit(r) ==
    LET b == body[r]
        new == LoadAccount(r, b.from).balance + b.amount
    IN  /\ pc[r] = "loaded"
        /\ b.kind = "deposit"
        /\ CanLock(r, b.from)
        /\ \/ /\ Fits(new)
              /\ balance' = [balance EXCEPT ![b.from] = new]
              /\ txn' = [txn EXCEPT ![r] =
                            [type |-> "DEPOSIT", status |-> "COMPLETED",
                             acct |-> b.from, rel |-> None,
                             amount |-> b.amount, key |-> None,
                             long |-> b.long]]
              /\ Respond(r, Created(r, "COMPLETED"))
           \/ /\ ~Fits(new)
              /\ Respond(r, Failure("error"))
              /\ UNCHANGED <<balance, txn>>
        /\ UNCHANGED <<idem, event, lock, old, body>>

\* A payment to the sender's own number, or to a number nobody has.
reject_payment(r) ==
    /\ pc[r] = "loaded"
    /\ body[r].kind = "payment"
    /\ \/ body[r].to = body[r].from /\ Respond(r, Failure("own_account"))
       \/ body[r].to = None /\ Respond(r, Failure("no_recipient"))
    /\ UNCHANGED <<tables, lock, old, body>>

\* The unique constraint on (user, key, endpoint).
KeyTakenByResponse(r) == idem[KeyOf(r)].reply # None
KeyTaken(r) == idem[KeyOf(r)].id # None

\* INSERT into idempotency_keys and commit; on a unique violation, roll back.
reserve_idempotency_key(r) ==
    /\ pc[r] = "loaded"
    /\ body[r].kind = "payment"
    /\ body[r].to \notin {None, body[r].from}
    /\ \/ /\ ~KeyTaken(r)
          /\ idem' = [idem EXCEPT ![KeyOf(r)] =
                        [id |-> r, hash |-> compute_request_hash(body[r]),
                         reply |-> None]]
          /\ Goto(r, "reserved")
          /\ UNCHANGED cached
       \/ /\ KeyTaken(r)
          /\ Goto(r, "conflict")
          /\ Forget(r)
          /\ UNCHANGED idem
    /\ UNCHANGED <<balance, txn, event, lock, old, requestVars>>

answer_conflict_once_stored(r) ==
    /\ pc[r] = "conflict"
    /\ idem[KeyOf(r)].reply # None
    /\ Respond(r, idem[KeyOf(r)].reply)
    /\ UNCHANGED <<tables, lock, old, body>>

\* The key was taken: read it again and answer from what it holds now.
answer_conflict(r) ==
    LET existing == idem[KeyOf(r)]
        differs == existing.hash # compute_request_hash(body[r])
    IN  /\ pc[r] = "conflict"
        /\ Respond(r,
             IF existing.id = None THEN Failure("retry")
             ELSE IF differs THEN Failure("payload_differs")
             ELSE IF existing.reply = None THEN Failure("in_progress")
             ELSE existing.reply)
        /\ UNCHANGED <<tables, lock, old, body>>

\* execute_payment locks the sender; the object keeps the balance that
\* get_current_account loaded.
lock_sender(r) ==
    /\ pc[r] = "reserved"
    /\ CanLock(r, body[r].from)
    /\ Acquire(r, body[r].from)
    /\ Load(r, body[r].from)
    /\ Goto(r, "locked")
    /\ UNCHANGED <<tables, old, requestVars>>

\* The check that decides between a FAILED and a PENDING payment.
EnoughUnchecked(r) == TRUE
Enough(r) == cached[r].balance >= body[r].amount

\* Debit the sender or not, insert the payment, commit.
execute_payment(r) ==
    LET b == body[r]
    IN  /\ pc[r] = "locked"
        /\ Fits(b.amount)
        /\ CanReference(r, b.to)
        /\ balance' = IF Enough(r)
                      THEN [balance EXCEPT ![b.from] = cached[r].balance - b.amount]
                      ELSE balance
        /\ txn' = [txn EXCEPT ![r] =
                     [type |-> "PAYMENT",
                      status |-> IF Enough(r) THEN "PENDING" ELSE "FAILED",
                      acct |-> b.from, rel |-> b.to, amount |-> b.amount,
                      key |-> r, long |-> b.long]]
        /\ Release(r)
        /\ Goto(r, "committed")
        /\ UNCHANGED <<idem, event, cached, old, requestVars>>

\* A statement raises: the session is closed, its transaction rolled back, and
\* the client gets a 500.  An idempotency key stays as it was reserved.
abort_request(r) ==
    /\ pc[r] \notin {"idle", "done"}
    /\ Release(r)
    /\ Respond(r, Failure("error"))
    /\ UNCHANGED <<tables, old, body>>

\* The amount does not fit its column.
payment_overflows(r) ==
    /\ pc[r] = "locked"
    /\ ~Fits(body[r].amount)
    /\ abort_request(r)

\* db.refresh(transaction): the response shows the status of that moment.
refresh_payment(r) ==
    /\ pc[r] = "committed"
    /\ answer' = [answer EXCEPT ![r] = [NoAnswer EXCEPT !.status = txn[r].status]]
    /\ Goto(r, "refreshed")
    /\ UNCHANGED <<tables, lock, cached, old, body>>

store_status_of_now(r) ==
    /\ pc[r] = "refreshed"
    /\ idem' = [idem EXCEPT ![KeyOf(r)].reply = Created(r, txn[r].status)]
    /\ Respond(r, Created(r, answer[r].status))
    /\ UNCHANGED <<balance, txn, event, lock, old, body>>

\* Store the response under the key and send it.
finalize_idempotency_key(r) ==
    LET response == Created(r, answer[r].status)
    IN  /\ pc[r] = "refreshed"
        /\ idem' = [idem EXCEPT ![KeyOf(r)].reply = response]
        /\ Respond(r, response)
        /\ UNCHANGED <<balance, txn, event, lock, old, body>>

\* What the handler does once it has its account.
HandleRequest(r) ==
    \/ execute_deposit(r)
    \/ reject_payment(r)
    \/ reserve_idempotency_key(r)
    \/ answer_conflict(r)
    \/ lock_sender(r)
    \/ execute_payment(r)
    \/ payment_overflows(r)
    \/ refresh_payment(r)
    \/ finalize_idempotency_key(r)

RequestStep(r) == get_current_account(r) \/ HandleRequest(r)

==============================================================================
