---------------------------- MODULE RecordProofs -----------------------------
(***************************************************************************)
(* What the API has on record is true, proved for every value of the       *)
(* constants of Bank.                                                      *)
(*                                                                         *)
(* An Idempotency-Key: one charge for each key, and the original response  *)
(* for each retry.  On top of the inductive invariant of BankProofs, KInv  *)
(* relates the tables of keys and transactions, the requests and their     *)
(* answers.  Most steps are Quiet: they touch none of that.  The six that  *)
(* are not each have a lemma.                                              *)
(*                                                                         *)
(* A webhook event: its recorded outcome.  The settlement and the record   *)
(* of it are two commits, with the steps of every other session in         *)
(* between, and the second can raise when the first is done.  So           *)
(* OutcomeInv follows the delivery that owns an event: once it has settled *)
(* the payment, that has the status announced and keeps it, and the only   *)
(* error that can still be recorded is the internal one; a refusal is      *)
(* raised with a reason that holds, and goes on to hold.                   *)
(***************************************************************************)
EXTENDS BankProofs

\* A payment that is linked to a key is linked to the one its own request
\* reserved, and that key is in the table.
KeyLink ==
    \A r \in Requests : txn[r].key # None =>
        /\ KeyOf(r) \in Accounts \X Keys
        /\ txn[r].key = r
        /\ idem[KeyOf(r)].id = r

\* A key in the table was reserved by a payment under that key, with the hash
\* of its payload; and its response is that of this payment, which is over.
KeyRowInv ==
    \A k \in Accounts \X Keys : idem[k].id # None =>
        LET q == idem[k].id
        IN  /\ q \in Requests
            /\ KeyOf(q) = k
            /\ body[q] \in Bodies
            /\ body[q].kind = "payment"
            /\ pc[q] \notin {"idle", "loaded"}
            /\ idem[k].hash = compute_request_hash(body[q])
            /\ idem[k].reply # None => idem[k].reply.id = q /\ pc[q] = "done"

\* Whoever was answered with a payment has the stored response, and the hash,
\* of the request that made it, as long as that one has the key.
AnswerInv ==
    \A r \in Requests : answer[r].code = "created" =>
        /\ pc[r] = "done"
        /\ body[r].kind = "payment" =>
             /\ body[r] \in Bodies
             /\ answer[r].id \in Requests
             /\ pc[answer[r].id] = "done"
             /\ idem[KeyOf(r)].id = answer[r].id =>
                  /\ answer[r] = idem[KeyOf(r)].reply
                  /\ compute_request_hash(body[r]) = idem[KeyOf(r)].hash

KInv == KeyLink /\ KeyRowInv /\ AnswerInv

(***************************************************************************)
(* Quiet steps                                                             *)
(***************************************************************************)
PcForward ==
    \A r \in Requests :
        /\ pc[r] = "done" => pc'[r] = "done"
        /\ pc[r] \notin {"idle", "loaded"} => pc'[r] \notin {"idle", "loaded"}

\* A step that touches neither keys nor references to them, and answers
\* nobody with a payment.
Quiet ==
    /\ idem' = idem
    /\ body' = body
    /\ PcForward
    /\ \A r \in Requests : txn'[r].key = txn[r].key
    /\ \A r \in Requests :
        \/ answer'[r] = answer[r]
        \/ answer'[r].code # "created"
        \/ body[r].kind # "payment" /\ pc'[r] = "done"

\* A quiet step keeps what is known of the keys.
LEMMA QuietKeepsKInv ==
    ASSUME KInv, Quiet
    PROVE  KInv'
<1> USE DEF KInv, Quiet, PcForward
<1>1. \A r \in Requests : KeyOf(r)' = KeyOf(r)
  BY DEF KeyOf
<1>2. KeyLink'
  BY <1>1 DEF KeyLink
<1>3. KeyRowInv'
  BY <1>1 DEF KeyRowInv
<1>4. AnswerInv'
  BY <1>1 DEF AnswerInv
<1>5. QED
  BY <1>2, <1>3, <1>4

\* The steps of a request that are quiet.
LEMMA QuietRequestSteps ==
    ASSUME IInv, NEW r \in Requests,
           \/ execute_deposit(r)
           \/ reject_payment(r)
           \/ lock_sender(r)
           \/ abort_request(r)
           \/ refresh_payment(r)
    PROVE  Quiet
<1> USE Names
<1>1. /\ TypeOK /\ RequestOK(r)
      /\ pc \in [Sessions -> RequestSteps \cup DeliverySteps \cup JobSteps]
      /\ answer \in [Requests -> Answers]
      /\ txn \in [Rows -> Transaction \cup {NoTransaction}]
  BY DEF IInv, TypeOK
<1>2. CASE execute_deposit(r)
  <2>1. txn[r].key = None
    BY <1>1, <1>2 DEF execute_deposit, RequestOK, NoTransaction
  <2>2. body[r].kind # "payment" /\ pc[r] = "loaded"
    BY <1>2 DEF execute_deposit
  <2>3. /\ idem' = idem /\ body' = body
        /\ pc' = [pc EXCEPT ![r] = "done"]
        /\ \A q \in Requests \ {r} : txn'[q] = txn[q] /\ answer'[q] = answer[q]
        /\ txn'[r].key = None
    BY <1>1, <1>2, <2>1 DEF execute_deposit, Respond, Goto
  <2>4. QED
    BY <1>1, <2>1, <2>2, <2>3 DEF Quiet, PcForward
<1>3. CASE reject_payment(r)
  BY <1>1, <1>3 DEF reject_payment, Respond, Failure, Goto, tables, Quiet, PcForward
<1>4. CASE lock_sender(r)
  BY <1>1, <1>4 DEF lock_sender, Goto, tables, requestVars, Quiet, PcForward
<1>5. CASE abort_request(r)
  BY <1>1, <1>5 DEF abort_request, Respond, Failure, Goto, tables, Quiet, PcForward
<1>6. CASE refresh_payment(r)
  BY <1>1, <1>6 DEF refresh_payment, Goto, NoAnswer, tables, Quiet, PcForward
<1>7. QED
  BY <1>2, <1>3, <1>4, <1>5, <1>6

\* Deliveries leave the keys and the requests alone.
LEMMA QuietDeliverySteps ==
    ASSUME IInv, NEW w \in Deliveries, DeliveryStep(w) \/ abort_delivery(w),
           StepOf(w), UNCHANGED requestVars
    PROVE  Quiet
<1> USE Names
<1>1. idem' = idem
  BY DEF DeliveryStep, HandleDelivery, handle_webhook_event, payment_confirmation,
     schedule_task, lock_payment, lock_paid_account, process_payment_succeeded,
     process_payment_failed, Settle, settlement_is_refused, mark_webhook_processed,
     record_webhook_error, abort_delivery, refresh_raises, abort_settlement,
     mark_raises, record_raises, EndUncaught, tables
<1>2. \A r \in Requests : pc'[r] = pc[r]
  BY DEF StepOf, SessionsAlone
<1>3. \A r \in Requests : txn'[r].key = txn[r].key
  <2>1. txn \in [Rows -> Transaction \cup {NoTransaction}]
    BY DEF IInv, TypeOK
  <2>2. CASE process_payment_succeeded(w) \/ process_payment_failed(w)
    <3> DEFINE t == note[w].tx
    <3>1. PICK status : Settle(w, status)
      BY <2>2 DEF process_payment_succeeded, process_payment_failed
    <3>2. t \in Rows /\ txn[t].status = "PENDING"
      BY <2>2 DEF IInv, DeliveryOK, process_payment_succeeded, process_payment_failed
    <3>3. txn[t] \in Transaction
      BY <2>1, <3>2 DEF NoTransaction
    <3>4. /\ txn'[t] = [txn[t] EXCEPT !.status = status]
          /\ \A r \in Requests \ {t} : txn'[r] = txn[r]
      BY <3>1, <3>2 DEF Settle
    <3> HIDE DEF t
    <3>5. txn'[t].key = txn[t].key
      BY <3>3, <3>4 DEF Transaction
    <3>6. QED
      BY <3>4, <3>5
  <2>3. CASE ~(process_payment_succeeded(w) \/ process_payment_failed(w))
    BY <2>3 DEF DeliveryStep, HandleDelivery, handle_webhook_event,
       payment_confirmation, schedule_task, lock_payment, lock_paid_account,
       settlement_is_refused, mark_webhook_processed, record_webhook_error,
       abort_delivery, refresh_raises, abort_settlement, mark_raises, record_raises,
       EndUncaught, tables
  <2>4. QED
    BY <2>2, <2>3
<1>4. QED
  BY <1>1, <1>2, <1>3 DEF Quiet, PcForward, requestVars

\* Jobs do too, but for the deletion of the expired keys.
LEMMA QuietJobSteps ==
    ASSUME IInv, NEW j \in Jobs, run_cleanup_job(j) \/ end_run(j), StepOf(j),
           ~cleanup_expired_idempotency_keys(j), UNCHANGED requestVars
    PROVE  Quiet
<1> USE Names
<1>1. idem' = idem
  BY DEF run_cleanup_job, cleanup_old_webhook_events, select_stale_ids, next_stale_id,
     lock_stale_payment, lock_sender_account, expire_payment, refund_is_refused,
     all_visited, end_run, tables
<1>2. \A r \in Requests : pc'[r] = pc[r]
  BY DEF StepOf, SessionsAlone
<1>3. \A r \in Requests : txn'[r].key = txn[r].key
  <2>1. txn \in [Rows -> Transaction \cup {NoTransaction}]
    BY DEF IInv, TypeOK
  <2>2. CASE expire_payment(j)
    <3> DEFINE t == current[j]
    <3>1. t \in Rows /\ txn[t].type = "PAYMENT"
      BY <2>2 DEF IInv, JobOK, expire_payment
    <3>2. txn[t] \in Transaction
      BY <2>1, <3>1 DEF NoTransaction
    <3>3. txn' = [txn EXCEPT ![t] = [txn[t] EXCEPT !.status = "FAILED"]]
      BY <2>2 DEF expire_payment
    <3> HIDE DEF t
    <3>4. QED
      BY <2>1, <3>1, <3>2, <3>3 DEF Transaction
  <2>3. CASE ~expire_payment(j)
    BY <2>3 DEF run_cleanup_job, cleanup_old_webhook_events, select_stale_ids,
       next_stale_id, lock_stale_payment, lock_sender_account, refund_is_refused,
       all_visited, end_run, tables
  <2>4. QED
    BY <2>2, <2>3
<1>4. QED
  BY <1>1, <1>2, <1>3 DEF Quiet, PcForward, requestVars

\* A crash, the passage of time and stuttering are quiet: a handler that dies
\* leaves its key as it was.
LEMMA QuietOtherSteps ==
    ASSUME IInv, crash \/ TimePasses \/ UNCHANGED vars
    PROVE  Quiet
<1> USE Names
<1>1. CASE crash
  <2>1. /\ idem' = idem /\ body' = body /\ txn' = txn
        /\ \A r \in Requests :
             /\ pc'[r] = IF pc[r] = "idle" THEN "idle" ELSE "done"
             /\ answer'[r] = IF Running(r) THEN Failure("lost") ELSE answer[r]
    BY <1>1 DEF crash, tables, Running
  <2>2. Failure("lost").code # "created"
    BY DEF Failure
  <2>3. QED
    BY <2>1, <2>2 DEF Quiet, PcForward
<1>2. CASE TimePasses \/ UNCHANGED vars
  BY <1>2 DEF TimePasses, vars, storeVars, tables, requestVars, Quiet, PcForward
<1>3. QED
  BY <1>1, <1>2

(***************************************************************************)
(* Steps that touch the keys                                               *)
(***************************************************************************)
\* The key of a payment is one of the constants.
LEMMA PaymentKey ==
    ASSUME NEW b \in Bodies, b.kind = "payment"
    PROVE  <<b.from, b.key>> \in Accounts \X Keys
BY BodiesAreValid, PaymentsCarryAKey

\* A request that starts has no key, no transaction and no answer yet.
LEMMA get_current_account_keeps_KInv ==
    ASSUME IInv, KInv, NEW r \in Requests, get_current_account(r)
    PROVE  KInv'
<1> USE Names
<1>1. /\ pc \in [Sessions -> RequestSteps \cup DeliverySteps \cup JobSteps]
      /\ body \in [Requests -> Bodies \cup {None}]
      /\ txn[r].key = None
  BY DEF IInv, TypeOK, RequestOK, get_current_account, NoTransaction
<1>2. /\ idem' = idem /\ txn' = txn /\ answer' = answer
      /\ pc[r] = "idle"
      /\ pc' = [pc EXCEPT ![r] = "loaded"]
      /\ \A q \in Requests \ {r} : body'[q] = body[q]
  BY <1>1 DEF get_current_account, Goto, tables
<1>3. \A q \in Requests \ {r} : KeyOf(q)' = KeyOf(q) /\ pc'[q] = pc[q]
  BY <1>1, <1>2 DEF KeyOf
<1>4. KeyLink'
  BY <1>1, <1>2, <1>3 DEF KInv, KeyLink
<1>5. KeyRowInv'
  BY <1>2, <1>3 DEF KInv, KeyRowInv
<1>6. AnswerInv'
  BY <1>2, <1>3 DEF KInv, AnswerInv
<1>7. QED
  BY <1>4, <1>5, <1>6 DEF KInv

\* A reservation adds a row under a free key; a conflict changes nothing.
LEMMA reserve_idempotency_key_keeps_KInv ==
    ASSUME IInv, KInv, NEW r \in Requests, reserve_idempotency_key(r)
    PROVE  KInv'
<1> USE Names
<1>1. /\ TypeOK /\ RequestOK(r)
      /\ pc \in [Sessions -> RequestSteps \cup DeliverySteps \cup JobSteps]
      /\ DOMAIN idem = Accounts \X Keys
      /\ body[r] \in Bodies /\ body[r].kind = "payment"
      /\ KeyOf(r) \in Accounts \X Keys
  BY PaymentKey DEF IInv, TypeOK, RequestOK, reserve_idempotency_key, KeyOf
<1>2. /\ txn' = txn /\ answer' = answer /\ body' = body /\ pc[r] = "loaded"
      /\ \A q \in Requests : KeyOf(q)' = KeyOf(q)
  BY DEF reserve_idempotency_key, requestVars, KeyOf
<1>3. CASE KeyTaken(r)
  <2>1. idem' = idem /\ pc' = [pc EXCEPT ![r] = "conflict"]
    BY <1>3 DEF reserve_idempotency_key, Goto
  <2>2. Quiet
    BY <1>1, <1>2, <2>1 DEF Quiet, PcForward
  <2>3. QED
    BY <2>2, QuietKeepsKInv
<1>4. CASE ~KeyTaken(r)
  <2> DEFINE row == [id |-> r, hash |-> compute_request_hash(body[r]), reply |-> None]
  <2>1. /\ idem' = [idem EXCEPT ![KeyOf(r)] = row]
        /\ pc' = [pc EXCEPT ![r] = "reserved"]
        /\ idem[KeyOf(r)].id = None
    BY <1>4 DEF reserve_idempotency_key, Goto, KeyTaken
  <2>2. row.id = r /\ row.hash = compute_request_hash(body[r]) /\ row.reply = None
    OBVIOUS
  <2> HIDE DEF row
  <2>3. KeyLink'
    BY <1>1, <1>2, <2>1 DEF KInv, KeyLink
  <2>4. KeyRowInv'
    <3> SUFFICES ASSUME NEW k \in Accounts \X Keys, idem'[k].id # None
                 PROVE  /\ idem'[k].id \in Requests
                        /\ KeyOf(idem'[k].id) = k
                        /\ body[idem'[k].id] \in Bodies
                        /\ body[idem'[k].id].kind = "payment"
                        /\ pc'[idem'[k].id] \notin {"idle", "loaded"}
                        /\ idem'[k].hash = compute_request_hash(body[idem'[k].id])
                        /\ idem'[k].reply # None =>
                             idem'[k].reply.id = idem'[k].id /\ pc'[idem'[k].id] = "done"
      BY <1>2 DEF KeyRowInv, KeyOf, compute_request_hash
    <3>1. CASE k = KeyOf(r)
      BY <1>1, <2>1, <2>2, <3>1
    <3>2. CASE k # KeyOf(r)
      <4>1. idem'[k] = idem[k]
        BY <1>1, <2>1, <3>2
      <4>2. idem[k].id # r
        BY <1>2, <4>1 DEF KInv, KeyRowInv
      <4>3. QED
        BY <1>1, <2>1, <4>1, <4>2 DEF KInv, KeyRowInv
    <3>3. QED
      BY <3>1, <3>2
  <2>5. AnswerInv'
    <3> SUFFICES ASSUME NEW q \in Requests, answer[q].code = "created"
                 PROVE  /\ pc'[q] = "done"
                        /\ body[q].kind = "payment" =>
                             /\ body[q] \in Bodies
                             /\ answer[q].id \in Requests
                             /\ pc'[answer[q].id] = "done"
                             /\ idem'[KeyOf(q)].id = answer[q].id =>
                                  /\ answer[q] = idem'[KeyOf(q)].reply
                                  /\ compute_request_hash(body[q]) = idem'[KeyOf(q)].hash
      BY <1>2 DEF AnswerInv, KeyOf, compute_request_hash
    <3>1. pc[q] = "done" /\ pc'[q] = "done"
      BY <1>1, <1>2, <2>1 DEF KInv, AnswerInv
    <3>2. CASE body[q].kind = "payment"
      <4>1. /\ body[q] \in Bodies
            /\ answer[q].id \in Requests
            /\ pc[answer[q].id] = "done"
            /\ KeyOf(q) \in Accounts \X Keys
        BY <3>2, PaymentKey DEF KInv, AnswerInv, KeyOf
      <4>2. pc'[answer[q].id] = "done" /\ answer[q].id # r
        BY <1>1, <1>2, <2>1, <4>1
      <4>3. CASE KeyOf(q) = KeyOf(r)
        BY <1>1, <2>1, <2>2, <3>1, <4>1, <4>2, <4>3
      <4>4. CASE KeyOf(q) # KeyOf(r)
        <5>1. idem'[KeyOf(q)] = idem[KeyOf(q)]
          BY <1>1, <2>1, <4>1, <4>4
        <5>2. QED
          BY <3>1, <3>2, <4>1, <4>2, <5>1 DEF KInv, AnswerInv
      <4>5. QED
        BY <4>3, <4>4
    <3>3. QED
      BY <3>1, <3>2
  <2>6. QED
    BY <2>3, <2>4, <2>5 DEF KInv
<1>5. QED
  BY <1>3, <1>4

\* A retry that gets a payment gets the response in the table, and has sent
\* the payload of the hash in the table.
LEMMA answer_conflict_keeps_KInv ==
    ASSUME IInv, KInv, NEW r \in Requests, answer_conflict(r)
    PROVE  KInv'
<1> USE Names
<1> DEFINE existing == idem[KeyOf(r)]
           differs == existing.hash # compute_request_hash(body[r])
<1>1. /\ TypeOK /\ RequestOK(r)
      /\ pc \in [Sessions -> RequestSteps \cup DeliverySteps \cup JobSteps]
      /\ answer \in [Requests -> Answers]
      /\ body[r] \in Bodies /\ body[r].kind = "payment"
      /\ KeyOf(r) \in Accounts \X Keys
  BY PaymentKey DEF IInv, TypeOK, RequestOK, answer_conflict, KeyOf
<1>2. /\ txn' = txn /\ idem' = idem /\ body' = body
      /\ pc' = [pc EXCEPT ![r] = "done"]
      /\ \A q \in Requests : KeyOf(q)' = KeyOf(q)
  BY DEF answer_conflict, Respond, Goto, tables, KeyOf
<1>3. /\ \A q \in Requests \ {r} : answer'[q] = answer[q]
      /\ \/ answer'[r].code # "created"
         \/ /\ existing.id # None
            /\ existing.reply # None
            /\ ~differs
            /\ answer'[r] = existing.reply
  BY <1>1 DEF answer_conflict, Respond, Failure
<1> HIDE DEF differs
<1>4. \A q \in Requests : pc[q] = "done" => pc'[q] = "done"
  BY <1>1, <1>2
<1>5. KeyLink' /\ KeyRowInv'
  BY <1>1, <1>2 DEF KInv, KeyLink, KeyRowInv
<1>6. AnswerInv'
  <2> SUFFICES ASSUME NEW q \in Requests, answer'[q].code = "created"
               PROVE  /\ pc'[q] = "done"
                      /\ body[q].kind = "payment" =>
                           /\ body[q] \in Bodies
                           /\ answer'[q].id \in Requests
                           /\ pc'[answer'[q].id] = "done"
                           /\ idem[KeyOf(q)].id = answer'[q].id =>
                                /\ answer'[q] = idem[KeyOf(q)].reply
                                /\ compute_request_hash(body[q]) = idem[KeyOf(q)].hash
    BY <1>2 DEF AnswerInv, KeyOf, compute_request_hash
  <2>1. CASE q = r
    <3>1. /\ existing.id # None /\ existing.reply # None
          /\ ~differs /\ answer'[r] = existing.reply
      BY <1>3, <2>1
    <3>2. existing.id \in Requests /\ existing.reply.id = existing.id /\ pc[existing.id] = "done"
      BY <1>1, <3>1 DEF KInv, KeyRowInv
    <3>3. QED
      BY <1>1, <1>2, <1>4, <2>1, <3>1, <3>2 DEF differs
  <2>2. CASE q # r
    BY <1>3, <1>4, <2>2 DEF KInv, AnswerInv
  <2>3. QED
    BY <2>1, <2>2
<1>7. QED
  BY <1>5, <1>6 DEF KInv

\* A payment is linked to the key its own request has reserved.
LEMMA execute_payment_keeps_KInv ==
    ASSUME IInv, KInv, NEW r \in Requests, execute_payment(r)
    PROVE  KInv'
<1> USE Names
<1>1. /\ TypeOK /\ RequestOK(r)
      /\ pc \in [Sessions -> RequestSteps \cup DeliverySteps \cup JobSteps]
      /\ DOMAIN txn = Rows
      /\ idem[KeyOf(r)].id = r
      /\ KeyOf(r) \in Accounts \X Keys
  BY PaymentKey DEF IInv, TypeOK, RequestOK, execute_payment, KeyOf
<1>2. /\ idem' = idem /\ body' = body /\ answer' = answer
      /\ pc[r] = "locked" /\ pc' = [pc EXCEPT ![r] = "committed"]
      /\ \A q \in Requests \ {r} : txn'[q] = txn[q]
      /\ txn'[r].key = r
      /\ \A q \in Requests : KeyOf(q)' = KeyOf(q)
  BY <1>1 DEF execute_payment, Goto, requestVars, KeyOf
<1>3. \A q \in Requests : pc[q] = "done" => pc'[q] = "done"
  BY <1>1, <1>2
<1>4. KeyLink'
  BY <1>1, <1>2 DEF KInv, KeyLink
<1>5. KeyRowInv' /\ AnswerInv'
  BY <1>1, <1>2, <1>3 DEF KInv, KeyRowInv, AnswerInv
<1>6. QED
  BY <1>4, <1>5 DEF KInv

\* The first response is the one that is stored.
LEMMA finalize_idempotency_key_keeps_KInv ==
    ASSUME IInv, KInv, NEW r \in Requests, finalize_idempotency_key(r)
    PROVE  KInv'
<1> USE Names
<1> DEFINE response == Created(r, answer[r].status)
           k0 == KeyOf(r)
<1>1. /\ TypeOK /\ RequestOK(r)
      /\ pc \in [Sessions -> RequestSteps \cup DeliverySteps \cup JobSteps]
      /\ answer \in [Requests -> Answers]
      /\ idem \in [Accounts \X Keys -> KeyRows \cup {NoKey}]
      /\ body[r] \in Bodies /\ body[r].kind = "payment"
      /\ idem[k0].id = r
      /\ k0 \in Accounts \X Keys
  BY PaymentKey DEF IInv, TypeOK, RequestOK, finalize_idempotency_key, KeyOf
<1>2. /\ txn' = txn /\ body' = body /\ pc[r] = "refreshed"
      /\ pc' = [pc EXCEPT ![r] = "done"]
      /\ answer' = [answer EXCEPT ![r] = response]
      /\ idem' = [idem EXCEPT ![k0].reply = response]
      /\ \A q \in Requests : KeyOf(q)' = KeyOf(q)
  BY DEF finalize_idempotency_key, Respond, Goto, KeyOf
<1>3. response.id = r
  BY DEF Created
<1>4. idem[k0].hash = compute_request_hash(body[r])
  BY <1>1 DEF KInv, KeyRowInv
<1> HIDE DEF response, k0
<1>5. /\ \A k \in (Accounts \X Keys) \ {k0} : idem'[k] = idem[k]
      /\ idem'[k0] = [idem[k0] EXCEPT !.reply = response]
  BY <1>1, <1>2
<1>6. /\ idem'[k0].id = r
      /\ idem'[k0].hash = compute_request_hash(body[r])
      /\ idem'[k0].reply = response
  BY <1>1, <1>4, <1>5 DEF KeyRows, NoKey
<1>7. \A q \in Requests :
        /\ pc[q] = "done" => pc'[q] = "done"
        /\ q # r => pc'[q] = pc[q] /\ answer'[q] = answer[q]
        /\ q = r => pc'[q] = "done" /\ answer'[q] = response
  BY <1>1, <1>2
<1>8. KeyLink'
  BY <1>1, <1>2, <1>5, <1>6 DEF KInv, KeyLink
<1>9. KeyRowInv'
  <2> SUFFICES ASSUME NEW k \in Accounts \X Keys, idem'[k].id # None
               PROVE  /\ idem'[k].id \in Requests
                      /\ KeyOf(idem'[k].id) = k
                      /\ body[idem'[k].id] \in Bodies
                      /\ body[idem'[k].id].kind = "payment"
                      /\ pc'[idem'[k].id] \notin {"idle", "loaded"}
                      /\ idem'[k].hash = compute_request_hash(body[idem'[k].id])
                      /\ idem'[k].reply # None =>
                           idem'[k].reply.id = idem'[k].id /\ pc'[idem'[k].id] = "done"
    BY <1>2 DEF KeyRowInv, KeyOf, compute_request_hash
  <2>1. CASE k = k0
    BY <1>1, <1>3, <1>6, <1>7, <2>1 DEF k0
  <2>2. CASE k # k0
    BY <1>5, <1>7, <2>2 DEF KInv, KeyRowInv
  <2>3. QED
    BY <2>1, <2>2
<1>10. AnswerInv'
  <2> SUFFICES ASSUME NEW q \in Requests, answer'[q].code = "created"
               PROVE  /\ pc'[q] = "done"
                      /\ body[q].kind = "payment" =>
                           /\ body[q] \in Bodies
                           /\ answer'[q].id \in Requests
                           /\ pc'[answer'[q].id] = "done"
                           /\ idem'[KeyOf(q)].id = answer'[q].id =>
                                /\ answer'[q] = idem'[KeyOf(q)].reply
                                /\ compute_request_hash(body[q]) = idem'[KeyOf(q)].hash
    BY <1>2 DEF AnswerInv, KeyOf, compute_request_hash
  <2>1. CASE q = r
    BY <1>1, <1>3, <1>6, <1>7, <2>1 DEF k0
  <2>2. CASE q # r
    <3>1. answer'[q] = answer[q] /\ pc[q] = "done" /\ pc'[q] = "done"
      BY <1>7, <2>2 DEF KInv, AnswerInv
    <3>2. CASE body[q].kind = "payment"
      <4>1. /\ body[q] \in Bodies
            /\ answer[q].id \in Requests
            /\ pc[answer[q].id] = "done"
            /\ KeyOf(q) \in Accounts \X Keys
        BY <3>1, <3>2, PaymentKey DEF KInv, AnswerInv, KeyOf
      <4>2. pc'[answer[q].id] = "done" /\ answer[q].id # r
        BY <1>2, <1>7, <4>1
      <4>3. CASE KeyOf(q) = k0
        BY <1>6, <3>1, <4>1, <4>2, <4>3
      <4>4. CASE KeyOf(q) # k0
        BY <1>5, <3>1, <3>2, <4>1, <4>2, <4>4 DEF KInv, AnswerInv
      <4>5. QED
        BY <4>3, <4>4
    <3>3. QED
      BY <3>1, <3>2
  <2>3. QED
    BY <2>1, <2>2
<1>11. QED
  BY <1>8, <1>9, <1>10 DEF KInv

\* The job deletes keys together with the references to them: ON DELETE SET
\* NULL leaves no payment that is linked to a key of another request.
LEMMA cleanup_expired_idempotency_keys_keeps_KInv ==
    ASSUME IInv, KInv, NEW j \in Jobs, cleanup_expired_idempotency_keys(j),
           UNCHANGED requestVars
    PROVE  KInv'
<1> USE Names
<1> DEFINE deleted == {idem[ak].id : ak \in old.keys}
           linked == {t \in Rows : txn[t].key \in deleted \ {None}}
<1>1. /\ TypeOK
      /\ pc \in [Sessions -> RequestSteps \cup DeliverySteps \cup JobSteps]
      /\ txn \in [Rows -> Transaction \cup {NoTransaction}]
      /\ old.keys \subseteq Accounts \X Keys
  BY DEF IInv, TypeOK
<1>2. /\ body' = body /\ answer' = answer
      /\ \A q \in Requests : pc'[q] = pc[q] /\ KeyOf(q)' = KeyOf(q)
      /\ \A k \in Accounts \X Keys :
           idem'[k] = IF k \in old.keys THEN NoKey ELSE idem[k]
      /\ \A t \in Rows :
           txn'[t] = IF t \in linked THEN [txn[t] EXCEPT !.key = None] ELSE txn[t]
  BY DEF cleanup_expired_idempotency_keys, Goto, requestVars, KeyOf
<1>3. NoKey.id = None
  BY DEF NoKey
<1>4. \A k \in Accounts \X Keys : idem'[k].id # None => idem'[k] = idem[k]
  BY <1>2, <1>3
<1>5. KeyLink'
  <2> SUFFICES ASSUME NEW q \in Requests, txn'[q].key # None
               PROVE  /\ KeyOf(q) \in Accounts \X Keys
                      /\ txn'[q].key = q
                      /\ idem'[KeyOf(q)].id = q
    BY <1>2 DEF KeyLink, KeyOf
  <2>1. q \notin linked
    <3>1. txn[q] \in Transaction \cup {NoTransaction}
      BY <1>1
    <3>2. [txn[q] EXCEPT !.key = None].key = None
      BY <3>1 DEF Transaction, NoTransaction
    <3>3. QED
      BY <1>2, <3>2
  <2>2. txn'[q] = txn[q]
    BY <1>2, <2>1
  <2>3. /\ KeyOf(q) \in Accounts \X Keys
        /\ txn[q].key = q
        /\ idem[KeyOf(q)].id = q
    BY <2>2 DEF KInv, KeyLink
  <2>4. KeyOf(q) \notin old.keys
    BY <2>1, <2>3
  <2>5. QED
    BY <1>2, <2>2, <2>3, <2>4
<1>6. KeyRowInv'
  <2> SUFFICES ASSUME NEW k \in Accounts \X Keys, idem'[k].id # None
               PROVE  /\ idem[k].id \in Requests
                      /\ KeyOf(idem[k].id) = k
                      /\ body[idem[k].id] \in Bodies
                      /\ body[idem[k].id].kind = "payment"
                      /\ pc[idem[k].id] \notin {"idle", "loaded"}
                      /\ idem[k].hash = compute_request_hash(body[idem[k].id])
                      /\ idem[k].reply # None =>
                           idem[k].reply.id = idem[k].id /\ pc[idem[k].id] = "done"
    BY <1>2, <1>4 DEF KeyRowInv, KeyOf, compute_request_hash
  <2>1. idem[k].id # None
    BY <1>4
  <2>2. QED
    BY <2>1 DEF KInv, KeyRowInv
<1>7. AnswerInv'
  <2> SUFFICES ASSUME NEW q \in Requests, answer[q].code = "created"
               PROVE  /\ pc'[q] = "done"
                      /\ body[q].kind = "payment" =>
                           /\ body[q] \in Bodies
                           /\ answer[q].id \in Requests
                           /\ pc'[answer[q].id] = "done"
                           /\ idem'[KeyOf(q)].id = answer[q].id =>
                                /\ answer[q] = idem'[KeyOf(q)].reply
                                /\ compute_request_hash(body[q]) = idem'[KeyOf(q)].hash
    BY <1>2 DEF AnswerInv, KeyOf, compute_request_hash
  <2>1. pc'[q] = "done"
    BY <1>2 DEF KInv, AnswerInv
  <2>2. CASE body[q].kind = "payment"
    <3>1. /\ body[q] \in Bodies
          /\ answer[q].id \in Requests
          /\ pc[answer[q].id] = "done"
          /\ KeyOf(q) \in Accounts \X Keys
      BY <2>2, PaymentKey DEF KInv, AnswerInv, KeyOf
    <3>2. ASSUME idem'[KeyOf(q)].id = answer[q].id
          PROVE  idem'[KeyOf(q)] = idem[KeyOf(q)]
      BY <1>4, <3>1, <3>2
    <3>3. QED
      BY <1>2, <2>1, <2>2, <3>1, <3>2 DEF KInv, AnswerInv
  <2>3. QED
    BY <2>1, <2>2
<1>8. QED
  BY <1>5, <1>6, <1>7 DEF KInv

(***************************************************************************)
(* The theorems                                                            *)
(***************************************************************************)
\* No key, no payment and no answer in an empty database.
LEMMA InitKInv == Init => KInv
<1> SUFFICES ASSUME Init PROVE KInv
  OBVIOUS
<1> USE Names DEF Init, InitStore, InitPayments
<1>1. KeyLink
  BY DEF KeyLink, NoTransaction
<1>2. KeyRowInv
  BY DEF KeyRowInv, NoKey
<1>3. AnswerInv
  BY DEF AnswerInv, NoAnswer
<1>4. QED
  BY <1>1, <1>2, <1>3 DEF KInv

\* Every step keeps what is known of the keys.
LEMMA NextKeepsKInv ==
    ASSUME IInv, KInv, [Next]_vars
    PROVE  KInv'
<1> USE Names
<1>1. ASSUME NEW r \in Requests, Request(r)
      PROVE  KInv'
  <2>1. RequestStep(r)
    BY <1>1 DEF Request
  <2>2. payment_overflows(r) => abort_request(r)
    BY DEF payment_overflows
  <2>3. QED
    BY <2>1, <2>2, QuietRequestSteps, QuietKeepsKInv, get_current_account_keeps_KInv,
       reserve_idempotency_key_keeps_KInv, answer_conflict_keeps_KInv,
       execute_payment_keeps_KInv, finalize_idempotency_key_keeps_KInv
    DEF RequestStep, HandleRequest
<1>2. ASSUME NEW w \in Deliveries, Delivery(w)
      PROVE  KInv'
  <2>1. StepOf(w)
    BY <1>2, DeliveryStepKeepsIInv DEF Delivery
  <2>2. QED
    BY <1>2, <2>1, QuietDeliverySteps, QuietKeepsKInv DEF Delivery
<1>3. ASSUME NEW j \in Jobs, Job(j)
      PROVE  KInv'
  <2>1. StepOf(j)
    BY <1>3, JobStepKeepsIInv DEF Job
  <2>2. QED
    BY <1>3, <2>1, QuietJobSteps, QuietKeepsKInv,
       cleanup_expired_idempotency_keys_keeps_KInv DEF Job
<1>4. ASSUME NEW s \in Sessions, deadlock_detected(s) \/ database_error(s)
      PROVE  KInv'
  <2>1. Abort(s) /\ pc[s] # "idle"
    BY <1>4 DEF deadlock_detected, database_error, Running
  <2>2. StepOf(s)
    BY <2>1, Abort_keeps_IInv
  <2>3. CASE s \in Requests /\ abort_request(s)
    BY <2>3, QuietRequestSteps, QuietKeepsKInv
  <2>4. CASE s \in Deliveries /\ abort_delivery(s) /\ UNCHANGED <<requestVars, jobVars>>
    BY <2>2, <2>4, QuietDeliverySteps, QuietKeepsKInv
  <2>5. CASE s \in Jobs /\ end_run(s) /\ UNCHANGED <<requestVars, deliveryVars>>
    <3>1. ~cleanup_expired_idempotency_keys(s)
      BY <2>1 DEF cleanup_expired_idempotency_keys
    <3>2. QED
      BY <2>2, <2>5, <3>1, QuietJobSteps, QuietKeepsKInv
  <2>6. QED
    BY <2>1, <2>3, <2>4, <2>5 DEF Abort
<1>5. CASE TimePasses \/ crash \/ UNCHANGED vars
  BY <1>5, QuietOtherSteps, QuietKeepsKInv
<1>6. QED
  BY <1>1, <1>2, <1>3, <1>4, <1>5 DEF Next

\* What the keys in the table say of payments and answers holds always.
THEOREM KeyInvariance == Spec => []KInv
<1>1. Init => KInv
  BY InitKInv
<1>2. IInv /\ KInv /\ [Next]_vars => KInv'
  BY NextKeepsKInv
<1>3. QED
  BY <1>1, <1>2, Invariance, PTL DEF Spec

\* One key, one charge: of the payments made under a key at most one is linked
\* to a key in the table, for any number of retries, jobs, deadlocks and
\* crashes (the unique constraint that reserve_idempotency_key relies on).
THEOREM OneChargePerKeyHolds == Spec => []OneChargePerKey
<1>1. KInv => OneChargePerKey
  BY DEF KInv, KeyLink, OneChargePerKey
<1>2. QED
  BY <1>1, KeyInvariance, PTL

\* Under one key, equal hashes come from equal payloads: SHA-256 is taken to be
\* injective, and it covers all that is not in the key.
LEMMA SamePayload ==
    ASSUME NEW r \in Requests, NEW q \in Requests,
           body[r] \in Bodies, body[q] \in Bodies, body[r].kind = body[q].kind,
           KeyOf(r) = KeyOf(q),
           compute_request_hash(body[r]) = compute_request_hash(body[q])
    PROVE  body[r] = body[q]
<1> DEFINE b == body[r]
           c == body[q]
<1>1. b.from = c.from /\ b.key = c.key /\ b.kind = c.kind
  BY DEF KeyOf
<1>2. b.to = c.to /\ b.amount = c.amount /\ b.long = c.long
  BY DEF compute_request_hash
<1>3. /\ b \in [kind : {"deposit", "payment"}, from : Accounts,
                to : Accounts \cup {None}, amount : Nat \ {0},
                key : Keys \cup {None}, long : BOOLEAN]
      /\ c \in [kind : {"deposit", "payment"}, from : Accounts,
                to : Accounts \cup {None}, amount : Nat \ {0},
                key : Keys \cup {None}, long : BOOLEAN]
  BY BodiesAreValid
<1> HIDE DEF b, c
<1>4. b = c
  BY <1>1, <1>2, <1>3
<1>5. QED
  BY <1>4 DEF b, c

\* Whoever is answered with a payment whose key is in the table has sent its
\* payload and sees its first response (get_idempotency_replay_or_raise).
THEOREM RetryGetsOriginalHolds == Spec => []RetryGetsOriginal
<1>1. KInv => RetryGetsOriginal
  <2> SUFFICES ASSUME KInv, NEW r \in Requests,
                      answer[r].code = "created", body[r].kind = "payment",
                      idem[KeyOf(r)].id = answer[r].id
               PROVE  answer[r] = idem[KeyOf(r)].reply /\ body[r] = body[answer[r].id]
    BY DEF RetryGetsOriginal
  <2> DEFINE q == answer[r].id
  <2>1. /\ body[r] \in Bodies /\ q \in Requests
        /\ answer[r] = idem[KeyOf(r)].reply
        /\ compute_request_hash(body[r]) = idem[KeyOf(r)].hash
    BY DEF KInv, AnswerInv
  <2>2. KeyOf(r) \in Accounts \X Keys /\ q # None
    BY <2>1, PaymentKey, Names DEF KeyOf
  <2>3. /\ KeyOf(q) = KeyOf(r)
        /\ body[q] \in Bodies /\ body[q].kind = "payment"
        /\ idem[KeyOf(r)].hash = compute_request_hash(body[q])
    BY <2>2 DEF KInv, KeyRowInv
  <2>4. body[r] = body[q]
    BY <2>1, <2>3, SamePayload
  <2>5. QED
    BY <2>1, <2>4
<1>2. QED
  BY <1>1, KeyInvariance, PTL

(***************************************************************************)
(* The keys implement Idempotency                                          *)
(***************************************************************************)
\* From its commit to its response a payment is linked to its own key.
LinkedInv ==
    \A r \in Requests : pc[r] \in {"committed", "refreshed"} =>
        IsPayment(r) /\ txn[r].key = r

\* The response stored under a key is the one its owner was sent.
ToldInv ==
    \A k \in Accounts \X Keys : idem[k].id # None /\ idem[k].reply # None =>
        answer[idem[k].id] = idem[k].reply /\ idem[k].reply.code = "created"

KeyedInv == LinkedInv /\ ToldInv

KeyStep == Keyed!Next \/ UNCHANGED <<KeyAsked, KeyHolder, KeyCharge, KeyTold>>

\* A quiet step that starts no request, makes no payment and changes no answer
\* that was sent: Idempotency does not see it.
Unseen ==
    /\ Quiet
    /\ \A r \in Requests :
        /\ pc'[r] = "idle" <=> pc[r] = "idle"
        /\ pc'[r] \in {"committed", "refreshed"} => pc[r] \in {"committed", "refreshed"}
        /\ pc[r] = "done" => answer'[r] = answer[r]
        /\ IsPayment(r)' <=> IsPayment(r)

LEMMA UnseenKeeps ==
    ASSUME KInv, KeyedInv, Unseen
    PROVE  KeyedInv' /\ KeyStep
<1> USE DEF Unseen, Quiet
<1>1. \A r \in Requests : (AsksToPay(r)' <=> AsksToPay(r)) /\ KeyOf(r)' = KeyOf(r)
  BY DEF AsksToPay, KeyOf
<1>2. ASSUME NEW r \in Requests
      PROVE  /\ Shown(r)' <=> Shown(r)
             /\ Shown(r) => answer'[r] = answer[r]
  <2>1. Shown(r) => answer'[r] = answer[r]
    BY <1>2 DEF Shown, KInv, AnswerInv
  <2>2. Shown(r)' => answer'[r] = answer[r]
    BY <1>1, <1>2 DEF Shown, AsksToPay
  <2>3. QED
    BY <1>1, <1>2, <2>1, <2>2 DEF Shown
<1>3. KeyAsked' = KeyAsked
  BY <1>1 DEF KeyAsked
<1>4. KeyHolder' = KeyHolder
  BY DEF KeyHolder
<1>5. KeyCharge' = KeyCharge
  BY DEF KeyCharge
<1>6. KeyTold' = KeyTold
  BY <1>2 DEF KeyTold
<1>7. LinkedInv'
  BY DEF KeyedInv, LinkedInv
<1>8. ToldInv'
  BY DEF KeyedInv, ToldInv, KInv, KeyRowInv
<1>9. QED
  BY <1>3, <1>4, <1>5, <1>6, <1>7, <1>8 DEF KeyedInv, KeyStep

\* What is quiet and no step of a request is not seen.
LEMMA OthersAreUnseen ==
    ASSUME NEW s \in Sessions \ Requests, StepOf(s), Quiet
    PROVE  Unseen
<1>1. \A r \in Requests : r # s /\ r \in Sessions \ {s} /\ r \in Rows
  BY DEF Sessions, Rows
<1>2. \A r \in Requests : pc'[r] = pc[r] /\ answer'[r] = answer[r]
  BY <1>1 DEF StepOf, SessionsAlone
<1>3. \A r \in Requests : txn'[r].type = txn[r].type
  BY <1>1 DEF StepOf, RowsAlone
<1>4. QED
  BY <1>2, <1>3 DEF Unseen, IsPayment

\* The quiet steps of a request, and a conflict, are not seen either.
LEMMA QuietRequestsAreUnseen ==
    ASSUME IInv, KInv, NEW r \in Requests, StepOf(r), Quiet,
           pc[r] \notin {"idle", "done"}, pc'[r] # "idle",
           pc'[r] \in {"committed", "refreshed"} => pc[r] \in {"committed", "refreshed"},
           IsPayment(r)' <=> IsPayment(r)
    PROVE  Unseen
<1>1. \A q \in Requests \ {r} : q \in Sessions \ {r} /\ q \in Rows
  BY DEF Sessions, Rows
<1>2. \A q \in Requests \ {r} : pc'[q] = pc[q] /\ answer'[q] = answer[q]
  BY <1>1 DEF StepOf, SessionsAlone
<1>3. \A q \in Requests \ {r} : txn'[q].type = txn[q].type
  BY <1>1 DEF StepOf, RowsAlone
<1>4. QED
  BY <1>2, <1>3 DEF Unseen, IsPayment

\* A request for a payment asks; a deposit does not.
LEMMA get_current_account_asks ==
    ASSUME IInv, KInv, KeyedInv, NEW r \in Requests, get_current_account(r)
    PROVE  KeyedInv' /\ KeyStep
<1> USE Names
<1>1. /\ pc[r] = "idle" /\ pc' = [pc EXCEPT ![r] = "loaded"] /\ pc'[r] = "loaded"
      /\ idem' = idem /\ txn' = txn /\ answer' = answer
      /\ answer[r].code # "created"
  BY DEF IInv, TypeOK, KInv, AnswerInv, get_current_account, Goto, tables
<1>2. PICK b \in Bodies : body' = [body EXCEPT ![r] = b] /\ body'[r] = b
  BY DEF IInv, TypeOK, get_current_account
<1>3. \A q \in Requests \ {r} :
        /\ pc'[q] = pc[q] /\ body'[q] = body[q] /\ KeyOf(q)' = KeyOf(q)
        /\ AsksToPay(q)' <=> AsksToPay(q)
        /\ Shown(q)' <=> Shown(q)
  BY <1>1, <1>2 DEF KeyOf, AsksToPay, Shown, IInv, TypeOK
<1>4. ~AsksToPay(r) /\ ~Shown(r) /\ ~Shown(r)'
  BY <1>1 DEF AsksToPay, Shown
<1>5. KeyHolder' = KeyHolder /\ KeyCharge' = KeyCharge
  BY <1>1 DEF KeyHolder, KeyCharge, IsPayment
<1>6. KeyTold' = KeyTold
  <2>1. \A q \in Requests : Shown(q)' <=> Shown(q)
    BY <1>3, <1>4
  <2>2. QED
    BY <1>1, <2>1 DEF KeyTold
<1>7. KeyStep
  <2> DEFINE asks == [slot |-> <<b.from, b.key>>, payload |-> b]
  <2>1. CASE b.kind = "payment"
    <3>1. AsksToPay(r)' /\ KeyOf(r)' = <<b.from, b.key>> /\ <<b.from, b.key>> \in Accounts \X Keys
      BY <1>1, <1>2, <2>1, PaymentKey DEF AsksToPay, KeyOf
    <3>2. {q \in Requests : AsksToPay(q)}' = {q \in Requests : AsksToPay(q)} \cup {r}
      BY <1>3, <3>1
    <3>3. KeyAsked' = Keyed!With(KeyAsked, r, asks)
      BY <1>2, <1>3, <3>1, <3>2 DEF KeyAsked, Keyed!With
    <3>4. r \notin DOMAIN KeyAsked
      BY <1>4 DEF KeyAsked
    <3>5. Keyed!ask(r)
      BY <1>5, <1>6, <3>1, <3>3, <3>4 DEF Keyed!ask
    <3>6. QED
      BY <3>5 DEF KeyStep, Keyed!Next
  <2>2. CASE b.kind # "payment"
    <3>1. \A q \in Requests : AsksToPay(q)' <=> AsksToPay(q)
      BY <1>1, <1>2, <1>3, <1>4, <2>2 DEF AsksToPay
    <3>2. KeyAsked' = KeyAsked
      BY <1>3, <1>4, <3>1 DEF KeyAsked
    <3>3. QED
      BY <1>5, <1>6, <3>2 DEF KeyStep
  <2>3. QED
    BY <2>1, <2>2
<1>8. LinkedInv' /\ ToldInv'
  BY <1>1, <1>3 DEF KeyedInv, LinkedInv, ToldInv, IsPayment
<1>9. QED
  BY <1>7, <1>8 DEF KeyedInv

\* A free key is taken; a conflict is not seen.
LEMMA reserve_idempotency_key_reserves ==
    ASSUME IInv, KInv, KeyedInv, NEW r \in Requests, reserve_idempotency_key(r), StepOf(r)
    PROVE  KeyedInv' /\ KeyStep
<1> USE Names
<1>1. /\ pc[r] = "loaded" /\ body[r] \in Bodies /\ body[r].kind = "payment"
      /\ KeyOf(r) \in Accounts \X Keys
      /\ txn[r] = NoTransaction
      /\ txn' = txn /\ answer' = answer /\ body' = body
      /\ \A q \in Requests : KeyOf(q)' = KeyOf(q)
  BY PaymentKey DEF IInv, RequestOK, reserve_idempotency_key, requestVars, KeyOf
<1>2. pc \in [Sessions -> RequestSteps \cup DeliverySteps \cup JobSteps] /\ r \in Sessions
  BY DEF IInv, TypeOK
<1>3. CASE KeyTaken(r)
  <2>1. idem' = idem /\ pc' = [pc EXCEPT ![r] = "conflict"] /\ pc'[r] = "conflict"
    BY <1>2, <1>3 DEF reserve_idempotency_key, Goto
  <2>2. Quiet
    BY <1>1, <1>2, <2>1 DEF Quiet, PcForward
  <2>3. QED
    BY <1>1, <2>1, <2>2, QuietRequestsAreUnseen, UnseenKeeps DEF IsPayment
<1>4. CASE ~KeyTaken(r)
  <2> DEFINE row == [id |-> r, hash |-> compute_request_hash(body[r]), reply |-> None]
  <2>1. /\ idem' = [idem EXCEPT ![KeyOf(r)] = row]
        /\ pc' = [pc EXCEPT ![r] = "reserved"]
        /\ idem[KeyOf(r)].id = None
        /\ DOMAIN idem = Accounts \X Keys
    BY <1>4 DEF reserve_idempotency_key, Goto, KeyTaken, IInv, TypeOK
  <2>2. row.id = r /\ row.reply = None
    OBVIOUS
  <2> HIDE DEF row
  <2>3. \A q \in Requests : /\ AsksToPay(q)' <=> AsksToPay(q)
                            /\ Shown(q)' <=> Shown(q)
                            /\ IsPayment(q)' <=> IsPayment(q)
    BY <1>1, <1>2, <2>1 DEF AsksToPay, Shown, IsPayment
  <2>4. KeyAsked' = KeyAsked /\ KeyCharge' = KeyCharge /\ KeyTold' = KeyTold
    BY <1>1, <2>3 DEF KeyAsked, KeyCharge, KeyTold
  <2>5. AsksToPay(r) /\ ~Shown(r) /\ ~IsPayment(r)
    BY <1>1 DEF AsksToPay, Shown, IsPayment, NoTransaction, KInv, AnswerInv
  <2>6. r \in DOMAIN KeyAsked \ DOMAIN KeyTold /\ KeyCharge[r] = "none"
    BY <2>5 DEF KeyAsked, KeyTold, KeyCharge
  <2>7. KeyAsked[r].slot = KeyOf(r)
    BY <2>5 DEF KeyAsked
  <2>8. KeyHolder[KeyOf(r)] = None /\ KeyHolder' = [KeyHolder EXCEPT ![KeyOf(r)] = r]
    BY <1>1, <2>1, <2>2 DEF KeyHolder
  <2>9. Keyed!reserve(r)
    BY <2>4, <2>6, <2>7, <2>8 DEF Keyed!reserve
  <2>10. LinkedInv'
    BY <1>1, <1>2, <2>1 DEF KeyedInv, LinkedInv, IsPayment
  <2>11. ToldInv'
    BY <1>1, <2>1, <2>2 DEF KeyedInv, ToldInv
  <2>12. QED
    BY <2>9, <2>10, <2>11 DEF KeyStep, Keyed!Next, KeyedInv
<1>5. QED
  BY <1>3, <1>4

\* A retry that gets a payment repeats the answer of the call that has the key.
LEMMA answer_conflict_replays ==
    ASSUME IInv, KInv, KeyedInv, NEW r \in Requests, answer_conflict(r), StepOf(r)
    PROVE  KeyedInv' /\ KeyStep
<1> USE Names
<1> DEFINE existing == idem[KeyOf(r)]
           first == existing.id
           differs == existing.hash # compute_request_hash(body[r])
<1>1. /\ pc[r] = "conflict" /\ body[r] \in Bodies /\ body[r].kind = "payment"
      /\ KeyOf(r) \in Accounts \X Keys
      /\ txn[r] = NoTransaction
      /\ txn' = txn /\ idem' = idem /\ body' = body
      /\ pc' = [pc EXCEPT ![r] = "done"]
      /\ \A q \in Requests : KeyOf(q)' = KeyOf(q)
  BY PaymentKey DEF IInv, RequestOK, answer_conflict, Respond, Goto, tables, KeyOf
<1>2. /\ pc \in [Sessions -> RequestSteps \cup DeliverySteps \cup JobSteps] /\ r \in Sessions
      /\ answer \in [Requests -> Answers]
  BY DEF IInv, TypeOK
<1>3. /\ \A q \in Requests \ {r} : answer'[q] = answer[q]
      /\ \/ answer'[r].code # "created"
         \/ /\ existing.id # None /\ existing.reply # None
            /\ ~differs /\ answer'[r] = existing.reply
  BY <1>2 DEF answer_conflict, Respond, Failure
<1>4. CASE answer'[r].code # "created"
  <2>1. Quiet
    BY <1>1, <1>2, <1>3, <1>4 DEF Quiet, PcForward
  <2>2. QED
    BY <1>1, <1>2, <2>1, QuietRequestsAreUnseen, UnseenKeeps DEF IsPayment
<1>5. CASE first # None /\ existing.reply # None /\ ~differs /\ answer'[r] = existing.reply
  <2>1. /\ first \in Requests /\ KeyOf(first) = KeyOf(r)
        /\ body[first] \in Bodies /\ body[first].kind = "payment"
        /\ existing.hash = compute_request_hash(body[first])
        /\ pc[first] = "done"
    BY <1>1, <1>5 DEF KInv, KeyRowInv
  <2>2. /\ answer[first] = existing.reply /\ answer[first].code = "created"
    BY <1>1, <1>5 DEF KeyedInv, ToldInv
  <2>3. body[r] = body[first]
    <3>1. compute_request_hash(body[r]) = compute_request_hash(body[first])
      BY <1>5, <2>1
    <3> HIDE DEF first
    <3>2. QED
      BY <1>1, <2>1, <3>1, SamePayload
  <2>4. first # r /\ answer'[r] = answer[first]
    BY <1>1, <1>5, <2>1, <2>2
  <2>5. AsksToPay(r) /\ AsksToPay(first) /\ Shown(first)
    BY <1>1, <2>1, <2>2 DEF AsksToPay, Shown
  <2>6. idem[KeyOf(r)].id = first
    OBVIOUS
  <2> HIDE DEF first, existing, differs
  <2>7. ~Shown(r) /\ Shown(r)'
    BY <1>1, <1>2, <2>2, <2>4 DEF AsksToPay, Shown, KInv, AnswerInv
  <2>8. \A q \in Requests : AsksToPay(q)' <=> AsksToPay(q)
    BY <1>1, <1>2 DEF AsksToPay
  <2>9. \A q \in Requests \ {r} : (Shown(q)' <=> Shown(q)) /\ answer'[q] = answer[q]
    BY <1>3, <2>8 DEF Shown
  <2>10. KeyAsked' = KeyAsked
    BY <1>1, <2>8 DEF KeyAsked
  <2>11. KeyHolder' = KeyHolder /\ KeyCharge' = KeyCharge
    BY <1>1 DEF KeyHolder, KeyCharge, IsPayment
  <2>12. KeyTold' = Keyed!With(KeyTold, r, KeyTold[first])
    <3>1. {q \in Requests : Shown(q)}' = {q \in Requests : Shown(q)} \cup {r}
      BY <2>7, <2>9
    <3>2. KeyTold[first] = answer'[r]
      BY <2>1, <2>4, <2>5 DEF KeyTold
    <3>3. QED
      BY <2>9, <3>1, <3>2 DEF KeyTold, Keyed!With
  <2>13. KeyCharge[r] = "none"
    BY <1>1 DEF KeyCharge, IsPayment, NoTransaction
  <2>14. r \in DOMAIN KeyAsked \ DOMAIN KeyTold /\ first \in DOMAIN KeyTold
    BY <2>1, <2>5, <2>7 DEF KeyAsked, KeyTold
  <2>15. KeyAsked[r] = KeyAsked[first] /\ Keyed!Holds(first)
    BY <1>1, <2>1, <2>3, <2>5, <2>6 DEF KeyAsked, KeyHolder, Keyed!Holds
  <2>16. Keyed!replay(r, first)
    BY <2>10, <2>11, <2>12, <2>13, <2>14, <2>15 DEF Keyed!replay
  <2>17. LinkedInv'
    BY <1>1, <1>2 DEF KeyedInv, LinkedInv, IsPayment
  <2>18. ToldInv'
    BY <1>1, <1>3 DEF KeyedInv, ToldInv, KInv, KeyRowInv
  <2>19. QED
    BY <2>1, <2>16, <2>17, <2>18 DEF KeyStep, Keyed!Next, KeyedInv
<1>6. QED
  BY <1>3, <1>4, <1>5

\* The payment that is made is the one charge of the call that holds the key.
LEMMA execute_payment_charges ==
    ASSUME IInv, KInv, KeyedInv, NEW r \in Requests, execute_payment(r)
    PROVE  KeyedInv' /\ KeyStep
<1> USE Names
<1>1. /\ pc[r] = "locked" /\ body[r] \in Bodies /\ body[r].kind = "payment"
      /\ txn[r] = NoTransaction
      /\ idem[KeyOf(r)].id = r /\ KeyOf(r) \in Accounts \X Keys
      /\ DOMAIN txn = Rows
      /\ pc \in [Sessions -> RequestSteps \cup DeliverySteps \cup JobSteps] /\ r \in Sessions
  BY PaymentKey DEF IInv, TypeOK, RequestOK, execute_payment, KeyOf
<1>2. /\ idem' = idem /\ body' = body /\ answer' = answer
      /\ pc' = [pc EXCEPT ![r] = "committed"]
      /\ \A q \in Requests \ {r} : txn'[q] = txn[q]
      /\ txn'[r].key = r /\ txn'[r].type = "PAYMENT"
      /\ \A q \in Requests : KeyOf(q)' = KeyOf(q)
  BY <1>1 DEF execute_payment, Goto, requestVars, KeyOf
<1>3. \A q \in Requests : (AsksToPay(q)' <=> AsksToPay(q)) /\ (Shown(q)' <=> Shown(q))
  BY <1>1, <1>2 DEF AsksToPay, Shown
<1>4. KeyAsked' = KeyAsked /\ KeyHolder' = KeyHolder /\ KeyTold' = KeyTold
  BY <1>2, <1>3 DEF KeyAsked, KeyHolder, KeyTold
<1>5. KeyCharge[r] = "none"
  BY <1>1 DEF KeyCharge, IsPayment, NoTransaction
<1>6. KeyCharge' = [KeyCharge EXCEPT ![r] = "linked"]
  BY <1>2 DEF KeyCharge, IsPayment
<1>7. Keyed!Holds(r)
  BY <1>1 DEF Keyed!Holds, KeyAsked, KeyHolder, AsksToPay
<1>8. Keyed!charge_once(r)
  BY <1>4, <1>5, <1>6, <1>7 DEF Keyed!charge_once
<1>9. LinkedInv'
  BY <1>1, <1>2 DEF KeyedInv, LinkedInv, IsPayment
<1>10. ToldInv'
  BY <1>2 DEF KeyedInv, ToldInv
<1>11. QED
  BY <1>8, <1>9, <1>10 DEF KeyStep, Keyed!Next, KeyedInv

\* The call that holds the key is shown its charge, which is still linked.
LEMMA finalize_idempotency_key_responds ==
    ASSUME IInv, KInv, KeyedInv, NEW r \in Requests, finalize_idempotency_key(r)
    PROVE  KeyedInv' /\ KeyStep
<1> USE Names
<1> DEFINE response == Created(r, answer[r].status)
           k0 == KeyOf(r)
<1>1. /\ pc[r] = "refreshed" /\ body[r] \in Bodies /\ body[r].kind = "payment"
      /\ answer[r].status \in Statuses
      /\ idem[k0].id = r /\ k0 \in Accounts \X Keys
      /\ idem \in [Accounts \X Keys -> KeyRows \cup {NoKey}]
      /\ answer \in [Requests -> Answers]
      /\ pc \in [Sessions -> RequestSteps \cup DeliverySteps \cup JobSteps] /\ r \in Sessions
  BY PaymentKey DEF IInv, TypeOK, RequestOK, finalize_idempotency_key, KeyOf
<1>2. /\ txn' = txn /\ body' = body
      /\ pc' = [pc EXCEPT ![r] = "done"]
      /\ answer' = [answer EXCEPT ![r] = response]
      /\ idem' = [idem EXCEPT ![k0].reply = response]
      /\ \A q \in Requests : KeyOf(q)' = KeyOf(q)
  BY DEF finalize_idempotency_key, Respond, Goto, KeyOf
<1>3. response \in Replies /\ response.id = r /\ response.code = "created"
  BY <1>1 DEF Created, Replies
<1>4. KeyOf(r) = k0
  OBVIOUS
<1> HIDE DEF response, k0
<1>5. /\ \A k \in (Accounts \X Keys) \ {k0} : idem'[k] = idem[k]
      /\ idem'[k0].id = r /\ idem'[k0].reply = response
  BY <1>1, <1>2 DEF KeyRows, NoKey
<1>6. AsksToPay(r) /\ ~Shown(r) /\ Shown(r)' /\ answer'[r] = response
  BY <1>1, <1>2, <1>3 DEF AsksToPay, Shown, KInv, AnswerInv
<1>7. \A q \in Requests \ {r} : (Shown(q)' <=> Shown(q)) /\ answer'[q] = answer[q]
  BY <1>1, <1>2 DEF Shown, AsksToPay
<1>8. KeyTold' = Keyed!With(KeyTold, r, response)
  <2>1. {q \in Requests : Shown(q)}' = {q \in Requests : Shown(q)} \cup {r}
    BY <1>6, <1>7
  <2>2. QED
    BY <1>6, <1>7, <2>1 DEF KeyTold, Keyed!With
<1>9. KeyAsked' = KeyAsked
  <2>1. \A q \in Requests : AsksToPay(q)' <=> AsksToPay(q)
    BY <1>1, <1>2 DEF AsksToPay
  <2>2. QED
    BY <1>2, <2>1 DEF KeyAsked
<1>10. KeyHolder' = KeyHolder
  <2>1. \A k \in Accounts \X Keys : idem'[k].id = idem[k].id
    BY <1>1, <1>5
  <2>2. QED
    BY <2>1 DEF KeyHolder
<1>11. KeyCharge' = KeyCharge /\ KeyCharge[r] = "linked"
  BY <1>1, <1>2 DEF KeyCharge, IsPayment, KeyedInv, LinkedInv
<1>12. Keyed!Holds(r)
  BY <1>1, <1>4, <1>6 DEF Keyed!Holds, KeyAsked, KeyHolder
<1>13. r \notin DOMAIN KeyTold
  BY <1>6 DEF KeyTold
<1>14. Keyed!respond(r)
  BY <1>3, <1>8, <1>9, <1>10, <1>11, <1>12, <1>13 DEF Keyed!respond
<1>15. LinkedInv'
  BY <1>1, <1>2 DEF KeyedInv, LinkedInv, IsPayment
<1>16. ToldInv'
  <2> SUFFICES ASSUME NEW k \in Accounts \X Keys, idem'[k].id # None, idem'[k].reply # None
               PROVE  /\ answer'[idem'[k].id] = idem'[k].reply
                      /\ idem'[k].reply.code = "created"
    BY DEF ToldInv
  <2>1. CASE k = k0
    BY <1>3, <1>5, <1>6, <2>1
  <2>2. CASE k # k0
    <3>1. idem'[k] = idem[k]
      BY <1>5, <2>2
    <3>2. idem[k].id \in Requests \ {r}
      BY <1>1, <3>1, <2>2, <1>4 DEF KInv, KeyRowInv
    <3>3. QED
      BY <1>7, <3>1, <3>2 DEF KeyedInv, ToldInv
  <2>3. QED
    BY <2>1, <2>2
<1>17. QED
  BY <1>14, <1>15, <1>16 DEF KeyStep, Keyed!Next, KeyedInv

\* The job forgets the keys that have expired, with the links to them: none
\* of a call that has yet to charge or to respond.
LEMMA cleanup_expired_idempotency_keys_forgets ==
    ASSUME IInv, KInv, KeyedInv, NEW j \in Jobs, cleanup_expired_idempotency_keys(j),
           StepOf(j), UNCHANGED requestVars
    PROVE  KeyedInv' /\ KeyStep
<1> USE Names
<1> DEFINE deleted == {idem[ak].id : ak \in old.keys}
           linked == {t \in Rows : txn[t].key \in deleted \ {None}}
<1>1. /\ txn \in [Rows -> Transaction \cup {NoTransaction}]
      /\ old.keys \subseteq Accounts \X Keys
      /\ \A ak \in old.keys : idem[ak].id \in Requests /\ pc[idem[ak].id] = "done"
  BY DEF IInv, TypeOK, KeyInv
<1>2. /\ body' = body /\ answer' = answer
      /\ \A k \in Accounts \X Keys :
           idem'[k] = IF k \in old.keys THEN NoKey ELSE idem[k]
      /\ \A t \in Rows :
           txn'[t] = IF t \in linked THEN [txn[t] EXCEPT !.key = None] ELSE txn[t]
  BY DEF cleanup_expired_idempotency_keys, requestVars
<1>3. \A q \in Requests : pc'[q] = pc[q] /\ KeyOf(q)' = KeyOf(q)
  BY <1>2 DEF StepOf, SessionsAlone, KeyOf
<1>4. \A q \in Requests : (AsksToPay(q)' <=> AsksToPay(q)) /\ (Shown(q)' <=> Shown(q))
  BY <1>2, <1>3 DEF AsksToPay, Shown
<1>5. KeyAsked' = KeyAsked /\ KeyTold' = KeyTold
  BY <1>2, <1>3, <1>4 DEF KeyAsked, KeyTold
<1>6. NoKey.id = None
  BY DEF NoKey
<1>7. KeyHolder' = [k \in Accounts \X Keys |-> IF k \in old.keys THEN None ELSE KeyHolder[k]]
  BY <1>2, <1>6 DEF KeyHolder
<1>8. \A q \in Requests : txn[q].key # None => (q \in linked <=> KeyOf(q) \in old.keys)
  <2> SUFFICES ASSUME NEW q \in Requests, txn[q].key # None
               PROVE  q \in linked <=> KeyOf(q) \in old.keys
    OBVIOUS
  <2>1. txn[q].key = q /\ idem[KeyOf(q)].id = q
    BY DEF KInv, KeyLink
  <2>2. KeyOf(q) \in old.keys => q \in linked
    BY <2>1
  <2>3. ASSUME q \in linked
        PROVE  KeyOf(q) \in old.keys
    <3>1. PICK ak \in old.keys : idem[ak].id = q
      BY <2>1, <2>3
    <3>2. KeyOf(q) = ak
      BY <1>1, <3>1 DEF KInv, KeyRowInv
    <3>3. QED
      BY <3>2
  <2>4. QED
    BY <2>2, <2>3
<1>9. \A q \in Requests :
        /\ txn'[q].type = txn[q].type
        /\ txn'[q].key = IF q \in linked THEN None ELSE txn[q].key
  <2> SUFFICES ASSUME NEW q \in Requests
               PROVE  /\ txn'[q].type = txn[q].type
                      /\ txn'[q].key = IF q \in linked THEN None ELSE txn[q].key
    OBVIOUS
  <2>1. txn[q] \in Transaction \cup {NoTransaction}
    BY <1>1
  <2>2. /\ [txn[q] EXCEPT !.key = None].key = None
        /\ [txn[q] EXCEPT !.key = None].type = txn[q].type
    BY <2>1 DEF Transaction, NoTransaction
  <2>3. QED
    BY <1>2, <2>2
<1>10. \A q \in Requests : txn[q].key = None => q \notin linked
  OBVIOUS
<1> HIDE DEF deleted, linked
<1>11. \A q \in Requests : KeyCharge[q] = "linked" =>
         KeyAsked[q].slot = KeyOf(q) /\ txn[q].key # None
  <2> SUFFICES ASSUME NEW q \in Requests, KeyCharge[q] = "linked"
               PROVE  KeyAsked[q].slot = KeyOf(q) /\ txn[q].key # None
    OBVIOUS
  <2>1. txn[q].key # None
    BY DEF KeyCharge
  <2>2. AsksToPay(q)
    BY <2>1 DEF KInv, KeyLink, KeyRowInv, AsksToPay
  <2>3. QED
    BY <2>1, <2>2 DEF KeyAsked
<1>12. KeyCharge' =
         [c \in Requests |-> IF KeyCharge[c] = "linked" /\ KeyAsked[c].slot \in old.keys
                             THEN "unlinked" ELSE KeyCharge[c]]
  <2>1. ASSUME NEW c \in Requests
        PROVE  (IF ~IsPayment(c)' THEN "none"
                ELSE IF txn'[c].key = None THEN "unlinked" ELSE "linked")
               = IF KeyCharge[c] = "linked" /\ KeyAsked[c].slot \in old.keys
                 THEN "unlinked" ELSE KeyCharge[c]
    BY <1>8, <1>9, <1>10, <1>11, <2>1 DEF KeyCharge, IsPayment
  <2>2. QED
    BY <2>1 DEF KeyCharge
<1>13. old.keys \in SUBSET {k \in Accounts \X Keys : KeyHolder[k] # None}
  BY <1>1 DEF KeyHolder
<1>14. Keyed!forget(old.keys)
  BY <1>5, <1>7, <1>12 DEF Keyed!forget
<1>15. LinkedInv'
  <2> SUFFICES ASSUME NEW q \in Requests, pc[q] \in {"committed", "refreshed"}
               PROVE  IsPayment(q)' /\ txn'[q].key = q
    BY <1>3 DEF LinkedInv
  <2>1. IsPayment(q) /\ txn[q].key = q
    BY DEF KeyedInv, LinkedInv
  <2>2. KeyOf(q) \notin old.keys
    BY <1>1, <2>1 DEF KInv, KeyLink
  <2>3. QED
    BY <1>8, <1>9, <2>1, <2>2 DEF IsPayment
<1>16. ToldInv'
  BY <1>2, <1>6 DEF KeyedInv, ToldInv
<1>17. QED
  BY <1>13, <1>14, <1>15, <1>16 DEF KeyStep, Keyed!Next, KeyedInv

\* Every step of the API is one that Idempotency allows, or none that it sees.
LEMMA NextKeepsKeyed ==
    ASSUME IInv, KInv, KeyedInv, [Next]_vars
    PROVE  KeyedInv' /\ KeyStep
<1> USE Names
<1>1. ASSUME NEW r \in Requests, RequestStep(r) \/ abort_request(r), StepOf(r)
      PROVE  KeyedInv' /\ KeyStep
  <2>1. CASE \/ execute_deposit(r) \/ reject_payment(r) \/ lock_sender(r)
             \/ abort_request(r) \/ refresh_payment(r)
    <3>1. Quiet
      BY <2>1, QuietRequestSteps
    <3>2. pc \in [Sessions -> RequestSteps \cup DeliverySteps \cup JobSteps] /\ r \in Sessions
      BY DEF IInv, TypeOK
    <3>3. /\ pc[r] \notin {"idle", "done"} /\ pc'[r] # "idle"
          /\ pc'[r] \in {"committed", "refreshed"} => pc[r] \in {"committed", "refreshed"}
      BY <2>1, <3>2 DEF execute_deposit, reject_payment, lock_sender, abort_request,
         refresh_payment, Respond, Goto
    <3>4. IsPayment(r)' <=> IsPayment(r)
      <4>1. CASE execute_deposit(r)
        BY <4>1 DEF execute_deposit, IInv, TypeOK, RequestOK, IsPayment, NoTransaction
      <4>2. CASE ~execute_deposit(r)
        BY <2>1, <4>2 DEF reject_payment, lock_sender, abort_request, refresh_payment,
           tables, IsPayment
      <4>3. QED
        BY <4>1, <4>2
    <3>5. QED
      BY <1>1, <3>1, <3>3, <3>4, QuietRequestsAreUnseen, UnseenKeeps
  <2>2. payment_overflows(r) => abort_request(r)
    BY DEF payment_overflows
  <2>3. QED
    BY <1>1, <2>1, <2>2, get_current_account_asks, reserve_idempotency_key_reserves,
       answer_conflict_replays, execute_payment_charges, finalize_idempotency_key_responds
    DEF RequestStep, HandleRequest
<1>2. ASSUME NEW r \in Requests, Request(r)
      PROVE  KeyedInv' /\ KeyStep
  BY <1>1, <1>2, RequestStepKeepsIInv DEF Request
<1>3. ASSUME NEW w \in Deliveries, DeliveryStep(w) \/ abort_delivery(w), StepOf(w),
             UNCHANGED requestVars
      PROVE  KeyedInv' /\ KeyStep
  BY <1>3, QuietDeliverySteps, OthersAreUnseen, UnseenKeeps
<1>4. ASSUME NEW j \in Jobs, run_cleanup_job(j) \/ end_run(j), StepOf(j),
             UNCHANGED requestVars
      PROVE  KeyedInv' /\ KeyStep
  <2>1. j \in Sessions \ Requests
    BY DisjointNames DEF Sessions, Rows
  <2>2. QED
    BY <1>4, <2>1, QuietJobSteps, OthersAreUnseen, UnseenKeeps,
       cleanup_expired_idempotency_keys_forgets
<1>5. ASSUME NEW w \in Deliveries, Delivery(w)
      PROVE  KeyedInv' /\ KeyStep
  BY <1>3, <1>5, DeliveryStepKeepsIInv DEF Delivery
<1>6. ASSUME NEW j \in Jobs, Job(j)
      PROVE  KeyedInv' /\ KeyStep
  BY <1>4, <1>6, JobStepKeepsIInv DEF Job
<1>7. ASSUME NEW s \in Sessions, deadlock_detected(s) \/ database_error(s)
      PROVE  KeyedInv' /\ KeyStep
  <2>1. Abort(s)
    BY <1>7 DEF deadlock_detected, database_error
  <2>2. StepOf(s)
    BY <2>1, Abort_keeps_IInv
  <2>3. QED
    BY <1>1, <1>3, <1>4, <2>1, <2>2 DEF Abort
<1>8. CASE TimePasses \/ crash \/ UNCHANGED vars
  <2>1. Quiet
    BY <1>8, QuietOtherSteps
  <2>2. \A r \in Requests :
          /\ pc'[r] = pc[r] \/ (pc[r] # "idle" /\ pc'[r] = "done")
          /\ pc[r] = "done" => answer'[r] = answer[r]
          /\ IsPayment(r)' <=> IsPayment(r)
    <3>1. CASE crash
      BY <3>1 DEF crash, Running, tables, IsPayment
    <3>2. CASE TimePasses \/ UNCHANGED vars
      BY <3>2 DEF TimePasses, vars, storeVars, tables, requestVars, IsPayment
    <3>3. QED
      BY <1>8, <3>1, <3>2
  <2>3. QED
    BY <2>1, <2>2, UnseenKeeps DEF Unseen
<1>9. QED
  BY <1>2, <1>5, <1>6, <1>7, <1>8 DEF Next

LEMMA InitKeyed == Init => KeyedInv /\ Keyed!Init
<1> SUFFICES ASSUME Init PROVE KeyedInv /\ Keyed!Init
  OBVIOUS
<1> USE Names DEF Init, InitStore, InitPayments
<1>1. \A r \in Requests : pc[r] = "idle" /\ ~AsksToPay(r) /\ ~Shown(r) /\ ~IsPayment(r)
  BY DEF AsksToPay, Shown, IsPayment, NoTransaction
<1>2. \A k \in Accounts \X Keys : idem[k].id = None
  BY DEF NoKey
<1>3. KeyedInv
  BY <1>1, <1>2 DEF KeyedInv, LinkedInv, ToldInv
<1>4. KeyAsked = [c \in {} |-> None] /\ KeyTold = [c \in {} |-> None]
  BY <1>1 DEF KeyAsked, KeyTold
<1>5. KeyHolder = [k \in Accounts \X Keys |-> None]
  BY <1>2 DEF KeyHolder
<1>6. KeyCharge = [c \in Requests |-> "none"]
  BY <1>1 DEF KeyCharge
<1>7. QED
  BY <1>3, <1>4, <1>5, <1>6 DEF Keyed!Init

\* From its commit to its response a payment is linked to its key, and what is
\* stored under a key is what its owner was sent (finalize_idempotency_key).
THEOREM KeyedInvariance == Spec => [](IInv /\ KInv /\ KeyedInv)
<1>1. Init => KeyedInv
  BY InitKeyed
<1>2. IInv /\ KInv /\ KeyedInv /\ [Next]_vars => KeyedInv'
  BY NextKeepsKeyed
<1>3. QED
  BY <1>1, <1>2, Invariance, KeyInvariance, PTL DEF Spec

\* The API implements the idempotency of README.md:23: for any number of
\* retries, keys, jobs, deadlocks and crashes, only the call that holds a key
\* charges under it, once, and others are shown what it was shown.
THEOREM IdempotencyRefinement == Spec => ImplementsIdempotency
<1>1. Init => Keyed!Init
  BY InitKeyed
<1>2. IInv /\ KInv /\ KeyedInv /\ [Next]_vars => [Keyed!Next]_Keyed!vars
  BY NextKeepsKeyed DEF KeyStep, Keyed!vars
<1>3. QED
  BY <1>1, <1>2, KeyedInvariance, PTL DEF Spec, ImplementsIdempotency, Keyed!Spec

(***************************************************************************)
(* What follows from the refinement: the argument is about Idempotency     *)
(* alone, read through the mapping.                                        *)
(***************************************************************************)
\* Who is shown a charge has asked; whoever holds a key has asked under it,
\* and has been shown no charge but its own.
ShownInv ==
    /\ DOMAIN KeyTold \subseteq DOMAIN KeyAsked
    /\ \A c \in DOMAIN KeyAsked : KeyAsked[c].slot \in Accounts \X Keys
    /\ \A k \in Accounts \X Keys : LET h == KeyHolder[k] IN
         h # None =>
            /\ h \in DOMAIN KeyAsked /\ KeyAsked[h].slot = k
            /\ h \in DOMAIN KeyTold => KeyTold[h].id = h
    /\ Keyed!SameAnswer

LEMMA KeyShapes ==
    /\ DOMAIN KeyAsked \subseteq Requests
    /\ DOMAIN KeyCharge = Requests
    /\ DOMAIN KeyHolder = Accounts \X Keys
BY DEF KeyAsked, KeyCharge, KeyHolder

\* The steps that answer nobody keep it.
LEMMA SilentStepsKeepShown ==
    ASSUME ShownInv, NEW c \in Requests,
           Keyed!ask(c) \/ Keyed!reserve(c) \/ Keyed!charge_once(c)
    PROVE  ShownInv'
<1> USE DEF ShownInv, Keyed!SameAnswer
<1>1. CASE Keyed!ask(c)
  <2>1. PICK k \in Accounts \X Keys, p \in Bodies :
          KeyAsked' = Keyed!With(KeyAsked, c, [slot |-> k, payload |-> p])
    BY <1>1 DEF Keyed!ask
  <2>2. /\ UNCHANGED <<KeyHolder, KeyCharge, KeyTold>>
        /\ c \notin DOMAIN KeyAsked
    BY <1>1 DEF Keyed!ask
  <2> DEFINE asks == [slot |-> k, payload |-> p]
  <2>3. asks.slot = k
    OBVIOUS
  <2> HIDE DEF asks
  <2>4. /\ DOMAIN KeyAsked' = DOMAIN KeyAsked \cup {c}
        /\ KeyAsked'[c] = asks
        /\ \A d \in DOMAIN KeyAsked : KeyAsked'[d] = KeyAsked[d]
    BY <2>1, <2>2 DEF asks, Keyed!With
  <2>5. QED
    BY <2>2, <2>3, <2>4
<1>2. CASE Keyed!reserve(c)
  <2>1. /\ UNCHANGED <<KeyAsked, KeyCharge, KeyTold>>
        /\ c \in DOMAIN KeyAsked /\ c \notin DOMAIN KeyTold
        /\ KeyHolder' = [KeyHolder EXCEPT ![KeyAsked[c].slot] = c]
    BY <1>2 DEF Keyed!reserve
  <2>2. \A k \in Accounts \X Keys :
          KeyHolder'[k] = IF k = KeyAsked[c].slot THEN c ELSE KeyHolder[k]
    BY <2>1, KeyShapes
  <2>3. QED
    BY <2>1, <2>2
<1>3. CASE Keyed!charge_once(c)
  <2>1. /\ UNCHANGED <<KeyAsked, KeyHolder, KeyTold>>
        /\ KeyCharge' = [KeyCharge EXCEPT ![c] = "linked"]
    BY <1>3 DEF Keyed!charge_once
  <2>2. \A d \in Requests : KeyCharge[d] # "none" => KeyCharge'[d] # "none"
    BY <2>1, KeyShapes
  <2>3. QED
    BY <2>1, <2>2, KeyShapes
<1>4. QED
  BY <1>1, <1>2, <1>3

\* The call that has charged is shown its own charge.
LEMMA RespondKeepsShown ==
    ASSUME ShownInv, NEW c \in Requests, Keyed!respond(c)
    PROVE  ShownInv'
<1> USE DEF ShownInv, Keyed!SameAnswer
<1>1. PICK v \in Replies : v.id = c /\ KeyTold' = Keyed!With(KeyTold, c, v)
  BY DEF Keyed!respond
<1>2. /\ UNCHANGED <<KeyAsked, KeyHolder, KeyCharge>>
      /\ c \in DOMAIN KeyAsked /\ c \notin DOMAIN KeyTold
      /\ KeyCharge[c] = "linked"
  BY DEF Keyed!respond, Keyed!Holds
<1>3. /\ DOMAIN KeyTold' = DOMAIN KeyTold \cup {c}
      /\ KeyTold'[c] = v
      /\ \A d \in DOMAIN KeyTold : KeyTold'[d] = KeyTold[d]
  BY <1>1, <1>2 DEF Keyed!With
<1>4. QED
  BY <1>1, <1>2, <1>3

\* A retry is shown the charge of the call that holds the key, which was shown
\* its own; and holds no key itself.
LEMMA ReplayKeepsShown ==
    ASSUME ShownInv, NEW c \in Requests, NEW first \in Requests, Keyed!replay(c, first)
    PROVE  ShownInv'
<1> USE DEF ShownInv, Keyed!SameAnswer
<1>1. /\ UNCHANGED <<KeyAsked, KeyHolder, KeyCharge>>
      /\ c \in DOMAIN KeyAsked /\ c \notin DOMAIN KeyTold
      /\ first \in DOMAIN KeyAsked /\ first \in DOMAIN KeyTold
      /\ KeyHolder[KeyAsked[first].slot] = first
      /\ KeyAsked[c] = KeyAsked[first]
      /\ KeyTold' = Keyed!With(KeyTold, c, KeyTold[first])
  BY DEF Keyed!replay, Keyed!Holds
<1>2. KeyTold[first].id = first /\ first # c
  BY <1>1, Names
<1>3. /\ DOMAIN KeyTold' = DOMAIN KeyTold \cup {c}
      /\ KeyTold'[c] = KeyTold[first]
      /\ \A d \in DOMAIN KeyTold : KeyTold'[d] = KeyTold[d]
  BY <1>1 DEF Keyed!With
<1>4. \A k \in Accounts \X Keys : KeyHolder[k] # c
  BY <1>1, <1>2, Names
<1>5. QED
  BY <1>1, <1>2, <1>3, <1>4

\* What is forgotten has been charged all the same.
LEMMA ForgetKeepsShown ==
    ASSUME ShownInv, NEW K, Keyed!forget(K)
    PROVE  ShownInv'
<1> USE DEF ShownInv, Keyed!SameAnswer
<1>1. /\ UNCHANGED <<KeyAsked, KeyTold>>
      /\ \A k \in Accounts \X Keys : KeyHolder'[k] # None => KeyHolder'[k] = KeyHolder[k]
      /\ \A d \in Requests : KeyCharge[d] # "none" => KeyCharge'[d] # "none"
  BY DEF Keyed!forget
<1>2. QED
  BY <1>1, KeyShapes

\* Whoever is shown a payment had sent the payload of that payment under its
\* key, and is shown what its maker was shown, also when the job has deleted
\* the key since or another payment holds it (get_idempotency_replay_or_raise).
THEOREM AnswersStayOriginal == Spec => []Keyed!SameAnswer
<1>1. Keyed!Init => ShownInv
  BY DEF Keyed!Init, ShownInv, Keyed!SameAnswer
<1>2. ShownInv /\ [Keyed!Next]_Keyed!vars => ShownInv'
  <2> SUFFICES ASSUME ShownInv, [Keyed!Next]_Keyed!vars
               PROVE  ShownInv'
    OBVIOUS
  <2>1. CASE UNCHANGED <<KeyAsked, KeyHolder, KeyCharge, KeyTold>>
    BY <2>1 DEF ShownInv, Keyed!SameAnswer
  <2>2. CASE Keyed!Next
    BY <2>2, SilentStepsKeepShown, RespondKeepsShown, ReplayKeepsShown, ForgetKeepsShown
       DEF Keyed!Next
  <2>3. QED
    BY <2>1, <2>2 DEF Keyed!vars
<1>3. ShownInv => Keyed!SameAnswer
  BY DEF ShownInv
<1>4. Spec => Keyed!Init /\ [][Keyed!Next]_Keyed!vars
  BY IdempotencyRefinement DEF ImplementsIdempotency, Keyed!Spec
<1>5. QED
  BY <1>1, <1>2, <1>3, <1>4, PTL

(***************************************************************************)
(* The outcome of events                                                   *)
(***************************************************************************)
\* The payment of a notice has the status the notice announces.
AsAnnounced(n) ==
    /\ n.tx \in Rows
    /\ Exists(n.tx)
    /\ txn[n.tx].status = Announced(n)

\* A notice is refused for the reason the error names.
ReasonHolds(n, error) ==
    /\ error = "not_found" => n.tx = None
    /\ error = "already_processed" =>
         n.tx \in Rows /\ Exists(n.tx) /\ txn[n.tx].status # "PENDING"
    /\ error = "amount_mismatch" =>
         n.tx \in Rows /\ Exists(n.tx) /\ txn[n.tx].amount # n.amount

\* The event e and the delivery w that has inserted it.  Once w has settled the
\* payment, has marked the event or has a credit, the payment is as announced
\* and no error is recorded, or about to be, but the internal one.
OwnerOK(e, w) ==
    /\ w \in Deliveries
    /\ note[w] \in Notices /\ note[w].event = e
    /\ pc[w] # "idle"
    /\ pc[w] = "settled" \/ event[e].processed \/ Exists(w) =>
         /\ AsAnnounced(note[w])
         /\ event[e].error \in {"none", "internal"}
         /\ pc[w] = "failing" => fault[w] = "internal"
    /\ pc[w] = "failing" => ReasonHolds(note[w], fault[w])
    /\ event[e].error # "none" => pc[w] = "done"
    /\ ReasonHolds(note[w], event[e].error)

OutcomeInv == \A e \in EventIds : event[e].id # None => OwnerOK(e, event[e].id)

(***************************************************************************)
(* Other sessions                                                          *)
(***************************************************************************)
\* A settled payment keeps its status, and a refused notice its reason, in a
\* step of any session.
LEMMA GroundsAreKept ==
    ASSUME IInv, NEW s \in Sessions, RowsAlone(s), NEW w, note'[w] = note[w]
    PROVE  /\ AsAnnounced(note[w]) => AsAnnounced(note[w])'
           /\ \A error : ReasonHolds(note[w], error) => ReasonHolds(note[w], error)'
<1>1. AsAnnounced(note[w]) => AsAnnounced(note[w])'
  BY DEF AsAnnounced, Announced, RowsAlone, Exists
<1>2. ASSUME NEW error, ReasonHolds(note[w], error)
      PROVE  ReasonHolds(note[w], error)'
  BY <1>2 DEF ReasonHolds, RowsAlone, Exists
<1> QED BY <1>1, <1>2

\* An event keeps its outcome in a step of a session that does not own it.
LEMMA OthersKeepOutcome ==
    ASSUME IInv, NEW s \in Sessions, StepOf(s),
           NEW e \in EventIds, event'[e] = event[e],
           NEW w, w # s, OwnerOK(e, w)
    PROVE  OwnerOK(e, w)'
<1> USE Names
<1>1. w \in Deliveries /\ w \in Sessions \ {s} /\ w \in Rows
  BY DEF OwnerOK
<1>2. pc'[w] = pc[w] /\ note'[w] = note[w] /\ fault'[w] = fault[w]
  BY <1>1 DEF StepOf, SessionsAlone
<1>3. /\ AsAnnounced(note[w]) => AsAnnounced(note[w])'
      /\ \A error : ReasonHolds(note[w], error) => ReasonHolds(note[w], error)'
  BY <1>2, GroundsAreKept DEF StepOf
<1>4. Exists(w)' => Exists(w)
  BY <1>1 DEF StepOf, RowsAlone, Exists
<1>5. /\ ReasonHolds(note[w], fault[w]) => ReasonHolds(note[w], fault[w])'
      /\ ReasonHolds(note[w], event[e].error) => ReasonHolds(note[w], event[e].error)'
  BY <1>2, <1>3
<1> QED BY <1>1, <1>2, <1>3, <1>4, <1>5 DEF OwnerOK

\* The same, for a step that leaves all events and is taken by no delivery.
LEMMA QuietStepKeepsOutcome ==
    ASSUME IInv, OutcomeInv, NEW s \in Sessions \ Deliveries, StepOf(s),
           \A e \in EventIds : event'[e] = event[e] \/ event'[e] = NoEvent
    PROVE  OutcomeInv'
<1> SUFFICES ASSUME NEW e \in EventIds, NEW q, q = event'[e].id, q # None
             PROVE  OwnerOK(e, q)'
  BY DEF OutcomeInv
<1>1. event'[e] = event[e]
  BY DEF NoEvent
<1>2. OwnerOK(e, q)
  BY <1>1 DEF OutcomeInv
<1>3. q # s
  BY <1>2 DEF OwnerOK
<1> QED BY <1>1, <1>2, <1>3, OthersKeepOutcome

(***************************************************************************)
(* The delivery itself                                                     *)
(***************************************************************************)
\* A delivery at work owns its event, which has no error yet.
LEMMA AtWork ==
    ASSUME IInv, OutcomeInv, NEW w \in Deliveries, pc[w] \notin {"idle", "done"}
    PROVE  /\ OwnerOK(note[w].event, w)
           /\ note[w].event \in EventIds
           /\ event[note[w].event] \in EventRows
           /\ event[note[w].event].id = w
           /\ event[note[w].event].error = "none"
<1>1. note[w] \in Notices /\ event[note[w].event].id = w
  BY DEF IInv, DeliveryOK
<1>2. note[w].event \in EventIds
  BY <1>1, NoticeType
<1>3. event[note[w].event] \in EventRows
  BY <1>1, <1>2, Names DEF IInv, TypeOK, NoEvent
<1>4. OwnerOK(note[w].event, w)
  BY <1>1, <1>2, Names DEF OutcomeInv
<1> QED BY <1>1, <1>2, <1>3, <1>4 DEF OwnerOK

\* Its step keeps the outcomes of all events if it keeps that of its own.
LEMMA OwnOutcomeSuffices ==
    ASSUME IInv, OutcomeInv, NEW w \in Deliveries, StepOf(w),
           pc[w] \notin {"idle", "done"}, note' = note,
           \A e \in EventIds \ {note[w].event} : event'[e] = event[e],
           event'[note[w].event].id = w,
           OwnerOK(note[w].event, w)'
    PROVE  OutcomeInv'
<1> USE Names
<1> SUFFICES ASSUME NEW e \in EventIds, NEW q, q = event'[e].id, q # None
             PROVE  OwnerOK(e, q)'
  BY DEF OutcomeInv
<1>1. CASE e = note[w].event
  <2>1. q = w
    BY <1>1
  <2> QED BY <1>1, <2>1 DEF OwnerOK
<1>2. CASE e # note[w].event
  <2>1. event'[e] = event[e]
    BY <1>2
  <2>2. OwnerOK(e, q)
    BY <2>1 DEF OutcomeInv
  <2>3. q # w
    BY <1>2, <2>2 DEF OwnerOK
  <2> QED BY <2>1, <2>2, <2>3, OthersKeepOutcome
<1> QED BY <1>1, <1>2

\* A step of w that writes no table keeps them, if the reason of a failure it
\* comes to is one that holds.
LEMMA WorkKeepsOutcome ==
    ASSUME IInv, OutcomeInv, NEW w \in Deliveries, StepOf(w),
           event' = event, txn' = txn, note' = note,
           pc[w] \notin {"idle", "done"}, pc'[w] \notin {"idle", "settled"},
           pc'[w] = "failing" =>
             pc[w] \notin {"settled", "failing"} /\ ReasonHolds(note[w], fault'[w])
    PROVE  OutcomeInv'
<1> DEFINE e == note[w].event
<1>1. /\ OwnerOK(e, w) /\ event[e].id = w /\ event[e].error = "none"
      /\ event[e] \in EventRows
  BY AtWork
<1>2. ASSUME pc[w] \notin {"settled", "failing"}
      PROVE  ~event[e].processed /\ ~Exists(w)
  <2>1. DeliveryOK(w)
    BY DEF IInv
  <2>2. ~event[e].processed /\ txn[w] = NoTransaction
    BY <1>2, <2>1 DEF DeliveryOK
  <2> QED BY <2>2 DEF Exists, NoTransaction
<1>3. Exists(w)' <=> Exists(w)
  BY DEF Exists
<1>4. AsAnnounced(note[w])' <=> AsAnnounced(note[w])
  BY DEF AsAnnounced, Announced, Exists
<1>5. /\ pc'[w] = "failing" => ReasonHolds(note[w], fault[w])'
      /\ ReasonHolds(note[w], event[e].error)'
  BY <1>1 DEF ReasonHolds, Exists
<1>6. OwnerOK(e, w)'
  BY <1>1, <1>2, <1>3, <1>4, <1>5 DEF OwnerOK
<1> QED BY <1>1, <1>6, OwnOutcomeSuffices

\* A settlement gives the payment the status announced.
LEMMA SettleKeepsOutcome ==
    ASSUME IInv, OutcomeInv, NEW w \in Deliveries,
           process_payment_succeeded(w) \/ process_payment_failed(w), StepOf(w)
    PROVE  OutcomeInv'
<1> DEFINE e == note[w].event
<1> USE Names
<1>1. PICK status \in {"COMPLETED", "FAILED"} :
        Settle(w, status) /\ pc[w] = "account_locked" /\ status = Announced(note[w])
  BY DEF process_payment_succeeded, process_payment_failed, Announced
<1>2. /\ note[w].tx \in Rows /\ txn[note[w].tx].status = "PENDING"
      /\ note' = note /\ event' = event
  BY <1>1 DEF IInv, DeliveryOK, Settle, deliveryVars
<1>3. pc'[w] = "settled"
  BY <1>1 DEF Settle, Goto, IInv, TypeOK
<1>4. txn[note[w].tx] \in Transaction
  BY <1>2 DEF IInv, TypeOK, NoTransaction
<1>5. txn'[note[w].tx] = [txn[note[w].tx] EXCEPT !.status = status]
  BY <1>1, <1>2 DEF Settle
<1>6. txn'[note[w].tx].status = status /\ Exists(note[w].tx)'
  BY <1>4, <1>5, <1>2 DEF Transaction, Exists, Types
<1>7. AsAnnounced(note[w])'
  BY <1>1, <1>2, <1>6 DEF AsAnnounced, Announced
<1>8. OwnerOK(e, w) /\ event[e].id = w /\ event[e].error = "none"
  BY <1>1, AtWork
<1>9. OwnerOK(e, w)'
  BY <1>2, <1>3, <1>7, <1>8 DEF OwnerOK, ReasonHolds
<1> QED BY <1>1, <1>2, <1>8, <1>9, OwnOutcomeSuffices

\* A new event has no outcome yet.
LEMMA IntakeKeepsOutcome ==
    ASSUME IInv, OutcomeInv, NEW w \in Deliveries, payment_confirmation(w), StepOf(w)
    PROVE  OutcomeInv'
<1> USE Names
<1> SUFFICES ASSUME NEW e \in EventIds, NEW q, q = event'[e].id, q # None
             PROVE  OwnerOK(e, q)'
  BY DEF OutcomeInv
<1>1. PICK n \in Notices :
        /\ note' = [note EXCEPT ![w] = n]
        /\ reserve_webhook_event(w, n)
  BY DEF payment_confirmation
<1>2. n.event \in EventIds /\ note'[w] = n
  BY <1>1, NoticeType DEF IInv, TypeOK
<1>3. CASE event'[e] = event[e]
  <2>1. OwnerOK(e, q) /\ q # w
    BY <1>3 DEF OutcomeInv, OwnerOK, payment_confirmation
  <2> QED BY <1>3, <2>1, OthersKeepOutcome
<1>4. CASE event'[e] # event[e]
  <2>1. e = n.event /\ event'[e] = [NoEvent EXCEPT !.id = w] /\ Goto(w, "stored")
    BY <1>1, <1>2, <1>4 DEF reserve_webhook_event, IInv, TypeOK
  <2>2. event'[e] = [id |-> w, processed |-> FALSE, error |-> "none"]
    BY <2>1 DEF NoEvent
  <2>3. pc'[w] = "stored"
    BY <2>1 DEF Goto, IInv, TypeOK
  <2>4. txn[w] = NoTransaction /\ txn' = txn
    BY DEF payment_confirmation, IInv, DeliveryOK
  <2>5. ~Exists(w)'
    BY <2>4 DEF Exists, NoTransaction
  <2> QED BY <1>2, <2>1, <2>2, <2>3, <2>5 DEF OwnerOK, ReasonHolds
<1> QED BY <1>3, <1>4

\* The event of a settled delivery is marked; if the mark raises, what there is
\* to record is the internal error.
LEMMA MarkKeepsOutcome ==
    ASSUME IInv, OutcomeInv, NEW w \in Deliveries, StepOf(w),
           mark_webhook_processed(w) \/ mark_raises(w)
    PROVE  OutcomeInv'
<1> DEFINE e == note[w].event
<1> USE Names
<1>1. /\ OwnerOK(e, w) /\ e \in EventIds /\ event[e] \in EventRows
      /\ event[e].id = w /\ event[e].error = "none" /\ pc[w] = "settled"
  BY AtWork DEF mark_webhook_processed, mark_raises
<1>2. /\ note' = note /\ txn' = txn
      /\ pc'[w] = "done" \/ (pc'[w] = "failing" /\ fault'[w] = "internal")
  BY DEF mark_webhook_processed, mark_raises, Fail, Goto, deliveryVars, IInv, TypeOK
<1>3. event' = event \/ event' = [event EXCEPT ![e].processed = TRUE]
  BY DEF mark_webhook_processed, mark_raises
<1>4. /\ \A f \in EventIds \ {e} : event'[f] = event[f]
      /\ event'[e] = event[e] \/ event'[e] = [event[e] EXCEPT !.processed = TRUE]
  BY <1>1, <1>3 DEF IInv, TypeOK
<1>5. event'[e].id = w /\ event'[e].error = "none"
  BY <1>1, <1>4 DEF EventRows
<1>6. AsAnnounced(note[w])'
  BY <1>1, <1>2 DEF OwnerOK, AsAnnounced, Announced, Exists
<1>7. OwnerOK(e, w)'
  BY <1>1, <1>2, <1>5, <1>6 DEF OwnerOK, ReasonHolds
<1> QED BY <1>1, <1>2, <1>4, <1>5, <1>7, OwnOutcomeSuffices

\* The error recorded is the one that was raised.
LEMMA RecordKeepsOutcome ==
    ASSUME IInv, OutcomeInv, NEW w \in Deliveries, StepOf(w), record_webhook_error(w)
    PROVE  OutcomeInv'
<1> DEFINE e == note[w].event
<1> USE Names
<1>1. /\ OwnerOK(e, w) /\ e \in EventIds /\ event[e] \in EventRows
      /\ event[e].id = w /\ pc[w] = "failing"
  BY AtWork DEF record_webhook_error
<1>2. note' = note /\ txn' = txn /\ pc'[w] = "done"
  BY DEF record_webhook_error, Goto, deliveryVars, IInv, TypeOK
<1>3. /\ \A f \in EventIds \ {e} : event'[f] = event[f]
      /\ event'[e] = [event[e] EXCEPT !.error = fault[w]]
  BY <1>1 DEF record_webhook_error, IInv, TypeOK
<1>4. /\ event'[e].id = w /\ event'[e].error = fault[w]
      /\ event'[e].processed = event[e].processed
  BY <1>1, <1>3 DEF EventRows
<1>5. /\ AsAnnounced(note[w])' <=> AsAnnounced(note[w])
      /\ Exists(w)' <=> Exists(w)
      /\ ReasonHolds(note[w], event[e].error)'
  BY <1>1, <1>2, <1>4 DEF OwnerOK, AsAnnounced, Announced, ReasonHolds, Exists
<1>6. OwnerOK(e, w)'
  BY <1>1, <1>2, <1>4, <1>5 DEF OwnerOK
<1> QED BY <1>1, <1>2, <1>3, <1>4, <1>6, OwnOutcomeSuffices

\* The refusal of a notice names a reason that holds.
LEMMA RejectionHolds ==
    ASSUME IInv, NEW w \in Deliveries, pc[w] = "accepted"
    PROVE  ReasonHolds(note[w], Rejection(note[w]))
<1> DEFINE n == note[w]
<1>1. n.tx = None \/ (n.tx \in Rows /\ Exists(n.tx))
  BY NoticesAreValid DEF IInv, DeliveryOK
<1> HIDE DEF n
<1>2. ReasonHolds(n, Rejection(n))
  BY <1>1, Names DEF ReasonHolds, Rejection, Raised, AmountDiffers
<1> QED BY <1>2 DEF n

\* Every step of a delivery, also one that raises, keeps the outcomes true.
LEMMA DeliveryKeepsOutcome ==
    ASSUME IInv, OutcomeInv, NEW w \in Deliveries, StepOf(w),
           DeliveryStep(w) \/ abort_delivery(w)
    PROVE  OutcomeInv'
<1> USE Names
<1>1. CASE payment_confirmation(w)
  BY <1>1, IntakeKeepsOutcome
<1>2. CASE schedule_task(w) \/ lock_paid_account(w)
  <2>1. /\ event' = event /\ txn' = txn /\ note' = note /\ pc[w] \notin {"idle", "done"}
        /\ pc'[w] \in {"accepted", "account_locked"}
    BY <1>2 DEF schedule_task, lock_paid_account, Goto, tables, deliveryVars, IInv, TypeOK
  <2> QED BY <2>1, WorkKeepsOutcome
<1>3. CASE lock_payment(w)
  <2>1. /\ event' = event /\ txn' = txn /\ note' = note /\ pc[w] = "accepted"
        /\ pc'[w] \in {"payment_locked", "failing"}
        /\ pc'[w] = "failing" => fault'[w] = Rejection(note[w])
    BY <1>3 DEF lock_payment, Fail, Goto, tables, IInv, TypeOK
  <2> QED BY <2>1, RejectionHolds, WorkKeepsOutcome
<1>4. CASE abort_settlement(w)
  <2>1. /\ event' = event /\ txn' = txn /\ note' = note
        /\ pc[w] \in {"accepted", "payment_locked", "account_locked"}
        /\ pc'[w] = "failing" /\ fault'[w] = "internal"
    BY <1>4 DEF abort_settlement, Fail, Goto, tables, IInv, TypeOK
  <2>2. ReasonHolds(note[w], fault'[w])
    BY <2>1 DEF ReasonHolds
  <2> QED BY <2>1, <2>2, WorkKeepsOutcome
<1>5. CASE process_payment_succeeded(w) \/ process_payment_failed(w)
  BY <1>5, SettleKeepsOutcome
<1>6. CASE mark_webhook_processed(w) \/ mark_raises(w)
  BY <1>6, MarkKeepsOutcome
<1>7. CASE record_webhook_error(w)
  BY <1>7, RecordKeepsOutcome
<1>8. CASE refresh_raises(w) \/ record_raises(w)
  <2>1. /\ event' = event /\ txn' = txn /\ note' = note /\ pc[w] \notin {"idle", "done"}
        /\ pc'[w] = "done"
    BY <1>8 DEF refresh_raises, record_raises, EndUncaught, Goto, tables, IInv, TypeOK
  <2> QED BY <2>1, WorkKeepsOutcome
<1> QED BY <1>1, <1>2, <1>3, <1>4, <1>5, <1>6, <1>7, <1>8
     DEF DeliveryStep, HandleDelivery, handle_webhook_event, settlement_is_refused,
         abort_delivery

(***************************************************************************)
(* Every step                                                              *)
(***************************************************************************)
\* A request writes no event.
LEMMA RequestLeavesEvents ==
    ASSUME NEW r \in Requests, RequestStep(r) \/ abort_request(r)
    PROVE  event' = event
<1> USE DEF tables
<1>1. CASE get_current_account(r) \/ execute_deposit(r) \/ reject_payment(r)
  BY <1>1 DEF get_current_account, execute_deposit, reject_payment
<1>2. CASE reserve_idempotency_key(r) \/ answer_conflict(r) \/ lock_sender(r)
  BY <1>2 DEF reserve_idempotency_key, answer_conflict, lock_sender
<1>3. CASE execute_payment(r) \/ payment_overflows(r) \/ abort_request(r)
  BY <1>3 DEF execute_payment, payment_overflows, abort_request
<1>4. CASE refresh_payment(r) \/ finalize_idempotency_key(r)
  BY <1>4 DEF refresh_payment, finalize_idempotency_key
<1> QED BY <1>1, <1>2, <1>3, <1>4 DEF RequestStep, HandleRequest

\* A job only retires events.
LEMMA JobRetiresEvents ==
    ASSUME IInv, NEW j \in Jobs, run_cleanup_job(j) \/ end_run(j)
    PROVE  \A e \in EventIds : event'[e] = event[e] \/ event'[e] = NoEvent
<1> USE DEF tables
<1>1. CASE cleanup_old_webhook_events(j)
  BY <1>1 DEF cleanup_old_webhook_events
<1>2. CASE ~cleanup_old_webhook_events(j)
  <2>1. event' = event
    BY <1>2 DEF run_cleanup_job, end_run, cleanup_expired_idempotency_keys,
         select_stale_ids, next_stale_id, lock_stale_payment, lock_sender_account,
         expire_payment, refund_is_refused, all_visited
  <2> QED BY <2>1
<1> QED BY <1>1, <1>2

\* A crash ends the deliveries; what they have committed and recorded stays.
LEMMA CrashKeepsOutcome ==
    ASSUME IInv, OutcomeInv, crash
    PROVE  OutcomeInv'
<1> SUFFICES ASSUME NEW e \in EventIds, NEW q, q = event'[e].id, q # None
             PROVE  OwnerOK(e, q)'
  BY DEF OutcomeInv
<1>1. OwnerOK(e, q)
  BY DEF OutcomeInv, crash, tables
<1>2. UNCHANGED <<event, txn, note>>
  BY DEF crash, tables, deliveryVars
<1>3. pc'[q] = "done" \/ (pc'[q] = pc[q] /\ pc[q] = "idle")
  BY <1>1, Names DEF OwnerOK, crash, Running
<1> QED BY <1>1, <1>2, <1>3 DEF OwnerOK, AsAnnounced, Announced, ReasonHolds, Exists

\* Every step keeps the outcomes true.
LEMMA NextKeepsOutcome ==
    ASSUME IInv, OutcomeInv, [Next]_vars
    PROVE  OutcomeInv'
<1> USE Names
<1>1. CASE \E r \in Requests : Request(r)
  BY <1>1, RequestStepKeepsIInv, RequestLeavesEvents, QuietStepKeepsOutcome DEF Request
<1>2. CASE \E w \in Deliveries : Delivery(w)
  BY <1>2, DeliveryStepKeepsIInv, DeliveryKeepsOutcome DEF Delivery
<1>3. CASE \E j \in Jobs : Job(j)
  BY <1>3, JobStepKeepsIInv, JobRetiresEvents, QuietStepKeepsOutcome DEF Job
<1>4. ASSUME NEW s \in Sessions, Abort(s) PROVE OutcomeInv'
  <2>1. StepOf(s)
    BY <1>4, Abort_keeps_IInv
  <2>2. CASE s \in Requests /\ abort_request(s)
    BY <2>1, <2>2, RequestLeavesEvents, QuietStepKeepsOutcome
  <2>3. CASE s \in Deliveries /\ abort_delivery(s)
    BY <2>1, <2>3, DeliveryKeepsOutcome
  <2>4. CASE s \in Jobs /\ end_run(s)
    BY <2>1, <2>4, JobRetiresEvents, QuietStepKeepsOutcome
  <2> QED BY <1>4, <2>2, <2>3, <2>4 DEF Abort
<1>5. CASE TimePasses \/ UNCHANGED vars
  <2>1. UNCHANGED <<event, txn, note, fault, pc>>
    BY <1>5 DEF TimePasses, vars, storeVars, tables, deliveryVars
  <2> QED BY <2>1 DEF OutcomeInv, OwnerOK, AsAnnounced, Announced, ReasonHolds,
              Exists
<1>6. CASE crash
  BY <1>6, CrashKeepsOutcome
<1> QED BY <1>1, <1>2, <1>3, <1>4, <1>5, <1>6
     DEF Next, deadlock_detected, database_error

\* The delivery that owns an event accounts for what is recorded of it, in
\* every reachable state.
THEOREM OutcomeInvariance == Spec => []OutcomeInv
<1>1. Init => OutcomeInv
  BY DEF Init, InitStore, OutcomeInv, NoEvent
<1>2. IInv /\ OutcomeInv /\ [Next]_vars => OutcomeInv'
  BY NextKeepsOutcome
<1> QED BY <1>1, <1>2, Invariance, PTL DEF Spec

\* Whatever statement raises, an event marked processed names a payment with
\* the status it announced, the reason recorded for a refusal holds and goes
\* with no credit, and an error next to a settlement is the internal one
\* (handle_webhook_event in webhook_processing.py).
THEOREM EventOutcomeIsTrueHolds == Spec => []EventOutcomeIsTrue
<1>1. ASSUME NEW e \in EventIds, NEW w, OwnerOK(e, w)
      PROVE  LET n == note[w]
                 error == event[e].error
                 settled == n.tx # None /\ txn[n.tx].status = Announced(n)
             IN  /\ event[e].processed => settled /\ error \in {"none", "internal"}
                 /\ Exists(w) /\ error # "none" => settled /\ error = "internal"
                 /\ error = "not_found" => n.tx = None
                 /\ error = "already_processed" => txn[n.tx].status # "PENDING"
                 /\ error = "amount_mismatch" => txn[n.tx].amount # n.amount
  <2>1. AsAnnounced(note[w]) =>
          note[w].tx # None /\ txn[note[w].tx].status = Announced(note[w])
    BY Names DEF AsAnnounced, Rows
  <2> QED BY <1>1, <2>1 DEF OwnerOK, ReasonHolds
<1>2. OutcomeInv => EventOutcomeIsTrue
  BY <1>1 DEF OutcomeInv, EventOutcomeIsTrue
<1> QED BY <1>2, OutcomeInvariance, PTL

==============================================================================
