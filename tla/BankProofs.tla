----------------------------- MODULE BankProofs -----------------------------
(***************************************************************************)
(* Type correctness, the safety of settlement, who may hold a row lock and *)
(* why the cleanup job of a single API instance is on no cycle of waiting  *)
(* sessions, proved for every value of the constants of Bank.              *)
(*                                                                         *)
(* The inductive invariant IInv says, for each kind of session, what the   *)
(* statements it has run have left in the tables and in the lock table.    *)
(* The proof that a step keeps it is in two halves.  Every action of a     *)
(* session s is a StepOf(s): it leaves alone what other sessions have      *)
(* locked or own, so it keeps the conjuncts of the others, by one lemma    *)
(* for each kind of session.  What is left for each action is its own      *)
(* session, the types of the variables it changes, and the two invariants  *)
(* of the tables.                                                          *)
(***************************************************************************)
EXTENDS Bank, TLAPS

(***************************************************************************)
(* The inductive invariant                                                 *)
(***************************************************************************)
\* Only a payment to another account is ever pending.
RowInv ==
    \A t \in Rows : txn[t].status = "PENDING" =>
        /\ txn[t].type = "PAYMENT"
        /\ txn[t].rel \in Accounts \ {txn[t].acct}

\* A key that has expired and an event that may be deleted are in their tables,
\* and the sessions that wrote them are over.
KeyInv ==
    /\ \A ak \in old.keys : idem[ak].id \in Requests /\ pc[idem[ak].id] = "done"
    /\ \A e \in old.events : event[e].id \in Deliveries /\ pc[event[e].id] = "done"

\* A request has its body; its transaction is not in the table before it
\* commits; from the reservation to the response its key is its own; and it
\* debits under the lock of the sender.
RequestOK(r) ==
    /\ pc[r] # "idle" => body[r] \in Bodies
    /\ pc[r] \in {"conflict", "reserved", "locked", "committed", "refreshed"} =>
         body[r].kind = "payment" /\ body[r].to \in Accounts \ {body[r].from}
    /\ pc[r] \in {"idle", "loaded", "conflict", "reserved", "locked"} =>
         txn[r] = NoTransaction
    /\ pc[r] \in {"reserved", "locked", "committed", "refreshed"} =>
         idem[KeyOf(r)].id = r
    /\ pc[r] = "locked" => lock[body[r].from] = r
    /\ pc[r] \in {"committed", "refreshed"} => Exists(r)
    /\ pc[r] = "refreshed" => answer[r].status \in Statuses

\* A delivery at work owns its event, which is processed only if the mark was
\* committed and raised all the same; its transaction is not in the table before
\* it settles; the payment it settles is locked, pending and of the amount
\* announced; and the account it pays is locked and loaded as it is.
DeliveryOK(w) ==
    /\ pc[w] \notin {"idle", "done"} =>
         /\ note[w] \in Notices
         /\ event[note[w].event].id = w
         /\ pc[w] # "failing" => ~event[note[w].event].processed
         /\ note[w].tx # None => Exists(note[w].tx)
    /\ pc[w] = "failing" => fault[w] \in Errors
    /\ pc[w] \notin {"settled", "failing", "done"} => txn[w] = NoTransaction
    /\ pc[w] # "account_locked" => cached[w] = NotLoaded
    /\ pc[w] \in {"payment_locked", "account_locked"} =>
         /\ note[w].tx \in Rows
         /\ lock[note[w].tx] = w
         /\ txn[note[w].tx].status = "PENDING"
         /\ txn[note[w].tx].amount = note[w].amount
    /\ pc[w] = "account_locked" =>
         /\ lock[PaidAccount(note[w])] = w
         /\ cached[w] = [id |-> PaidAccount(note[w]),
                         balance |-> balance[PaidAccount(note[w])]]

\* A job lists and visits payments; the one it expires is locked and pending,
\* and the sender it refunds is locked and in its session.
JobOK(j) ==
    /\ \A t \in stale_ids[j] : txn[t].type = "PAYMENT"
    /\ pc[j] \in {"visiting", "payment_locked", "account_locked"} =>
         current[j] \in Rows /\ txn[current[j]].type = "PAYMENT"
    /\ pc[j] \in {"payment_locked", "account_locked"} =>
         lock[current[j]] = j /\ txn[current[j]].status = "PENDING"
    /\ pc[j] = "account_locked" =>
         /\ lock[txn[current[j]].acct] = j
         /\ cached[j].id = txn[current[j]].acct

IInv ==
    /\ TypeOK
    /\ RowInv
    /\ KeyInv
    /\ \A r \in Requests : RequestOK(r)
    /\ \A w \in Deliveries : DeliveryOK(w)
    /\ \A j \in Jobs : JobOK(j)

(***************************************************************************)
(* Isolation: what a step of session s leaves alone.                       *)
(***************************************************************************)
LocksAlone(s) ==
    \A x \in Lockable : lock[x] \notin {None, s} => lock'[x] = lock[x]

\* Balances under the lock of another session stay as they are.
BalancesAlone(s) ==
    \A a \in Accounts : lock[a] \notin {None, s} => balance'[a] = balance[a]

\* A row keeps what it says; a status changes only from PENDING, and not
\* under the lock of another session; a row appears only under its own name.
RowsAlone(s) ==
    \A t \in Rows :
        /\ Exists(t) =>
             /\ txn'[t].type = txn[t].type
             /\ txn'[t].acct = txn[t].acct
             /\ txn'[t].rel = txn[t].rel
             /\ txn'[t].amount = txn[t].amount
             /\ txn'[t].status \in Statuses
             /\ txn[t].status # "PENDING" \/ lock[t] \notin {None, s} =>
                  txn'[t].status = txn[t].status
        /\ ~Exists(t) /\ t # s => txn'[t] = txn[t]

\* A stored event stays as it is, unless it is processed and old.
EventsAlone(s) ==
    \A e \in EventIds :
        event[e].id \notin {None, s} /\ (~event[e].processed \/ e \notin old.events) =>
            event'[e] = event[e]

\* A key that has not expired stays reserved.
KeysAlone ==
    \A ak \in (Accounts \X Keys) \ old.keys :
        idem[ak].id # None => idem'[ak].id = idem[ak].id

SessionsAlone(s) ==
    /\ \A q \in Sessions \ {s} : pc'[q] = pc[q] /\ cached'[q] = cached[q]
    /\ \A r \in Requests \ {s} : body'[r] = body[r] /\ answer'[r] = answer[r]
    /\ \A w \in Deliveries \ {s} : note'[w] = note[w] /\ fault'[w] = fault[w]
    /\ \A j \in Jobs \ {s} : stale_ids'[j] = stale_ids[j] /\ current'[j] = current[j]

StepOf(s) ==
    /\ SessionsAlone(s)
    /\ LocksAlone(s)
    /\ BalancesAlone(s)
    /\ RowsAlone(s)
    /\ EventsAlone(s)
    /\ KeysAlone

(***************************************************************************)
(* A step of one session keeps what the invariant says of the others.      *)
(***************************************************************************)
\* A step of another session leaves a request its body, its transaction, its
\* reserved key and its lock.
LEMMA RequestUndisturbed ==
    ASSUME TypeOK, KeyInv, NEW s \in Sessions, StepOf(s),
           NEW r \in Requests \ {s}, RequestOK(r)
    PROVE  RequestOK(r)'
<1>1. /\ pc'[r] = pc[r] /\ body'[r] = body[r] /\ answer'[r] = answer[r]
      /\ r \in Rows /\ r # None
  BY DisjointNames DEF StepOf, SessionsAlone, Sessions, Rows
<1>2. txn[r] = NoTransaction => txn'[r] = NoTransaction
  BY <1>1 DEF StepOf, RowsAlone, Exists, NoTransaction
<1>3. Exists(r) => Exists(r)'
  BY <1>1 DEF StepOf, RowsAlone, Exists
<1>4. pc[r] \in {"reserved", "locked", "committed", "refreshed"} =>
        idem'[KeyOf(r)].id = r
  <2> SUFFICES ASSUME pc[r] \in {"reserved", "locked", "committed", "refreshed"}
               PROVE  idem'[KeyOf(r)].id = r
    OBVIOUS
  <2>1. KeyOf(r) \in Accounts \X Keys
    BY BodiesAreValid, PaymentsCarryAKey DEF RequestOK, KeyOf
  <2>2. idem[KeyOf(r)].id = r
    BY DEF RequestOK
  <2>3. KeyOf(r) \notin old.keys
    BY <2>2 DEF KeyInv
  <2>4. QED
    BY <1>1, <2>1, <2>2, <2>3 DEF StepOf, KeysAlone
<1>5. pc[r] = "locked" => lock'[body[r].from] = r
  BY <1>1, BodiesAreValid DEF RequestOK, StepOf, LocksAlone, Lockable
<1>6. KeyOf(r)' = KeyOf(r)
  BY <1>1 DEF KeyOf
<1>7. QED
  BY <1>1, <1>2, <1>3, <1>4, <1>5, <1>6 DEF RequestOK

\* A step of another session leaves a delivery its event, the payment it has
\* locked, and the balance its session has loaded under the lock.
LEMMA DeliveryUndisturbed ==
    ASSUME TypeOK, RowInv, KeyInv, NEW s \in Sessions, StepOf(s),
           NEW w \in Deliveries \ {s}, DeliveryOK(w)
    PROVE  DeliveryOK(w)'
<1>1. /\ pc'[w] = pc[w] /\ cached'[w] = cached[w] /\ note'[w] = note[w]
      /\ fault'[w] = fault[w] /\ w \in Rows /\ w # None
  BY DisjointNames DEF StepOf, SessionsAlone, Sessions, Rows
<1>2. txn[w] = NoTransaction => txn'[w] = NoTransaction
  BY <1>1 DEF StepOf, RowsAlone, Exists, NoTransaction
<1>3. pc[w] \notin {"idle", "done"} =>
        /\ event'[note[w].event] = event[note[w].event]
        /\ note[w].tx # None => Exists(note[w].tx)'
  <2> SUFFICES ASSUME pc[w] \notin {"idle", "done"}
               PROVE  /\ event'[note[w].event] = event[note[w].event]
                      /\ note[w].tx # None => Exists(note[w].tx)'
    OBVIOUS
  <2>1. /\ note[w].event \in EventIds /\ note[w].tx \in Rows \cup {None}
        /\ event[note[w].event].id = w
        /\ note[w].tx # None => Exists(note[w].tx)
    BY NoticesAreValid DEF DeliveryOK
  <2>2. note[w].event \notin old.events
    BY <2>1 DEF KeyInv
  <2>3. QED
    BY <1>1, <2>1, <2>2 DEF StepOf, EventsAlone, RowsAlone, Exists
<1>4. ASSUME pc[w] \in {"payment_locked", "account_locked"}
      PROVE  /\ lock'[note[w].tx] = w
             /\ txn'[note[w].tx].status = "PENDING"
             /\ txn'[note[w].tx].amount = note[w].amount
             /\ PaidAccount(note[w])' = PaidAccount(note[w])
             /\ PaidAccount(note[w]) \in Accounts
  <2>1. /\ note[w].tx \in Rows /\ lock[note[w].tx] = w
        /\ txn[note[w].tx].status = "PENDING"
        /\ txn[note[w].tx].amount = note[w].amount
    BY <1>4 DEF DeliveryOK
  <2>2. txn[note[w].tx] \in Transaction
    BY <2>1 DEF TypeOK, NoTransaction
  <2>3. Exists(note[w].tx)
    BY <2>2 DEF Exists, Transaction, Types
  <2>4. lock'[note[w].tx] = w
    BY <1>1, <2>1 DEF StepOf, LocksAlone, Lockable
  <2>5. /\ txn'[note[w].tx].acct = txn[note[w].tx].acct
        /\ txn'[note[w].tx].rel = txn[note[w].tx].rel
        /\ txn'[note[w].tx].amount = txn[note[w].tx].amount
        /\ txn'[note[w].tx].status = txn[note[w].tx].status
    BY <1>1, <2>1, <2>3 DEF StepOf, RowsAlone
  <2>6. PaidAccount(note[w])' = PaidAccount(note[w])
    BY <1>1, <2>5 DEF PaidAccount
  <2>7. PaidAccount(note[w]) \in Accounts
    BY <2>1, <2>2 DEF PaidAccount, RowInv, Transaction
  <2>8. QED
    BY <2>1, <2>4, <2>5, <2>6, <2>7
<1>5. pc[w] = "account_locked" =>
        /\ lock'[PaidAccount(note[w])] = w
        /\ balance'[PaidAccount(note[w])] = balance[PaidAccount(note[w])]
  BY <1>1, <1>4 DEF DeliveryOK, StepOf, LocksAlone, BalancesAlone, Lockable
<1>6. QED
  BY <1>1, <1>2, <1>3, <1>4, <1>5 DEF DeliveryOK

\* A step of another session leaves a job its lists and locks, and the
\* payment it has locked stays pending.
LEMMA JobUndisturbed ==
    ASSUME TypeOK, NEW s \in Sessions, StepOf(s),
           NEW j \in Jobs \ {s}, JobOK(j)
    PROVE  JobOK(j)'
<1>1. /\ pc'[j] = pc[j] /\ cached'[j] = cached[j]
      /\ stale_ids'[j] = stale_ids[j] /\ current'[j] = current[j]
      /\ stale_ids[j] \in SUBSET Rows /\ j # None
  BY DisjointNames DEF StepOf, SessionsAlone, Sessions, TypeOK
<1>2. \A t \in Rows : txn[t].type = "PAYMENT" =>
        /\ txn'[t].type = "PAYMENT"
        /\ txn'[t].acct = txn[t].acct
        /\ lock[t] = j => txn'[t].status = txn[t].status
        /\ txn[t].acct \in Accounts
  BY <1>1 DEF StepOf, RowsAlone, Exists, TypeOK, Transaction, NoTransaction
<1>3. \A x \in Lockable : lock[x] = j => lock'[x] = j
  BY <1>1 DEF StepOf, LocksAlone
<1>4. QED
  BY <1>1, <1>2, <1>3 DEF JobOK, Lockable

\* A step adds no pending row but, perhaps, its own.
LEMMA RowInvKept ==
    ASSUME TypeOK, RowInv, NEW s \in Sessions, RowsAlone(s),
           s \in Rows /\ ~Exists(s) /\ txn'[s].status = "PENDING" =>
               txn'[s].type = "PAYMENT" /\ txn'[s].rel \in Accounts \ {txn'[s].acct}
    PROVE  RowInv'
<1> SUFFICES ASSUME NEW t \in Rows, txn'[t].status = "PENDING"
             PROVE  txn'[t].type = "PAYMENT" /\ txn'[t].rel \in Accounts \ {txn'[t].acct}
  BY DEF RowInv
<1>1. CASE Exists(t)
  BY <1>1 DEF RowsAlone, RowInv
<1>2. CASE ~Exists(t) /\ t # s
  BY <1>2 DEF RowsAlone, RowInv
<1>3. CASE ~Exists(t) /\ t = s
  BY <1>3
<1>4. QED
  BY <1>1, <1>2, <1>3

\* The invariant after a step of a session, from what the step does to it.
LEMMA StepKeepsIInv ==
    ASSUME IInv, NEW s \in Sessions, StepOf(s), TypeOK', RowInv', KeyInv',
           s \in Requests => RequestOK(s)',
           s \in Deliveries => DeliveryOK(s)',
           s \in Jobs => JobOK(s)'
    PROVE  IInv'
<1>1. \A r \in Requests : RequestOK(r)'
  BY RequestUndisturbed DEF IInv
<1>2. \A w \in Deliveries : DeliveryOK(w)'
  BY DeliveryUndisturbed DEF IInv
<1>3. \A j \in Jobs : JobOK(j)'
  BY JobUndisturbed DEF IInv
<1>4. QED
  BY <1>1, <1>2, <1>3 DEF IInv

(***************************************************************************)
(* The steps of a request                                                  *)
(***************************************************************************)
\* Requests, deliveries and jobs are different sessions, and none is None.
LEMMA Names ==
    /\ \A r \in Requests : r \in Rows /\ r \in Sessions /\ r \notin Deliveries \cup Jobs
    /\ \A w \in Deliveries : w \in Rows /\ w \in Sessions /\ w \notin Requests \cup Jobs
    /\ \A j \in Jobs : j \in Sessions /\ j \notin Rows
    /\ \A s \in Sessions : s # None
BY DisjointNames DEF Rows, Sessions

\* A session that loads an account has the object of that account.
LEMMA LoadAccountType ==
    ASSUME TypeOK, NEW s \in Sessions, NEW a \in Accounts
    PROVE  /\ LoadAccount(s, a) \in [id : Accounts, balance : Balances]
           /\ LoadAccount(s, a).id = a
BY DisjointNames DEF TypeOK, LoadAccount, NotLoaded

\* The dependency changes the session of the request only.
LEMMA get_current_account_keeps_IInv ==
    ASSUME IInv, NEW r \in Requests, get_current_account(r),
           UNCHANGED <<deliveryVars, jobVars, crashes>>
    PROVE  StepOf(r) /\ IInv'
<1> USE Names DEF IInv, get_current_account, Goto, Load, tables, deliveryVars, jobVars
<1>1. PICK b \in Bodies : body' = [body EXCEPT ![r] = b] /\ Load(r, b.from)
  OBVIOUS
<1>2. StepOf(r)
  BY <1>1 DEF TypeOK, StepOf, SessionsAlone, LocksAlone, BalancesAlone, RowsAlone,
       EventsAlone, KeysAlone, Exists, NoTransaction, Transaction
<1>3. LoadAccount(r, b.from) \in [id : Accounts, balance : Balances]
  BY BodiesAreValid, LoadAccountType
<1>4. TypeOK'
  BY <1>1, <1>3 DEF TypeOK, RequestSteps
<1>5. RowInv'
  BY DEF RowInv
<1>6. KeyInv'
  BY DEF KeyInv, TypeOK
<1>7. RequestOK(r)'
  BY <1>1 DEF RequestOK, TypeOK
<1>8. QED
  BY <1>2, <1>4, <1>5, <1>6, <1>7, StepKeepsIInv

\* A deposit changes a balance nobody else has locked, to one that fits.
LEMMA execute_deposit_keeps_IInv ==
    ASSUME IInv, NEW r \in Requests, execute_deposit(r),
           UNCHANGED <<deliveryVars, jobVars, crashes>>
    PROVE  StepOf(r) /\ IInv'
<1> USE Names DEF IInv, execute_deposit, Goto, Forget, Respond, deliveryVars, jobVars
<1> DEFINE b == body[r]
           new == LoadAccount(r, b.from).balance + b.amount
<1>1. b \in Bodies /\ b.from \in Accounts /\ b.amount \in Nat \ {0} /\ b.long \in BOOLEAN
  BY BodiesAreValid DEF RequestOK
<1>2. ~Exists(r)
  BY DEF RequestOK, Exists, NoTransaction
<1>3. LoadAccount(r, b.from).balance \in Balances
  BY <1>1, LoadAccountType
<1>4. balance' \in [Accounts -> Balances]
  BY <1>1, <1>3, MoneyFits DEF TypeOK, Fits, Balances
<1>5. txn' \in [Rows -> Transaction \cup {NoTransaction}]
  BY <1>1, <1>3, MoneyFits DEF TypeOK, Fits, Balances, Transaction, Types, Statuses
<1>6. answer' \in [Requests -> Answers]
  <2>1. \E reply \in {Created(r, "COMPLETED"), Failure("error")} :
          answer' = [answer EXCEPT ![r] = reply]
    OBVIOUS
  <2>2. {Created(r, "COMPLETED"), Failure("error")} \subseteq Answers
    BY DEF Created, Failure, Answers, Failures, Statuses
  <2> HIDE DEF execute_deposit
  <2>3. QED
    BY <2>1, <2>2 DEF TypeOK
<1>7. TypeOK'
  <2>0. pc' = [pc EXCEPT ![r] = "done"] /\ cached' = [cached EXCEPT ![r] = NotLoaded]
    OBVIOUS
  <2>1. /\ pc' \in [Sessions -> RequestSteps \cup DeliverySteps \cup JobSteps]
        /\ cached' \in [Sessions -> [id : Accounts, balance : Balances] \cup {NotLoaded}]
        /\ \A q \in Requests : pc'[q] \in RequestSteps
        /\ \A w \in Deliveries : pc'[w] = pc[w]
        /\ \A j \in Jobs : pc'[j] = pc[j]
    BY <2>0 DEF TypeOK, RequestSteps
  <2>2. QED
    BY <1>4, <1>5, <1>6, <2>1 DEF TypeOK
<1>8. StepOf(r)
  BY <1>1, <1>2 DEF TypeOK, StepOf, SessionsAlone, LocksAlone, BalancesAlone,
       RowsAlone, EventsAlone, KeysAlone, Exists, NoTransaction, Transaction, CanLock, Lockable
<1>9. RowInv'
  <2>1. txn'[r].status # "PENDING"
    BY <1>2 DEF TypeOK, Exists, NoTransaction, Transaction, Types
  <2>2. QED
    BY <1>8, <2>1, RowInvKept DEF StepOf
<1>10. KeyInv'
  BY DEF KeyInv, TypeOK
<1>11. RequestOK(r)'
  BY <1>1 DEF RequestOK, TypeOK
<1>12. QED
  BY <1>7, <1>8, <1>9, <1>10, <1>11, StepKeepsIInv

\* A rejected payment changes nothing but the answer.
LEMMA reject_payment_keeps_IInv ==
    ASSUME IInv, NEW r \in Requests, reject_payment(r),
           UNCHANGED <<deliveryVars, jobVars, crashes>>
    PROVE  StepOf(r) /\ IInv'
<1> USE Names DEF IInv, reject_payment, Goto, Forget, Respond, tables, deliveryVars, jobVars
<1>1. StepOf(r)
  BY DEF TypeOK, StepOf, SessionsAlone, LocksAlone, BalancesAlone, RowsAlone,
       EventsAlone, KeysAlone, Exists, NoTransaction, Transaction
<1>2. answer' \in [Requests -> Answers]
  <2>1. \E c \in Failures : answer' = [answer EXCEPT ![r] = Failure(c)]
    BY DEF Failures
  <2>2. \A c \in Failures : Failure(c) \in Answers
    BY DEF Failure, Answers
  <2>3. QED
    BY <2>1, <2>2 DEF TypeOK
<1>3. TypeOK'
  <2>1. pc' = [pc EXCEPT ![r] = "done"] /\ cached' = [cached EXCEPT ![r] = NotLoaded]
    OBVIOUS
  <2>2. QED
    BY <1>2, <2>1 DEF TypeOK, RequestSteps
<1>4. RowInv'
  BY DEF RowInv
<1>5. KeyInv'
  BY DEF KeyInv, TypeOK
<1>6. RequestOK(r)'
  BY DEF RequestOK, TypeOK
<1>7. QED
  BY <1>1, <1>3, <1>4, <1>5, <1>6, StepKeepsIInv

\* A key is reserved for the request that inserts it, or was taken.
LEMMA reserve_idempotency_key_keeps_IInv ==
    ASSUME IInv, NEW r \in Requests, reserve_idempotency_key(r),
           UNCHANGED <<deliveryVars, jobVars, crashes>>
    PROVE  StepOf(r) /\ IInv'
<1> USE Names DEF IInv, reserve_idempotency_key, KeyTaken, Goto, Forget, requestVars,
      deliveryVars, jobVars
<1>1. /\ body[r] \in Bodies /\ body[r].from \in Accounts
      /\ body[r].to \in Accounts \ {body[r].from}
      /\ KeyOf(r) \in Accounts \X Keys /\ KeyOf(r)' = KeyOf(r)
  BY BodiesAreValid, PaymentsCarryAKey DEF RequestOK, KeyOf
<1>2. StepOf(r)
  BY <1>1 DEF TypeOK, StepOf, SessionsAlone, LocksAlone, BalancesAlone, RowsAlone,
       EventsAlone, KeysAlone, Exists, NoTransaction, Transaction
<1>3. idem' \in [Accounts \X Keys -> KeyRows \cup {NoKey}]
  <2>1. compute_request_hash(body[r]) \in Hashes
    BY <1>1 DEF Hashes
  <2>2. [id |-> r, hash |-> compute_request_hash(body[r]), reply |-> None] \in KeyRows
    BY <2>1 DEF KeyRows
  <2>3. QED
    BY <1>1, <2>2 DEF TypeOK
<1>4. TypeOK'
  <2>0. /\ \E step \in {"reserved", "conflict"} : pc' = [pc EXCEPT ![r] = step]
        /\ \E object \in {cached[r], NotLoaded} : cached' = [cached EXCEPT ![r] = object]
    BY DEF TypeOK
  <2>1. /\ pc' \in [Sessions -> RequestSteps \cup DeliverySteps \cup JobSteps]
        /\ cached' \in [Sessions -> [id : Accounts, balance : Balances] \cup {NotLoaded}]
        /\ \A q \in Requests : pc'[q] \in RequestSteps
        /\ \A w \in Deliveries : pc'[w] = pc[w]
        /\ \A j \in Jobs : pc'[j] = pc[j]
    BY <2>0 DEF TypeOK, RequestSteps
  <2>2. QED
    BY <1>3, <2>1 DEF TypeOK
<1>5. RowInv'
  BY DEF RowInv
<1>6. KeyInv'
  <2>1. \A ak \in old.keys : idem'[ak] = idem[ak] /\ idem[ak].id # r
    BY <1>1 DEF KeyInv, TypeOK
  <2>2. QED
    BY <2>1 DEF KeyInv, TypeOK
<1>7. RequestOK(r)'
  BY <1>1 DEF RequestOK, TypeOK, Exists
<1>8. QED
  BY <1>2, <1>4, <1>5, <1>6, <1>7, StepKeepsIInv

\* A conflict is answered from the stored response, and changes no table.
LEMMA answer_conflict_keeps_IInv ==
    ASSUME IInv, NEW r \in Requests, answer_conflict(r),
           UNCHANGED <<deliveryVars, jobVars, crashes>>
    PROVE  StepOf(r) /\ IInv'
<1> USE Names DEF IInv, answer_conflict, Goto, Forget, Respond, tables, deliveryVars, jobVars
<1>1. StepOf(r)
  BY DEF TypeOK, StepOf, SessionsAlone, LocksAlone, BalancesAlone, RowsAlone,
       EventsAlone, KeysAlone, Exists, NoTransaction, Transaction
<1>2. KeyOf(r) \in Accounts \X Keys
  BY BodiesAreValid, PaymentsCarryAKey DEF RequestOK, KeyOf
<1>3. idem[KeyOf(r)].reply \in Replies \cup {None}
  BY <1>2 DEF TypeOK, KeyRows, NoKey
<1>4. answer' \in [Requests -> Answers]
  BY <1>3 DEF TypeOK, Failure, Answers, Failures, Replies
<1>5. TypeOK'
  BY <1>4 DEF TypeOK, RequestSteps
<1>6. RowInv'
  BY DEF RowInv
<1>7. KeyInv'
  BY DEF KeyInv, TypeOK
<1>8. RequestOK(r)'
  BY DEF RequestOK, TypeOK
<1>9. QED
  BY <1>1, <1>5, <1>6, <1>7, <1>8, StepKeepsIInv

\* The sender is locked and in the session of the request.
LEMMA lock_sender_keeps_IInv ==
    ASSUME IInv, NEW r \in Requests, lock_sender(r),
           UNCHANGED <<deliveryVars, jobVars, crashes>>
    PROVE  StepOf(r) /\ IInv'
<1> USE Names DEF IInv, lock_sender, Goto, Acquire, Load, CanLock, tables, requestVars,
      deliveryVars, jobVars
<1>1. body[r].from \in Accounts
  BY BodiesAreValid DEF RequestOK
<1>2. StepOf(r)
  BY <1>1 DEF TypeOK, StepOf, SessionsAlone, LocksAlone, BalancesAlone, RowsAlone,
       EventsAlone, KeysAlone, Exists, NoTransaction, Transaction, Lockable
<1>3. LoadAccount(r, body[r].from) \in [id : Accounts, balance : Balances]
  BY <1>1, LoadAccountType
<1>4. TypeOK'
  BY <1>3 DEF TypeOK, RequestSteps
<1>5. RowInv'
  BY DEF RowInv
<1>6. KeyInv'
  BY DEF KeyInv, TypeOK
<1>7. RequestOK(r)'
  BY <1>1 DEF RequestOK, TypeOK, Lockable, KeyOf, Exists
<1>8. QED
  BY <1>2, <1>4, <1>5, <1>6, <1>7, StepKeepsIInv

\* A payment debits the account its request has locked, never below zero.
LEMMA execute_payment_keeps_IInv ==
    ASSUME IInv, NEW r \in Requests, execute_payment(r),
           UNCHANGED <<deliveryVars, jobVars, crashes>>
    PROVE  StepOf(r) /\ IInv'
<1> USE Names DEF IInv, execute_payment, Goto, Release, requestVars, deliveryVars, jobVars
<1>1. /\ body[r] \in Bodies /\ body[r].from \in Accounts
      /\ body[r].to \in Accounts \ {body[r].from}
      /\ body[r].amount \in Nat \ {0} /\ body[r].long \in BOOLEAN
      /\ lock[body[r].from] = r
  BY BodiesAreValid DEF RequestOK
<1>2. ~Exists(r)
  BY DEF RequestOK, Exists, NoTransaction
<1>3. cached[r].balance \in Balances
  BY MoneyFits DEF TypeOK, NotLoaded, Balances
<1>4. balance' \in [Accounts -> Balances]
  BY <1>1, <1>3, MoneyFits DEF TypeOK, Enough, Balances
<1>5. txn' \in [Rows -> Transaction \cup {NoTransaction}]
  BY <1>1, MoneyFits DEF TypeOK, Fits, Transaction, Types, Statuses
<1>6. TypeOK'
  BY <1>4, <1>5 DEF TypeOK, RequestSteps
<1>7. StepOf(r)
  BY <1>1, <1>2 DEF TypeOK, StepOf, SessionsAlone, LocksAlone, BalancesAlone,
       RowsAlone, EventsAlone, KeysAlone, Exists, NoTransaction, Transaction, Lockable
<1>8. RowInv'
  BY <1>1, <1>7, RowInvKept DEF StepOf, TypeOK
<1>9. KeyInv'
  BY DEF KeyInv, TypeOK
<1>10. RequestOK(r)'
  BY <1>1 DEF RequestOK, TypeOK, KeyOf, Exists
<1>11. QED
  BY <1>6, <1>7, <1>8, <1>9, <1>10, StepKeepsIInv

\* An aborted request leaves the tables as they were.
LEMMA abort_request_keeps_IInv ==
    ASSUME IInv, NEW r \in Requests, abort_request(r),
           UNCHANGED <<deliveryVars, jobVars, crashes>>
    PROVE  StepOf(r) /\ IInv'
<1> USE Names DEF IInv, abort_request, Goto, Forget, Respond, Release, tables, deliveryVars,
      jobVars
<1>1. StepOf(r)
  BY DEF TypeOK, StepOf, SessionsAlone, LocksAlone, BalancesAlone, RowsAlone,
       EventsAlone, KeysAlone, Exists, NoTransaction, Transaction
<1>2. TypeOK'
  BY DEF TypeOK, RequestSteps, Failure, Answers, Failures
<1>3. RowInv'
  BY DEF RowInv
<1>4. KeyInv'
  BY DEF KeyInv, TypeOK
<1>5. RequestOK(r)'
  BY DEF RequestOK, TypeOK
<1>6. QED
  BY <1>1, <1>2, <1>3, <1>4, <1>5, StepKeepsIInv

\* A committed payment has a status to show.
LEMMA refresh_payment_keeps_IInv ==
    ASSUME IInv, NEW r \in Requests, refresh_payment(r),
           UNCHANGED <<deliveryVars, jobVars, crashes>>
    PROVE  StepOf(r) /\ IInv'
<1> USE Names DEF IInv, refresh_payment, Goto, tables, deliveryVars, jobVars
<1>1. txn[r].status \in Statuses
  BY DEF RequestOK, Exists, TypeOK, Transaction, NoTransaction
<1>2. StepOf(r)
  BY DEF TypeOK, StepOf, SessionsAlone, LocksAlone, BalancesAlone, RowsAlone,
       EventsAlone, KeysAlone, Exists, NoTransaction, Transaction
<1>3. TypeOK'
  BY <1>1 DEF TypeOK, RequestSteps, NoAnswer, Answers
<1>4. RowInv'
  BY DEF RowInv
<1>5. KeyInv'
  BY DEF KeyInv, TypeOK
<1>6. RequestOK(r)'
  BY <1>1 DEF RequestOK, TypeOK, NoAnswer, KeyOf, Exists
<1>7. QED
  BY <1>2, <1>3, <1>4, <1>5, <1>6, StepKeepsIInv

\* The response is stored under the key its request reserved.
LEMMA finalize_idempotency_key_keeps_IInv ==
    ASSUME IInv, NEW r \in Requests, finalize_idempotency_key(r),
           UNCHANGED <<deliveryVars, jobVars, crashes>>
    PROVE  StepOf(r) /\ IInv'
<1> USE Names DEF IInv, finalize_idempotency_key, Goto, Forget, Respond, deliveryVars, jobVars
<1>1. KeyOf(r) \in Accounts \X Keys
  BY BodiesAreValid, PaymentsCarryAKey DEF RequestOK, KeyOf
<1>2. idem[KeyOf(r)].id = r /\ answer[r].status \in Statuses
  BY DEF RequestOK
<1>3. Created(r, answer[r].status) \in Replies \cap Answers
  BY <1>2 DEF Created, Replies, Answers
<1>4. idem' \in [Accounts \X Keys -> KeyRows \cup {NoKey}]
  <2> DEFINE k == KeyOf(r)
             response == Created(r, answer[r].status)
  <2>1. k \in Accounts \X Keys /\ idem \in [Accounts \X Keys -> KeyRows \cup {NoKey}]
    BY <1>1 DEF TypeOK
  <2>2. idem[k] \in KeyRows
    BY <1>2, <2>1 DEF NoKey
  <2>3. idem' = [idem EXCEPT ![k] = [idem[k] EXCEPT !.reply = response]]
    OBVIOUS
  <2> HIDE DEF finalize_idempotency_key, k, response
  <2>4. [idem[k] EXCEPT !.reply = response] \in KeyRows
    <3>1. response \in Replies
      BY <1>3 DEF response
    <3>2. QED
      BY <2>2, <3>1 DEF KeyRows
  <2>5. QED
    BY <2>1, <2>3, <2>4
<1>5. StepOf(r)
  BY <1>1, <1>2 DEF TypeOK, StepOf, SessionsAlone, LocksAlone, BalancesAlone, RowsAlone,
       EventsAlone, KeysAlone, Exists, NoTransaction, Transaction, KeyRows, NoKey
<1>6. TypeOK'
  BY <1>3, <1>4 DEF TypeOK, RequestSteps
<1>7. RowInv'
  BY DEF RowInv
<1>8. KeyInv'
  BY <1>1, <1>2, <1>4 DEF KeyInv, TypeOK, KeyRows, NoKey
<1>9. RequestOK(r)'
  BY DEF RequestOK, TypeOK
<1>10. QED
  BY <1>5, <1>6, <1>7, <1>8, <1>9, StepKeepsIInv

(***************************************************************************)
(* The steps of a delivery                                                 *)
(***************************************************************************)
\* The fields of a notice.
LEMMA NoticeType ==
    ASSUME NEW n \in Notices
    PROVE  /\ n.event \in EventIds /\ n.tx \in Rows \cup {None} /\ n.amount \in Nat
           /\ n.type \in {"payment.succeeded", "payment.failed"}
BY NoticesAreValid

\* A delivery goes to one of its own steps, and nobody else moves.
LEMMA DeliveryPc ==
    ASSUME TypeOK, NEW w \in Deliveries, NEW step \in DeliverySteps, Goto(w, step)
    PROVE  /\ pc' \in [Sessions -> RequestSteps \cup DeliverySteps \cup JobSteps]
           /\ \A r \in Requests : pc'[r] \in RequestSteps
           /\ \A d \in Deliveries : pc'[d] \in DeliverySteps
           /\ \A j \in Jobs : pc'[j] \in JobSteps
           /\ pc'[w] = step
BY Names DEF TypeOK, Goto

\* Writing a status changes nothing else in a row.
LEMMA StatusUpdate ==
    ASSUME NEW row \in Transaction, NEW status \in Statuses,
           NEW new, new = [row EXCEPT !.status = status]
    PROVE  /\ new \in Transaction
           /\ new.type = row.type /\ new.acct = row.acct /\ new.rel = row.rel
           /\ new.amount = row.amount /\ new.status = status
BY DEF Transaction

\* A delivery that has stored an event owns it; a duplicate is over.
LEMMA payment_confirmation_keeps_IInv ==
    ASSUME IInv, NEW w \in Deliveries, payment_confirmation(w),
           UNCHANGED <<requestVars, jobVars, crashes>>
    PROVE  StepOf(w) /\ IInv'
<1> USE Names DEF IInv, payment_confirmation, reserve_webhook_event, requestVars, jobVars
<1> DEFINE new == [id |-> w, processed |-> FALSE, error |-> "none"]
<1>1. PICK n \in Notices :
        /\ n.tx # None => Exists(n.tx)
        /\ note' = [note EXCEPT ![w] = n]
        /\ \/ /\ event[n.event].id = None
              /\ event' = [event EXCEPT ![n.event] = new]
              /\ Goto(w, "stored")
           \/ Goto(w, "done") /\ event' = event
  BY DEF NoEvent
<1>2. n.event \in EventIds
  BY NoticeType
<1>3. StepOf(w)
  BY <1>1, <1>2 DEF TypeOK, StepOf, SessionsAlone, LocksAlone, BalancesAlone, RowsAlone,
       EventsAlone, KeysAlone, Exists, NoTransaction, Transaction, Goto
<1>4. event' \in [EventIds -> EventRows \cup {NoEvent}]
  <2>1. new \in EventRows
    BY DEF EventRows
  <2>2. QED
    BY <1>1, <1>2, <2>1 DEF TypeOK
<1>5. note' \in [Deliveries -> Notices \cup {None}]
  BY <1>1 DEF TypeOK
<1>6. TypeOK'
  BY <1>1, <1>4, <1>5, DeliveryPc DEF TypeOK, DeliverySteps
<1>7. RowInv'
  BY DEF RowInv
<1>8. KeyInv'
  <2>1. \A e \in old.events : event[e].id \in Deliveries /\ pc[event[e].id] = "done"
    BY DEF KeyInv
  <2>2. \A e \in old.events : event'[e] = event[e] /\ event[e].id # w
    <3>1. pc[w] = "idle" /\ old.events \subseteq EventIds
      BY DEF TypeOK
    <3> QED BY <1>1, <1>2, <2>1, <3>1, Names DEF TypeOK
  <2>3. old' = old /\ idem' = idem
    OBVIOUS
  <2>4. \A q \in Sessions \ {w} : pc'[q] = pc[q]
    BY <1>1 DEF TypeOK, Goto
  <2>5. QED
    BY <2>1, <2>2, <2>3, <2>4, Names DEF KeyInv, TypeOK
<1>9. /\ pc[w] = "idle" /\ txn'[w] = NoTransaction /\ cached'[w] = NotLoaded
      /\ note'[w] = n /\ txn' = txn
  <2>1. DeliveryOK(w) /\ note \in [Deliveries -> Notices \cup {None}]
    BY DEF TypeOK
  <2>2. txn[w] = NoTransaction /\ cached[w] = NotLoaded
    BY <2>1 DEF DeliveryOK
  <2>3. QED
    BY <1>1, <2>1, <2>2
<1>10. CASE Goto(w, "stored") /\ event' = [event EXCEPT ![n.event] = new]
  <2>1. pc'[w] = "stored" /\ event'[n.event] = new
    BY <1>2, <1>10 DEF TypeOK, Goto
  <2>2. n.tx # None => Exists(n.tx)'
    BY <1>1, <1>9 DEF Exists
  <2>3. DeliveryOK(w)'
    BY <1>9, <2>1, <2>2 DEF DeliveryOK
  <2>4. QED
    BY <1>3, <1>6, <1>7, <1>8, <2>3, StepKeepsIInv
<1>11. CASE Goto(w, "done")
  <2>1. pc'[w] = "done"
    BY <1>11 DEF TypeOK, Goto
  <2>2. DeliveryOK(w)'
    BY <1>9, <2>1 DEF DeliveryOK
  <2>3. QED
    BY <1>3, <1>6, <1>7, <1>8, <2>2, StepKeepsIInv
<1>12. QED
  BY <1>1, <1>10, <1>11

\* The task is scheduled, or the handler or task ends with an exception: the
\* tables and locks stay.
LEMMA MoveAlone ==
    ASSUME IInv, NEW w \in Deliveries, NEW step \in {"accepted", "done"},
           \/ step = "accepted" /\ pc[w] = "stored"
           \/ step = "done" /\ pc[w] \in {"stored", "failing"},
           Goto(w, step), NEW e \in Faults, fault' = [fault EXCEPT ![w] = e],
           UNCHANGED <<tables, lock, cached, old, note, requestVars, jobVars, crashes>>
    PROVE  StepOf(w) /\ IInv'
<1> USE Names DEF IInv, tables, requestVars, jobVars
<1>1. StepOf(w)
  BY DEF TypeOK, StepOf, SessionsAlone, LocksAlone, BalancesAlone, RowsAlone,
       EventsAlone, KeysAlone, Exists, NoTransaction, Transaction, Goto
<1>2. TypeOK'
  BY DeliveryPc DEF TypeOK, DeliverySteps
<1>3. RowInv'
  BY DEF RowInv
<1>4. KeyInv'
  BY DEF KeyInv, TypeOK, Goto
<1>5. DeliveryOK(w)'
  <2>1. pc'[w] = step
    BY DEF TypeOK, Goto
  <2>2. DeliveryOK(w)
    OBVIOUS
  <2> QED BY <2>1, <2>2 DEF DeliveryOK, Exists
<1>6. QED
  BY <1>1, <1>2, <1>3, <1>4, <1>5, StepKeepsIInv

\* Rolling back drops the locks of a delivery and changes no table, but that the
\* mark of a settled one may have been committed.
LEMMA RollbackKeepsIInv ==
    ASSUME IInv, NEW w \in Deliveries, NEW e \in Errors,
           pc[w] \in {"accepted", "payment_locked", "account_locked", "settled"},
           Fail(w, e), UNCHANGED <<balance, txn, idem, old, note, requestVars, jobVars, crashes>>,
           \/ event' = event
           \/ event' = [event EXCEPT ![note[w].event].processed = TRUE]
    PROVE  StepOf(w) /\ IInv'
<1> USE Names DEF IInv, Fail, Goto, Forget, Release, requestVars, jobVars
<1>1. /\ note[w] \in Notices /\ note[w].event \in EventIds
      /\ event[note[w].event].id = w
      /\ note[w].tx # None => Exists(note[w].tx)
  BY NoticeType DEF DeliveryOK
<1>2. /\ event' \in [EventIds -> EventRows \cup {NoEvent}]
      /\ event'[note[w].event].id = w
      /\ \A x \in EventIds : x # note[w].event => event'[x] = event[x]
  <2>1. event[note[w].event] \in EventRows
    BY <1>1 DEF TypeOK, NoEvent
  <2>2. CASE event' = event
    BY <1>1, <2>2 DEF TypeOK
  <2>3. CASE event' = [event EXCEPT ![note[w].event] =
                         [event[note[w].event] EXCEPT !.processed = TRUE]]
    <3>1. /\ [event[note[w].event] EXCEPT !.processed = TRUE] \in EventRows
          /\ [event[note[w].event] EXCEPT !.processed = TRUE].id = w
      BY <1>1, <2>1 DEF EventRows
    <3> HIDE DEF Fail
    <3> QED BY <1>1, <2>3, <3>1 DEF TypeOK
  <2> QED BY <2>2, <2>3
<1>3. StepOf(w)
  BY <1>1, <1>2 DEF TypeOK, StepOf, SessionsAlone, LocksAlone, BalancesAlone, RowsAlone,
       EventsAlone, KeysAlone, Exists, NoTransaction, Transaction
<1>4. TypeOK'
  BY <1>2, DeliveryPc DEF TypeOK, DeliverySteps, Faults
<1>5. RowInv'
  BY DEF RowInv
<1>6. KeyInv'
  BY <1>1, <1>2 DEF KeyInv, TypeOK
<1>7. DeliveryOK(w)'
  <2>1. pc'[w] = "failing" /\ cached'[w] = NotLoaded /\ note'[w] = note[w]
        /\ txn' = txn /\ fault'[w] = e
    BY DEF TypeOK
  <2>2. note[w].tx # None => Exists(note[w].tx)'
    BY <1>1, <2>1 DEF Exists
  <2>3. QED
    BY <1>1, <1>2, <2>1, <2>2 DEF DeliveryOK
<1>8. QED
  BY <1>3, <1>4, <1>5, <1>6, <1>7, StepKeepsIInv

\* What passes the checks of the background task is a pending payment of the
\* amount announced, locked by the delivery.
LEMMA lock_payment_keeps_IInv ==
    ASSUME IInv, NEW w \in Deliveries, lock_payment(w),
           UNCHANGED <<requestVars, jobVars, crashes>>
    PROVE  StepOf(w) /\ IInv'
<1> USE Names DEF IInv, lock_payment
<1>1. CASE Rejection(note[w]) # "none" /\ Fail(w, Rejection(note[w]))
  <2>1. Rejection(note[w]) \in Errors
    BY <1>1 DEF Rejection, Raised, Errors
  <2>2. QED
    BY <1>1, <2>1, RollbackKeepsIInv DEF tables
<1>2. CASE /\ Rejection(note[w]) = "none"
           /\ Acquire(w, note[w].tx)
           /\ Goto(w, "payment_locked")
           /\ UNCHANGED <<cached, fault>>
  <2> USE <1>2 DEF Acquire, Goto, CanLock, tables, requestVars, jobVars
  <2>1. /\ note[w] \in Notices /\ note[w].tx \in Rows
        /\ txn[note[w].tx].status = "PENDING"
        /\ txn[note[w].tx].amount = note[w].amount
    BY NoticeType DEF DeliveryOK, Rejection, Raised, AmountDiffers
  <2>2. StepOf(w)
    <3>1. note[w].tx # None /\ lock[note[w].tx] \in {None, w}
      BY <2>1, DisjointNames DEF Sessions
    <3>2. QED
      BY <2>1, <3>1 DEF TypeOK, StepOf, SessionsAlone, LocksAlone, BalancesAlone, RowsAlone,
           EventsAlone, KeysAlone, Exists, NoTransaction, Transaction, Lockable
  <2>3. TypeOK'
    BY <2>1 DEF TypeOK, DeliverySteps
  <2>4. RowInv'
    BY DEF RowInv
  <2>5. KeyInv'
    BY DEF KeyInv, TypeOK
  <2>6. DeliveryOK(w)'
    <3>1. /\ pc'[w] = "payment_locked" /\ cached' = cached /\ note' = note
          /\ event' = event /\ txn' = txn /\ lock'[note[w].tx] = w
      BY <2>1 DEF TypeOK, Lockable
    <3>2. DeliveryOK(w) /\ pc[w] = "accepted" /\ note[w].tx # None
      BY <2>1, DisjointNames DEF Sessions
    <3>3. /\ txn[w] = NoTransaction /\ cached[w] = NotLoaded
          /\ event[note[w].event].id = w /\ ~event[note[w].event].processed
          /\ Exists(note[w].tx)
      BY <3>2 DEF DeliveryOK
    <3>4. Exists(note[w].tx)'
      BY <3>1, <3>3 DEF Exists
    <3>5. QED
      BY <2>1, <3>1, <3>3, <3>4 DEF DeliveryOK
  <2>7. QED
    BY <2>2, <2>3, <2>4, <2>5, <2>6, StepKeepsIInv
<1>3. QED
  BY <1>1, <1>2

\* The account a settlement pays is locked, and loaded for the first time in
\* its session: the object is what the row is.
LEMMA lock_paid_account_keeps_IInv ==
    ASSUME IInv, NEW w \in Deliveries, lock_paid_account(w),
           UNCHANGED <<requestVars, jobVars, crashes>>
    PROVE  StepOf(w) /\ IInv'
<1> USE Names DEF IInv, lock_paid_account, Goto, Acquire, Load, CanLock, tables, requestVars,
      deliveryVars, jobVars
<1> DEFINE a == PaidAccount(note[w])
<1>1. /\ note[w].tx \in Rows /\ lock[note[w].tx] = w
      /\ txn[note[w].tx].status = "PENDING"
      /\ txn[note[w].tx].amount = note[w].amount
  BY DEF DeliveryOK
<1>2. a \in Accounts
  BY <1>1 DEF PaidAccount, TypeOK, RowInv, Transaction, NoTransaction
<1>3. LoadAccount(w, a) = [id |-> a, balance |-> balance[a]]
  BY <1>2, DisjointNames DEF DeliveryOK, LoadAccount, NotLoaded
<1>4. LoadAccount(w, a) \in [id : Accounts, balance : Balances]
  BY <1>2, LoadAccountType
<1>5. StepOf(w)
  BY <1>2 DEF TypeOK, StepOf, SessionsAlone, LocksAlone, BalancesAlone, RowsAlone,
       EventsAlone, KeysAlone, Exists, NoTransaction, Transaction, Lockable
<1>6. TypeOK'
  BY <1>4 DEF TypeOK, DeliverySteps
<1>7. RowInv'
  BY DEF RowInv
<1>8. KeyInv'
  BY DEF KeyInv, TypeOK
<1>9. DeliveryOK(w)'
  <2>1. lock'[a] = w /\ lock'[note[w].tx] = w
    BY <1>1, <1>2 DEF TypeOK, Lockable
  <2>2. cached'[w] = [id |-> a, balance |-> balance[a]] /\ pc'[w] = "account_locked"
    BY <1>3 DEF TypeOK
  <2>3. PaidAccount(note[w])' = a
    BY DEF PaidAccount
  <2>4. QED
    BY <1>1, <2>1, <2>2, <2>3 DEF DeliveryOK, Exists
<1>10. QED
  BY <1>5, <1>6, <1>7, <1>8, <1>9, StepKeepsIInv

\* A settlement writes the payment and the account its delivery has locked,
\* and adds the one row of its name.
LEMMA SettleKeepsIInv ==
    ASSUME IInv, NEW w \in Deliveries, NEW status \in {"COMPLETED", "FAILED"},
           pc[w] = "account_locked", Settle(w, status),
           status = "COMPLETED" <=> note[w].type = "payment.succeeded",
           UNCHANGED <<requestVars, jobVars, crashes>>
    PROVE  StepOf(w) /\ IInv'
<1> USE Names DEF IInv, Settle, Goto, Forget, Release, requestVars, deliveryVars, jobVars
<1> DEFINE t == note[w].tx
           a == PaidAccount(note[w])
<1>1. /\ t \in Rows /\ lock[t] = w /\ lock[a] = w
      /\ txn[t].status = "PENDING" /\ txn[t].amount = note[w].amount
      /\ txn[w] = NoTransaction
      /\ cached[w] = [id |-> a, balance |-> balance[a]]
  BY DEF DeliveryOK
<1>2. /\ txn[t] \in Transaction /\ t # w
      /\ txn[t].type = "PAYMENT" /\ txn[t].rel \in Accounts
  BY <1>1 DEF TypeOK, NoTransaction, RowInv
<1>3. a \in Accounts /\ note[w].amount \in 1 .. MaxNumeric /\ balance[a] \in Balances
  BY <1>1, <1>2 DEF PaidAccount, Transaction, TypeOK
<1>4. balance' \in [Accounts -> Balances]
  BY <1>1, <1>3, MoneyFits DEF TypeOK, Fits, Balances
<1>5. /\ txn'[t] = [txn[t] EXCEPT !.status = status]
      /\ txn'[w] \in Transaction \cup {NoTransaction} /\ txn'[w].status # "PENDING"
      /\ \A x \in Rows \ {t, w} : txn'[x] = txn[x]
  <2> DEFINE credit == [type |-> "TRANSFER_IN", status |-> "COMPLETED",
                        acct |-> a, rel |-> txn[t].acct, amount |-> note[w].amount,
                        key |-> None, long |-> txn[t].long]
  <2>1. credit \in Transaction /\ credit.status # "PENDING"
    <3>1. txn[t].acct \in Accounts /\ txn[t].long \in BOOLEAN
      BY <1>2 DEF Transaction
    <3> HIDE DEF Settle, t
    <3>2. QED
      BY <1>3, <3>1 DEF Transaction, Types, Statuses
  <2>2. txn' = [x \in Rows |->
                  IF x = t THEN [txn[t] EXCEPT !.status = status]
                  ELSE IF x = w /\ status = "COMPLETED" THEN credit
                  ELSE txn[x]]
    OBVIOUS
  <2> HIDE DEF Settle, credit, t
  <2>3. txn'[w] = credit \/ txn'[w] = NoTransaction
    BY <1>1, <1>2, <2>2
  <2>4. NoTransaction.status # "PENDING"
    BY DEF NoTransaction
  <2>5. QED
    BY <1>1, <2>1, <2>2, <2>3, <2>4
<1>6. txn' \in [Rows -> Transaction \cup {NoTransaction}]
  <2>1. txn'[t] \in Transaction
    <3>1. status \in Statuses
      BY DEF Statuses
    <3>2. QED
      BY <1>2, <1>5, <3>1, StatusUpdate
  <2>2. txn' = [x \in Rows |-> txn'[x]]
    OBVIOUS
  <2>3. QED
    BY <1>5, <2>1, <2>2 DEF TypeOK
<1>7. TypeOK'
  BY <1>4, <1>6 DEF TypeOK, DeliverySteps
<1>8. StepOf(w)
  <2>1. SessionsAlone(w) /\ LocksAlone(w) /\ EventsAlone(w) /\ KeysAlone
    BY DEF TypeOK, SessionsAlone, LocksAlone, EventsAlone, KeysAlone
  <2>2. BalancesAlone(w)
    BY <1>1 DEF BalancesAlone, TypeOK
  <2>3. RowsAlone(w)
    <3>1. /\ txn'[t].type = txn[t].type /\ txn'[t].acct = txn[t].acct
          /\ txn'[t].rel = txn[t].rel /\ txn'[t].amount = txn[t].amount
          /\ txn'[t].status = status /\ status \in Statuses
      <4>1. status \in Statuses
        BY DEF Statuses
      <4>2. txn[t] \in Transaction /\ txn'[t] = [txn[t] EXCEPT !.status = status]
        BY <1>2, <1>5
      <4> HIDE DEF Settle, t
      <4>3. QED
        BY <4>1, <4>2, StatusUpdate
    <3>2. ~Exists(w) /\ Exists(t)
      BY <1>1, <1>2 DEF Exists, NoTransaction
    <3>3. \A x \in Rows : Exists(x) => txn[x].status \in Statuses
      BY DEF Exists, TypeOK, Transaction, NoTransaction
    <3>4. lock[t] \in {None, w}
      BY <1>1
    <3>5. QED
      BY <1>1, <1>5, <3>1, <3>2, <3>3, <3>4 DEF RowsAlone
  <2>4. QED
    BY <2>1, <2>2, <2>3 DEF StepOf
<1>9. RowInv'
  BY <1>5, <1>8, RowInvKept DEF StepOf
<1>10. KeyInv'
  BY DEF KeyInv, TypeOK
<1>11. DeliveryOK(w)'
  <2>1. txn'[t].type = "PAYMENT"
    <3> HIDE DEF Settle, t
    <3>1. QED
      BY <1>2, <1>5 DEF Transaction
  <2>2. pc'[w] = "settled" /\ cached'[w] = NotLoaded
    BY DEF TypeOK
  <2>3. /\ note' = note /\ event' = event /\ note[w] \in Notices
        /\ event[note[w].event].id = w /\ ~event[note[w].event].processed
    BY DEF DeliveryOK
  <2>4. Exists(t)'
    BY <2>1 DEF Exists
  <2> HIDE DEF Settle
  <2>5. QED
    BY <2>2, <2>3, <2>4 DEF DeliveryOK
<1>12. QED
  BY <1>7, <1>8, <1>9, <1>10, <1>11, StepKeepsIInv

\* Marking an event processed changes the event of the delivery only.
LEMMA mark_webhook_processed_keeps_IInv ==
    ASSUME IInv, NEW w \in Deliveries, mark_webhook_processed(w),
           UNCHANGED <<requestVars, jobVars, crashes>>
    PROVE  StepOf(w) /\ IInv'
<1> USE Names DEF IInv, mark_webhook_processed, Goto, requestVars, deliveryVars, jobVars
<1> DEFINE e == note[w].event
<1>1. note[w] \in Notices /\ event[e].id = w
  BY DEF DeliveryOK
<1>2. e \in EventIds
  BY <1>1, NoticeType
<1>3. event[e] \in EventRows
  BY <1>1, <1>2 DEF TypeOK, NoEvent
<1>4. event'[e] \in EventRows /\ event' = [event EXCEPT ![e] = event'[e]]
  <2>1. event' = [event EXCEPT ![e] = [event[e] EXCEPT !.processed = TRUE]]
    OBVIOUS
  <2>2. [event[e] EXCEPT !.processed = TRUE] \in EventRows
    BY <1>3 DEF EventRows
  <2>3. QED
    BY <1>2, <2>1, <2>2 DEF TypeOK
<1>5. event' \in [EventIds -> EventRows \cup {NoEvent}]
  BY <1>4 DEF TypeOK
<1>6. TypeOK'
  BY <1>5, DeliveryPc DEF TypeOK, DeliverySteps
<1>7. StepOf(w)
  BY <1>1, <1>4 DEF TypeOK, StepOf, SessionsAlone, LocksAlone, BalancesAlone, RowsAlone,
       EventsAlone, KeysAlone, Exists, NoTransaction, Transaction
<1>8. RowInv'
  BY DEF RowInv
<1>9. KeyInv'
  BY <1>1, <1>4 DEF KeyInv, TypeOK
<1>10. DeliveryOK(w)'
  <2>1. DeliveryOK(w)
    OBVIOUS
  <2>2. cached[w] = NotLoaded
    BY <2>1 DEF DeliveryOK
  <2>3. pc'[w] = "done"
    BY DEF TypeOK
  <2>4. QED
    BY <2>2, <2>3 DEF DeliveryOK
<1>11. QED
  BY <1>6, <1>7, <1>8, <1>9, <1>10, StepKeepsIInv

\* Recording an error changes the event of the delivery only.
LEMMA record_webhook_error_keeps_IInv ==
    ASSUME IInv, NEW w \in Deliveries, record_webhook_error(w),
           UNCHANGED <<requestVars, jobVars, crashes>>
    PROVE  StepOf(w) /\ IInv'
<1> USE Names DEF IInv, record_webhook_error, Goto, requestVars, deliveryVars, jobVars
<1> DEFINE e == note[w].event
<1>1. note[w] \in Notices /\ event[e].id = w
  BY DEF DeliveryOK
<1>2. e \in EventIds
  BY <1>1, NoticeType
<1>3. event[e] \in EventRows
  BY <1>1, <1>2 DEF TypeOK, NoEvent
<1>4. event'[e] \in EventRows /\ event' = [event EXCEPT ![e] = event'[e]]
  <2>1. fault[w] \in Errors
    BY DEF DeliveryOK
  <2>2. event' = [event EXCEPT ![e] = [event[e] EXCEPT !.error = fault[w]]]
    OBVIOUS
  <2>3. [event[e] EXCEPT !.error = fault[w]] \in EventRows
    BY <1>3, <2>1 DEF EventRows
  <2>4. QED
    BY <1>2, <2>2, <2>3 DEF TypeOK
<1>5. event' \in [EventIds -> EventRows \cup {NoEvent}]
  BY <1>4 DEF TypeOK
<1>6. TypeOK'
  BY <1>5, DeliveryPc DEF TypeOK, DeliverySteps
<1>7. StepOf(w)
  BY <1>1, <1>4 DEF TypeOK, StepOf, SessionsAlone, LocksAlone, BalancesAlone, RowsAlone,
       EventsAlone, KeysAlone, Exists, NoTransaction, Transaction
<1>8. RowInv'
  BY DEF RowInv
<1>9. KeyInv'
  BY <1>1, <1>4 DEF KeyInv, TypeOK
<1>10. DeliveryOK(w)'
  <2>1. DeliveryOK(w)
    OBVIOUS
  <2>2. cached[w] = NotLoaded
    BY <2>1 DEF DeliveryOK
  <2>3. pc'[w] = "done"
    BY DEF TypeOK
  <2>4. QED
    BY <2>2, <2>3 DEF DeliveryOK
<1>11. QED
  BY <1>6, <1>7, <1>8, <1>9, <1>10, StepKeepsIInv

\* A delivery that is aborted writes nothing but, perhaps, the mark.
LEMMA abort_delivery_keeps_IInv ==
    ASSUME IInv, NEW w \in Deliveries, abort_delivery(w),
           UNCHANGED <<requestVars, jobVars, crashes>>
    PROVE  StepOf(w) /\ IInv'
<1>1. CASE refresh_raises(w) \/ record_raises(w)
  <2>1. "uncaught" \in Faults
    BY DEF Faults
  <2> QED BY <1>1, <2>1, MoveAlone DEF refresh_raises, record_raises, EndUncaught
<1>2. CASE abort_settlement(w)
  BY <1>2, RollbackKeepsIInv DEF abort_settlement, Errors, tables
<1>3. CASE mark_raises(w)
  BY <1>3, RollbackKeepsIInv DEF mark_raises, Errors
<1> QED BY <1>1, <1>2, <1>3 DEF abort_delivery

\* Every step of a delivery keeps the invariant and leaves the others alone.
LEMMA DeliveryStepKeepsIInv ==
    ASSUME IInv, NEW w \in Deliveries, DeliveryStep(w),
           UNCHANGED <<requestVars, jobVars, crashes>>
    PROVE  StepOf(w) /\ IInv'
<1>1. CASE payment_confirmation(w)
  BY <1>1, payment_confirmation_keeps_IInv
<1>2. CASE schedule_task(w)
  <2>1. fault[w] \in Faults /\ fault' = [fault EXCEPT ![w] = fault[w]]
    BY <1>2 DEF schedule_task, deliveryVars, IInv, TypeOK
  <2> QED BY <1>2, <2>1, MoveAlone DEF schedule_task, deliveryVars
<1>3. CASE lock_payment(w)
  BY <1>3, lock_payment_keeps_IInv
<1>4. CASE lock_paid_account(w)
  BY <1>4, lock_paid_account_keeps_IInv
<1>5. CASE process_payment_succeeded(w)
  BY <1>5, SettleKeepsIInv DEF process_payment_succeeded
<1>6. CASE process_payment_failed(w)
  BY <1>6, SettleKeepsIInv DEF process_payment_failed
<1>7. CASE settlement_is_refused(w)
  BY <1>7, abort_delivery_keeps_IInv DEF settlement_is_refused, abort_delivery
<1>8. CASE mark_webhook_processed(w)
  BY <1>8, mark_webhook_processed_keeps_IInv
<1>9. CASE record_webhook_error(w)
  BY <1>9, record_webhook_error_keeps_IInv
<1>10. QED
  BY <1>1, <1>2, <1>3, <1>4, <1>5, <1>6, <1>7, <1>8, <1>9
     DEF DeliveryStep, HandleDelivery, handle_webhook_event

\* Every step of a request keeps the invariant and leaves the others alone.
LEMMA RequestStepKeepsIInv ==
    ASSUME IInv, NEW r \in Requests, RequestStep(r),
           UNCHANGED <<deliveryVars, jobVars, crashes>>
    PROVE  StepOf(r) /\ IInv'
<1>1. CASE get_current_account(r)
  BY <1>1, get_current_account_keeps_IInv
<1>2. CASE execute_deposit(r)
  BY <1>2, execute_deposit_keeps_IInv
<1>3. CASE reject_payment(r)
  BY <1>3, reject_payment_keeps_IInv
<1>4. CASE reserve_idempotency_key(r)
  BY <1>4, reserve_idempotency_key_keeps_IInv
<1>5. CASE answer_conflict(r)
  BY <1>5, answer_conflict_keeps_IInv
<1>6. CASE lock_sender(r)
  BY <1>6, lock_sender_keeps_IInv
<1>7. CASE execute_payment(r)
  BY <1>7, execute_payment_keeps_IInv
<1>8. CASE payment_overflows(r)
  BY <1>8, abort_request_keeps_IInv DEF payment_overflows
<1>9. CASE refresh_payment(r)
  BY <1>9, refresh_payment_keeps_IInv
<1>10. CASE finalize_idempotency_key(r)
  BY <1>10, finalize_idempotency_key_keeps_IInv
<1>11. QED
  BY <1>1, <1>2, <1>3, <1>4, <1>5, <1>6, <1>7, <1>8, <1>9, <1>10
     DEF RequestStep, HandleRequest

(***************************************************************************)
(* The steps of a job                                                      *)
(***************************************************************************)
\* A job goes to one of its own steps, and nobody else moves.
LEMMA JobPc ==
    ASSUME TypeOK, NEW j \in Jobs, NEW step \in JobSteps, Goto(j, step)
    PROVE  /\ pc' \in [Sessions -> RequestSteps \cup DeliverySteps \cup JobSteps]
           /\ \A r \in Requests : pc'[r] \in RequestSteps /\ pc'[r] = pc[r]
           /\ \A w \in Deliveries : pc'[w] \in DeliverySteps /\ pc'[w] = pc[w]
           /\ \A i \in Jobs : pc'[i] \in JobSteps
           /\ pc'[j] = step
BY Names DEF TypeOK, Goto

\* The foreign key of a transaction can be set to NULL without changing
\* anything else in it.
LEMMA KeyUpdate ==
    ASSUME NEW row \in Transaction, NEW new, new = [row EXCEPT !.key = None]
    PROVE  /\ new \in Transaction
           /\ new.type = row.type /\ new.acct = row.acct /\ new.rel = row.rel
           /\ new.amount = row.amount /\ new.status = row.status
BY DEF Transaction

\* A job that ends, at any step, drops its locks and changes no table.
LEMMA end_run_keeps_IInv ==
    ASSUME IInv, NEW j \in Jobs, end_run(j),
           UNCHANGED <<requestVars, deliveryVars, crashes>>
    PROVE  StepOf(j) /\ IInv'
<1> USE Names DEF IInv, end_run, Forget, Release, tables, requestVars, deliveryVars
<1>1. StepOf(j)
  BY DEF TypeOK, StepOf, SessionsAlone, LocksAlone, BalancesAlone, RowsAlone,
       EventsAlone, KeysAlone, Exists, NoTransaction, Transaction, Goto
<1>2. TypeOK'
  BY JobPc DEF TypeOK, JobSteps
<1>3. RowInv'
  BY DEF RowInv
<1>4. KeyInv'
  BY JobPc DEF KeyInv, TypeOK, JobSteps
<1>5. JobOK(j)'
  BY DEF JobOK, TypeOK, Goto
<1>6. QED
  BY <1>1, <1>2, <1>3, <1>4, <1>5, StepKeepsIInv

\* Deleting the expired keys changes no transaction but for the reference to
\* its key, and no key that a request at work has reserved.
LEMMA cleanup_expired_idempotency_keys_keeps_IInv ==
    ASSUME IInv, NEW j \in Jobs, cleanup_expired_idempotency_keys(j),
           UNCHANGED <<requestVars, deliveryVars, crashes>>
    PROVE  StepOf(j) /\ IInv'
<1> USE Names DEF IInv, cleanup_expired_idempotency_keys, jobVars, requestVars, deliveryVars
<1> DEFINE linked == {t \in Rows : txn[t].key \in {idem[ak].id : ak \in old.keys} \ {None}}
<1>1. /\ idem' = [ak \in Accounts \X Keys |-> IF ak \in old.keys THEN NoKey ELSE idem[ak]]
      /\ txn' = [t \in Rows |->
                   IF t \in linked THEN [txn[t] EXCEPT !.key = None] ELSE txn[t]]
      /\ old' = [old EXCEPT !.keys = {}]
      /\ Goto(j, "keys_deleted")
  OBVIOUS
<1>2. \A t \in linked : txn[t] \in Transaction
  BY DEF TypeOK, NoTransaction
<1> HIDE DEF cleanup_expired_idempotency_keys
<1>3. \A t \in Rows :
        \/ txn'[t] = txn[t]
        \/ /\ txn[t] \in Transaction /\ txn'[t] \in Transaction
           /\ txn'[t].type = txn[t].type /\ txn'[t].acct = txn[t].acct
           /\ txn'[t].rel = txn[t].rel /\ txn'[t].amount = txn[t].amount
           /\ txn'[t].status = txn[t].status
  BY <1>1, <1>2, KeyUpdate
<1>4. UNCHANGED <<balance, event, lock, cached, stale_ids, current>>
  BY DEF cleanup_expired_idempotency_keys
<1>5. TypeOK'
  <2>1. idem' \in [Accounts \X Keys -> KeyRows \cup {NoKey}]
    BY <1>1 DEF TypeOK
  <2>2. txn' \in [Rows -> Transaction \cup {NoTransaction}]
    BY <1>1, <1>3 DEF TypeOK
  <2>3. old' \in [keys : SUBSET (Accounts \X Keys), rows : SUBSET Rows,
                  events : SUBSET EventIds]
    BY <1>1 DEF TypeOK
  <2>4. "keys_deleted" \in JobSteps
    BY DEF JobSteps
  <2>5. QED
    BY <1>1, <1>4, <2>1, <2>2, <2>3, <2>4, JobPc DEF TypeOK
<1>6. StepOf(j)
  <2>1. RowsAlone(j)
    <3>1. \A t \in Rows : ~Exists(t) => txn'[t] = txn[t]
      BY <1>3 DEF Exists, Transaction, Types
    <3>2. \A t \in Rows : Exists(t) => txn[t].status \in Statuses
      BY DEF TypeOK, Exists, NoTransaction, Transaction
    <3>3. QED
      BY <1>3, <3>1, <3>2 DEF RowsAlone
  <2>2. KeysAlone
    BY <1>1 DEF KeysAlone
  <2>3. SessionsAlone(j)
    BY <1>1, <1>4 DEF SessionsAlone, TypeOK, Goto
  <2>4. QED
    BY <1>4, <2>1, <2>2, <2>3 DEF StepOf, LocksAlone, BalancesAlone, EventsAlone
<1>7. RowInv'
  BY <1>6, RowInvKept DEF StepOf
<1>8. KeyInv'
  BY <1>1, <1>4, JobPc DEF KeyInv, TypeOK, JobSteps
<1>9. JobOK(j)'
  <2>1. \A t \in stale_ids[j] : txn'[t].type = "PAYMENT"
    BY <1>3 DEF JobOK, TypeOK
  <2>2. pc'[j] = "keys_deleted"
    BY <1>1 DEF Goto, TypeOK
  <2>3. QED
    BY <1>4, <2>1, <2>2 DEF JobOK
<1>10. QED
  BY <1>5, <1>6, <1>7, <1>8, <1>9, StepKeepsIInv

\* Only processed events are deleted, so no delivery at work loses its own.
LEMMA cleanup_old_webhook_events_keeps_IInv ==
    ASSUME IInv, NEW j \in Jobs, cleanup_old_webhook_events(j),
           UNCHANGED <<requestVars, deliveryVars, crashes>>
    PROVE  StepOf(j) /\ IInv'
<1> USE Names DEF IInv, cleanup_old_webhook_events, jobVars, requestVars, deliveryVars
<1>1. StepOf(j)
  BY DEF TypeOK, StepOf, SessionsAlone, LocksAlone, BalancesAlone, RowsAlone,
       EventsAlone, KeysAlone, Exists, NoTransaction, Transaction, Goto
<1>2. TypeOK'
  <2>1. event' \in [EventIds -> EventRows \cup {NoEvent}]
    BY DEF TypeOK
  <2>2. old' \in [keys : SUBSET (Accounts \X Keys), rows : SUBSET Rows,
                  events : SUBSET EventIds]
    BY DEF TypeOK
  <2>3. QED
    BY <2>1, <2>2, JobPc DEF TypeOK, JobSteps
<1>3. RowInv'
  BY DEF RowInv
<1>4. KeyInv'
  BY JobPc DEF KeyInv, TypeOK, JobSteps
<1>5. JobOK(j)'
  BY DEF JobOK, TypeOK, Goto
<1>6. QED
  BY <1>1, <1>2, <1>3, <1>4, <1>5, StepKeepsIInv

\* What a job selects are payments.
LEMMA select_stale_ids_keeps_IInv ==
    ASSUME IInv, NEW j \in Jobs, select_stale_ids(j),
           UNCHANGED <<requestVars, deliveryVars, crashes>>
    PROVE  StepOf(j) /\ IInv'
<1> USE Names DEF IInv, select_stale_ids, tables, requestVars, deliveryVars
<1>1. StepOf(j)
  BY DEF TypeOK, StepOf, SessionsAlone, LocksAlone, BalancesAlone, RowsAlone,
       EventsAlone, KeysAlone, Exists, NoTransaction, Transaction, Goto
<1>2. TypeOK'
  BY JobPc DEF TypeOK, JobSteps
<1>3. RowInv'
  BY DEF RowInv
<1>4. KeyInv'
  BY JobPc DEF KeyInv, TypeOK, JobSteps
<1>5. JobOK(j)'
  BY DEF JobOK, TypeOK, Goto, Stale
<1>6. QED
  BY <1>1, <1>2, <1>3, <1>4, <1>5, StepKeepsIInv

\* What a job visits is one of the payments it selected.
LEMMA next_stale_id_keeps_IInv ==
    ASSUME IInv, NEW j \in Jobs, next_stale_id(j),
           UNCHANGED <<requestVars, deliveryVars, crashes>>
    PROVE  StepOf(j) /\ IInv'
<1> USE Names DEF IInv, next_stale_id, tables, requestVars, deliveryVars
<1>1. StepOf(j)
  BY DEF TypeOK, StepOf, SessionsAlone, LocksAlone, BalancesAlone, RowsAlone,
       EventsAlone, KeysAlone, Exists, NoTransaction, Transaction, Goto
<1>2. TypeOK'
  BY JobPc DEF TypeOK, JobSteps
<1>3. RowInv'
  BY DEF RowInv
<1>4. KeyInv'
  BY JobPc DEF KeyInv, TypeOK, JobSteps
<1>5. JobOK(j)'
  BY DEF JobOK, TypeOK, Goto
<1>6. QED
  BY <1>1, <1>2, <1>3, <1>4, <1>5, StepKeepsIInv

\* A payment that is still pending is locked by the job that will expire it.
LEMMA lock_stale_payment_keeps_IInv ==
    ASSUME IInv, NEW j \in Jobs, lock_stale_payment(j),
           UNCHANGED <<requestVars, deliveryVars, crashes>>
    PROVE  StepOf(j) /\ IInv'
<1> USE Names DEF IInv, lock_stale_payment, CanLock, Acquire, tables, requestVars, deliveryVars
<1>1. current[j] \in Rows /\ current[j] \in Lockable /\ txn[current[j]].type = "PAYMENT"
  BY DEF JobOK, Lockable
<1>2. StepOf(j)
  BY <1>1 DEF TypeOK, StepOf, SessionsAlone, LocksAlone, BalancesAlone, RowsAlone,
       EventsAlone, KeysAlone, Exists, NoTransaction, Transaction, Goto
<1>3. TypeOK'
  BY <1>1, JobPc DEF TypeOK, JobSteps
<1>4. RowInv'
  BY DEF RowInv
<1>5. KeyInv'
  BY JobPc DEF KeyInv, TypeOK, JobSteps
<1>6. JobOK(j)'
  BY <1>1 DEF JobOK, TypeOK, Goto, StillPending
<1>7. QED
  BY <1>2, <1>3, <1>4, <1>5, <1>6, StepKeepsIInv

\* The sender of the payment to expire is locked and in the session.
LEMMA lock_sender_account_keeps_IInv ==
    ASSUME IInv, NEW j \in Jobs, lock_sender_account(j),
           UNCHANGED <<requestVars, deliveryVars, crashes>>
    PROVE  StepOf(j) /\ IInv'
<1> USE Names DEF IInv, lock_sender_account, CanLock, Acquire, Load, tables, jobVars,
      requestVars, deliveryVars
<1> DEFINE a == txn[current[j]].acct
<1>1. /\ current[j] \in Rows /\ txn[current[j]].type = "PAYMENT"
      /\ txn[current[j]].status = "PENDING" /\ lock[current[j]] = j
  BY DEF JobOK
<1>2. a \in Accounts
  BY <1>1 DEF TypeOK, Transaction, NoTransaction
<1>3. /\ LoadAccount(j, a) \in [id : Accounts, balance : Balances]
      /\ LoadAccount(j, a).id = a
  BY <1>2, LoadAccountType
<1>4. StepOf(j)
  BY <1>2 DEF TypeOK, StepOf, SessionsAlone, LocksAlone, BalancesAlone, RowsAlone,
       EventsAlone, KeysAlone, Exists, NoTransaction, Transaction, Goto, Lockable
<1>5. TypeOK'
  BY <1>2, <1>3, JobPc DEF TypeOK, JobSteps, Lockable
<1>6. RowInv'
  BY DEF RowInv
<1>7. KeyInv'
  BY JobPc DEF KeyInv, TypeOK, JobSteps
<1>8. JobOK(j)'
  <2>1. lock'[a] = j /\ lock'[current[j]] = j
    BY <1>1, <1>2 DEF TypeOK, Lockable
  <2>2. cached'[j].id = a
    BY <1>3 DEF TypeOK
  <2>3. QED
    BY <1>1, <2>1, <2>2 DEF JobOK
<1>9. QED
  BY <1>4, <1>5, <1>6, <1>7, <1>8, StepKeepsIInv

\* A refund writes the payment and the account the job has locked.
LEMMA expire_payment_keeps_IInv ==
    ASSUME IInv, NEW j \in Jobs, expire_payment(j),
           UNCHANGED <<requestVars, deliveryVars, crashes>>
    PROVE  StepOf(j) /\ IInv'
<1> USE Names DEF IInv, expire_payment, CommitRefund, Release, requestVars, deliveryVars
<1> DEFINE t == current[j]
           a == txn[t].acct
           new == cached[j].balance + txn[t].amount
<1>1. /\ t \in Rows /\ txn[t].type = "PAYMENT" /\ txn[t].status = "PENDING"
      /\ lock[t] = j /\ lock[a] = j /\ cached[j].id = a
  BY DEF JobOK
<1>2. txn[t] \in Transaction /\ a \in Accounts
  BY <1>1 DEF TypeOK, NoTransaction, Transaction
<1>3. cached[j] \in [id : Accounts, balance : Balances]
  BY <1>1, <1>2, DisjointNames DEF TypeOK, NotLoaded
<1>4. new \in Balances
  BY <1>2, <1>3, MoneyFits DEF RefundFits, Fits, Balances, Transaction
<1>5. /\ balance' = [balance EXCEPT ![a] = new]
      /\ txn' = [txn EXCEPT ![t] = [txn[t] EXCEPT !.status = "FAILED"]]
      /\ cached' = [cached EXCEPT ![j] = [cached[j] EXCEPT !.balance = new]]
      /\ Goto(j, "looping")
  OBVIOUS
<1>6. /\ txn'[t] \in Transaction
      /\ txn'[t].type = txn[t].type /\ txn'[t].acct = txn[t].acct
      /\ txn'[t].rel = txn[t].rel /\ txn'[t].amount = txn[t].amount
      /\ txn'[t].status = "FAILED"
      /\ \A x \in Rows \ {t} : txn'[x] = txn[x]
  <2>1. txn'[t] = [txn[t] EXCEPT !.status = "FAILED"] /\ "FAILED" \in Statuses
    BY <1>1, <1>5 DEF TypeOK, Statuses
  <2>2. \A x \in Rows \ {t} : txn'[x] = txn[x]
    BY <1>5 DEF TypeOK
  <2> HIDE DEF expire_payment, t
  <2>3. QED
    BY <1>2, <2>1, <2>2, StatusUpdate
<1>7. TypeOK'
  <2>1. balance' \in [Accounts -> Balances]
    BY <1>2, <1>4, <1>5 DEF TypeOK
  <2>2. txn' \in [Rows -> Transaction \cup {NoTransaction}]
    BY <1>5, <1>6 DEF TypeOK
  <2>3. [cached[j] EXCEPT !.balance = new] \in [id : Accounts, balance : Balances]
    BY <1>3, <1>4
  <2>4. cached' \in [Sessions -> [id : Accounts, balance : Balances] \cup {NotLoaded}]
    BY <1>5, <2>3 DEF TypeOK
  <2>5. QED
    BY <1>5, <2>1, <2>2, <2>4, JobPc DEF TypeOK, JobSteps
<1>8. StepOf(j)
  <2>1. RowsAlone(j)
    <3>1. \A x \in Rows : Exists(x) => txn[x].status \in Statuses
      BY DEF Exists, TypeOK, Transaction, NoTransaction
    <3>2. Exists(t) /\ "FAILED" \in Statuses
      BY <1>1 DEF Exists, Statuses
    <3>3. QED
      BY <1>1, <1>6, <3>1, <3>2 DEF RowsAlone
  <2>2. BalancesAlone(j)
    BY <1>1, <1>5 DEF BalancesAlone, TypeOK
  <2>3. SessionsAlone(j)
    BY <1>5 DEF SessionsAlone, TypeOK, Goto
  <2>4. LocksAlone(j) /\ EventsAlone(j) /\ KeysAlone
    BY DEF LocksAlone, EventsAlone, KeysAlone, TypeOK
  <2>5. QED
    BY <2>1, <2>2, <2>3, <2>4 DEF StepOf
<1>9. RowInv'
  BY <1>8, RowInvKept DEF StepOf
<1>10. KeyInv'
  BY JobPc DEF KeyInv, TypeOK, JobSteps
<1>11. JobOK(j)'
  <2>1. \A x \in stale_ids[j] : txn'[x].type = "PAYMENT"
    BY <1>1, <1>6 DEF JobOK, TypeOK
  <2>2. pc'[j] = "looping" /\ stale_ids' = stale_ids
    BY <1>5 DEF Goto, TypeOK
  <2>3. QED
    BY <2>1, <2>2 DEF JobOK
<1>12. QED
  BY <1>7, <1>8, <1>9, <1>10, <1>11, StepKeepsIInv

\* Every step of a job keeps the invariant and leaves the others alone.
LEMMA JobStepKeepsIInv ==
    ASSUME IInv, NEW j \in Jobs, run_cleanup_job(j),
           UNCHANGED <<requestVars, deliveryVars, crashes>>
    PROVE  StepOf(j) /\ IInv'
<1>1. CASE cleanup_expired_idempotency_keys(j)
  BY <1>1, cleanup_expired_idempotency_keys_keeps_IInv
<1>2. CASE cleanup_old_webhook_events(j)
  BY <1>2, cleanup_old_webhook_events_keeps_IInv
<1>3. CASE select_stale_ids(j)
  BY <1>3, select_stale_ids_keeps_IInv
<1>4. CASE next_stale_id(j)
  BY <1>4, next_stale_id_keeps_IInv
<1>5. CASE lock_stale_payment(j)
  BY <1>5, lock_stale_payment_keeps_IInv
<1>6. CASE lock_sender_account(j)
  BY <1>6, lock_sender_account_keeps_IInv
<1>7. CASE expire_payment(j)
  BY <1>7, expire_payment_keeps_IInv
<1>8. CASE refund_is_refused(j) \/ all_visited(j)
  BY <1>8, end_run_keeps_IInv DEF refund_is_refused, all_visited
<1>9. QED
  BY <1>1, <1>2, <1>3, <1>4, <1>5, <1>6, <1>7, <1>8 DEF run_cleanup_job

(***************************************************************************)
(* Errors, time, crashes, and the whole                                    *)
(***************************************************************************)
\* Whoever meets an error, also the victim of a deadlock, rolls back, and nobody
\* else is touched.
LEMMA Abort_keeps_IInv ==
    ASSUME IInv, NEW s \in Sessions, Abort(s)
    PROVE  StepOf(s) /\ IInv'
<1>1. CASE s \in Requests /\ abort_request(s) /\ UNCHANGED <<deliveryVars, jobVars>>
  BY <1>1, abort_request_keeps_IInv DEF Abort
<1>2. CASE s \in Deliveries /\ abort_delivery(s) /\ UNCHANGED <<requestVars, jobVars>>
  BY <1>2, abort_delivery_keeps_IInv DEF Abort
<1>3. CASE s \in Jobs /\ end_run(s) /\ UNCHANGED <<requestVars, deliveryVars>>
  BY <1>3, end_run_keeps_IInv DEF Abort
<1>4. QED
  BY <1>1, <1>2, <1>3 DEF Abort

\* Time expires only the keys and events of sessions that are over.
LEMMA TimePasses_keeps_IInv ==
    ASSUME IInv, TimePasses
    PROVE  IInv'
<1> USE DEF IInv, TimePasses, tables, requestVars, deliveryVars, jobVars
<1>1. /\ old' \in [keys : SUBSET (Accounts \X Keys), rows : SUBSET Rows,
                   events : SUBSET EventIds]
      /\ \A ak \in old'.keys \ old.keys : idem[ak].id # None /\ pc[idem[ak].id] = "done"
      /\ \A e \in old'.events \ old.events : event[e].id # None /\ pc[event[e].id] = "done"
  <2>1. old \in [keys : SUBSET (Accounts \X Keys), rows : SUBSET Rows,
                 events : SUBSET EventIds]
    BY DEF TypeOK
  <2>2. CASE \E ak \in Accounts \X Keys : key_expires(ak)
    <3>1. PICK ak \in Accounts \X Keys : key_expires(ak)
      BY <2>2
    <3>2. /\ old' = [old EXCEPT !.keys = old.keys \cup {ak}]
          /\ idem[ak].id # None /\ pc[idem[ak].id] = "done"
      BY <3>1 DEF key_expires
    <3> HIDE DEF TimePasses
    <3>3. QED
      BY <2>1, <3>2
  <2>3. CASE \E t \in Rows : payment_goes_stale(t)
    <3>1. PICK t \in Rows : old' = [old EXCEPT !.rows = old.rows \cup {t}]
      BY <2>3 DEF payment_goes_stale
    <3> HIDE DEF TimePasses
    <3>2. QED
      BY <2>1, <3>1
  <2>4. CASE \E e \in EventIds : event_outlives_retention(e)
    <3>1. PICK e \in EventIds :
            /\ old' = [old EXCEPT !.events = old.events \cup {e}]
            /\ event[e].id # None /\ pc[event[e].id] = "done"
      BY <2>4 DEF event_outlives_retention
    <3> HIDE DEF TimePasses
    <3>2. QED
      BY <2>1, <3>1
  <2>5. QED
    BY <2>2, <2>3, <2>4
<1>2. TypeOK'
  BY <1>1 DEF TypeOK
<1>3. KeyInv'
  <2>1. \A ak \in Accounts \X Keys : idem[ak].id # None => idem[ak].id \in Requests
    BY DEF TypeOK, KeyRows, NoKey
  <2>2. \A e \in EventIds : event[e].id # None => event[e].id \in Deliveries
    BY DEF TypeOK, EventRows, NoEvent
  <2>3. QED
    BY <1>1, <2>1, <2>2 DEF KeyInv, TypeOK
<1>4. RowInv'
  BY DEF RowInv
<1>5. \A r \in Requests : RequestOK(r)'
  BY DEF RequestOK, KeyOf, Exists
<1>6. \A w \in Deliveries : DeliveryOK(w)'
  BY DEF DeliveryOK, Exists, PaidAccount
<1>7. \A j \in Jobs : JobOK(j)'
  BY DEF JobOK
<1>8. QED
  BY <1>2, <1>3, <1>4, <1>5, <1>6, <1>7

\* A crash leaves the tables, and ends every handler.
LEMMA crash_keeps_IInv ==
    ASSUME IInv, crash
    PROVE  IInv'
<1> USE Names DEF IInv, crash, tables, deliveryVars, Running
<1>1. TypeOK'
  <2>1. /\ pc' \in [Sessions -> RequestSteps \cup DeliverySteps \cup JobSteps]
        /\ \A r \in Requests : pc'[r] \in RequestSteps
        /\ \A w \in Deliveries : pc'[w] \in DeliverySteps
        /\ \A j \in Jobs : pc'[j] \in JobSteps
    BY DEF TypeOK, RequestSteps, DeliverySteps, JobSteps
  <2>2. answer' \in [Requests -> Answers]
    BY DEF TypeOK, Failure, Answers, Failures
  <2>3. crashes' \in 0 .. MaxCrashes
    BY MaxCrashesIsNat DEF TypeOK
  <2>4. fault' \in [Deliveries -> Faults]
    BY DEF TypeOK, Faults
  <2>5. QED
    BY <2>1, <2>2, <2>3, <2>4 DEF TypeOK
<1>2. RowInv'
  BY DEF RowInv
<1>3. KeyInv'
  BY DEF KeyInv, TypeOK
<1>4. \A r \in Requests : RequestOK(r)'
  <2> SUFFICES ASSUME NEW r \in Requests
               PROVE  RequestOK(r)'
    OBVIOUS
  <2>1. RequestOK(r) /\ pc'[r] = IF pc[r] = "idle" THEN "idle" ELSE "done"
    OBVIOUS
  <2>2. QED
    BY <2>1 DEF RequestOK
<1>5. \A w \in Deliveries : DeliveryOK(w)'
  <2> SUFFICES ASSUME NEW w \in Deliveries
               PROVE  DeliveryOK(w)'
    OBVIOUS
  <2>1. DeliveryOK(w) /\ pc'[w] = IF pc[w] = "idle" THEN "idle" ELSE "done"
    OBVIOUS
  <2>2. cached'[w] = NotLoaded
    OBVIOUS
  <2>3. QED
    BY <2>1, <2>2 DEF DeliveryOK
<1>6. \A j \in Jobs : JobOK(j)'
  BY DEF JobOK
<1>7. QED
  BY <1>1, <1>2, <1>3, <1>4, <1>5, <1>6

\* The invariant holds in an empty database.
LEMMA InitIInv == Init => IInv
<1> SUFFICES ASSUME Init PROVE IInv
  OBVIOUS
<1> USE Names DEF Init, InitStore, InitPayments, InitWebhooks, InitCleanup
<1>1. TypeOK
  <2>1. balance \in [Accounts -> Balances]
    BY MoneyFits DEF Balances
  <2>2. answer \in [Requests -> Answers]
    BY DEF NoAnswer, Answers
  <2>3. /\ pc \in [Sessions -> RequestSteps \cup DeliverySteps \cup JobSteps]
        /\ \A r \in Requests : pc[r] \in RequestSteps
        /\ \A w \in Deliveries : pc[w] \in DeliverySteps
        /\ \A j \in Jobs : pc[j] \in JobSteps
    BY DEF RequestSteps, DeliverySteps, JobSteps
  <2>4. crashes \in 0 .. MaxCrashes
    BY MaxCrashesIsNat
  <2>5. fault \in [Deliveries -> Faults]
    BY DEF Faults
  <2>6. QED
    BY <2>1, <2>2, <2>3, <2>4, <2>5 DEF TypeOK
<1>2. RowInv /\ KeyInv
  BY DEF RowInv, KeyInv, NoTransaction
<1>3. \A r \in Requests : RequestOK(r)
  BY DEF RequestOK
<1>4. \A w \in Deliveries : DeliveryOK(w)
  BY DEF DeliveryOK
<1>5. \A j \in Jobs : JobOK(j)
  BY DEF JobOK
<1>6. QED
  BY <1>1, <1>2, <1>3, <1>4, <1>5 DEF IInv

\* A stuttering step keeps the invariant.
LEMMA StutterKeepsIInv ==
    ASSUME IInv, UNCHANGED vars
    PROVE  IInv'
<1> USE DEF IInv, vars, storeVars, tables, requestVars, deliveryVars, jobVars
<1>1. TypeOK' /\ RowInv' /\ KeyInv'
  BY DEF TypeOK, RowInv, KeyInv
<1>2. \A r \in Requests : RequestOK(r)'
  BY DEF RequestOK, KeyOf, Exists
<1>3. \A w \in Deliveries : DeliveryOK(w)'
  BY DEF DeliveryOK, Exists, PaidAccount
<1>4. \A j \in Jobs : JobOK(j)'
  BY DEF JobOK
<1>5. QED
  BY <1>1, <1>2, <1>3, <1>4

\* Every step keeps the invariant.
LEMMA NextKeepsIInv ==
    ASSUME IInv, [Next]_vars
    PROVE  IInv'
<1>1. CASE \E r \in Requests : Request(r)
  BY <1>1, RequestStepKeepsIInv DEF Request
<1>2. CASE \E w \in Deliveries : Delivery(w)
  BY <1>2, DeliveryStepKeepsIInv DEF Delivery
<1>3. CASE \E j \in Jobs : Job(j)
  BY <1>3, JobStepKeepsIInv DEF Job
<1>4. CASE \E s \in Sessions : deadlock_detected(s) \/ database_error(s)
  BY <1>4, Abort_keeps_IInv DEF deadlock_detected, database_error
<1>5. CASE TimePasses
  BY <1>5, TimePasses_keeps_IInv
<1>6. CASE crash
  BY <1>6, crash_keeps_IInv
<1>7. CASE UNCHANGED vars
  BY <1>7, StutterKeepsIInv
<1>8. QED
  BY <1>1, <1>2, <1>3, <1>4, <1>5, <1>6, <1>7 DEF Next

\* The inductive invariant holds in every reachable state.
THEOREM Invariance == Spec => []IInv
<1>1. Init => IInv
  BY InitIInv
<1>2. IInv /\ [Next]_vars => IInv'
  BY NextKeepsIInv
<1>3. QED
  BY <1>1, <1>2, PTL DEF Spec

\* Every variable keeps its type: in particular no balance, in the table or in
\* a session, is ever negative or more than NUMERIC(12,2) holds.
THEOREM TypeCorrectness == Spec => []TypeOK
<1>1. IInv => TypeOK
  BY DEF IInv
<1>2. QED
  BY <1>1, Invariance, PTL

\* A webhook never works on a stale balance, however many requests, webhooks
\* and jobs run (process_payment_succeeded and process_payment_failed).
THEOREM WebhookFreshness == Spec => []WebhookObjectIsFresh
<1>1. IInv => WebhookObjectIsFresh
  <2> SUFFICES ASSUME IInv, NEW w \in Deliveries, pc[w] = "account_locked"
               PROVE  /\ cached[w].id = PaidAccount(note[w])
                      /\ Staleness(w, cached[w].id) = 0
    BY DEF WebhookObjectIsFresh
  <2> DEFINE a == PaidAccount(note[w])
  <2>1. DeliveryOK(w) /\ TypeOK /\ RowInv
    BY DEF IInv
  <2>2. /\ cached[w] = [id |-> a, balance |-> balance[a]]
        /\ note[w].tx \in Rows /\ txn[note[w].tx].status = "PENDING"
    BY <2>1 DEF DeliveryOK
  <2>3. a \in Accounts
    BY <2>1, <2>2 DEF PaidAccount, TypeOK, RowInv, Transaction, NoTransaction
  <2>4. balance[a] \in Int
    BY <2>1, <2>3, MoneyFits DEF TypeOK, Balances
  <2>5. QED
    BY <2>2, <2>4 DEF Staleness
<1>2. QED
  BY <1>1, Invariance, PTL

\* No step, of any session, changes a settled transaction.
LEMMA RowsAreSettledOnce ==
    ASSUME IInv, [Next]_vars
    PROVE  \A t \in Rows : Exists(t) =>
             /\ txn[t].status # "PENDING" => txn'[t].status = txn[t].status
             /\ txn'[t].type = txn[t].type
             /\ txn'[t].acct = txn[t].acct
             /\ txn'[t].rel = txn[t].rel
             /\ txn'[t].amount = txn[t].amount
<1>1. CASE \E s \in Sessions : StepOf(s)
  BY <1>1 DEF StepOf, RowsAlone
<1>2. CASE txn' = txn
  BY <1>2
<1>3. (\E r \in Requests : Request(r)) => \E s \in Sessions : StepOf(s)
  BY RequestStepKeepsIInv, Names DEF Request
<1>4. (\E w \in Deliveries : Delivery(w)) => \E s \in Sessions : StepOf(s)
  BY DeliveryStepKeepsIInv, Names DEF Delivery
<1>5. (\E j \in Jobs : Job(j)) => \E s \in Sessions : StepOf(s)
  BY JobStepKeepsIInv, Names DEF Job
<1>6. (\E s \in Sessions : deadlock_detected(s) \/ database_error(s)) =>
        \E s \in Sessions : StepOf(s)
  BY Abort_keeps_IInv DEF deadlock_detected, database_error
<1>7. TimePasses \/ crash \/ UNCHANGED vars => txn' = txn
  BY DEF TimePasses, crash, vars, storeVars, tables
<1>8. QED
  BY <1>1, <1>2, <1>3, <1>4, <1>5, <1>6, <1>7 DEF Next

\* A payment is settled at most once and no transaction is rewritten, for any
\* number of webhooks, jobs, deadlocks and crashes (the status checks that
\* webhook_processing.py and cleanup.py make under the row lock).
THEOREM SettledOnceHolds == Spec => SettledOnce
<1>1. IInv /\ [Next]_vars =>
        [\A t \in Rows : Exists(t) =>
           /\ txn[t].status # "PENDING" => txn'[t].status = txn[t].status
           /\ txn'[t].type = txn[t].type
           /\ txn'[t].acct = txn[t].acct
           /\ txn'[t].rel = txn[t].rel
           /\ txn'[t].amount = txn[t].amount]_vars
  BY RowsAreSettledOnce
<1>2. QED
  BY <1>1, Invariance, PTL DEF Spec, SettledOnce

(***************************************************************************)
(* Row locks                                                               *)
(*                                                                         *)
(* A step of a session leaves the locks alone, drops those of the session  *)
(* or takes one more, and it takes one only on its way to a step at which  *)
(* it may hold locks. A deadlock of the job would need somebody who waits  *)
(* for a payment the job has locked and holds a lock itself: but only a    *)
(* webhook at its first lock waits for a payment.                          *)
(***************************************************************************)

\* The steps between two locks, and those of the job that keep what it skipped.
LockSteps == {"locked", "payment_locked", "account_locked", "looping", "visiting"}

\* The job holds an account only until the commit of the refund.
JobAccounts ==
    \A j \in Jobs : \A a \in Accounts : lock[a] = j => pc[j] = "account_locked"

LockInv == LocksAreReleased /\ JobAccounts

\* What a step of session s does to the locks.
LockMove(s) ==
    \/ /\ lock' = lock
       /\ pc[s] \in LockSteps => pc'[s] \in LockSteps
       /\ s \in Jobs => pc[s] # "account_locked"
    \/ Release(s)
    \/ \E x \in Lockable :
        /\ Acquire(s, x)
        /\ pc'[s] \in LockSteps
        /\ s \in Jobs => pc[s] # "account_locked" /\ (x \in Accounts => pc'[s] = "account_locked")

\* The account a webhook locks next, and the one its credit references.
LEMMA PaidAccountType ==
    ASSUME IInv, NEW w \in Deliveries, pc[w] \in {"payment_locked", "account_locked"}
    PROVE  PaidAccount(note[w]) \in Accounts /\ txn[note[w].tx].acct \in Accounts
<1>1. note[w].tx \in Rows /\ txn[note[w].tx].status = "PENDING"
  BY DEF IInv, DeliveryOK
<1>2. txn[note[w].tx] \in Transaction
  BY <1>1 DEF IInv, TypeOK, NoTransaction
<1> QED BY <1>1, <1>2 DEF PaidAccount, IInv, RowInv, Transaction

(***************************************************************************)
(* Every step is such a move                                               *)
(***************************************************************************)
\* Every statement of a request is such a move.
LEMMA RequestMoves ==
    ASSUME IInv, NEW r \in Requests, RequestStep(r)
    PROVE  LockMove(r)
<1> USE Names DEF IInv, TypeOK, Goto, Respond, LockSteps
<1>1. CASE get_current_account(r)
  BY <1>1 DEF get_current_account, LockMove
<1>2. CASE execute_deposit(r)
  BY <1>2 DEF execute_deposit, LockMove
<1>3. CASE reject_payment(r)
  BY <1>3 DEF reject_payment, LockMove
<1>4. CASE reserve_idempotency_key(r)
  BY <1>4 DEF reserve_idempotency_key, LockMove
<1>5. CASE answer_conflict(r)
  BY <1>5 DEF answer_conflict, LockMove
<1>6. CASE lock_sender(r)
  <2>1. body[r] \in Bodies
    BY <1>6 DEF lock_sender, RequestOK
  <2>2. body[r].from \in Lockable
    BY <2>1, BodiesAreValid DEF Lockable
  <2> QED BY <1>6, <2>2 DEF lock_sender, LockMove
<1>7. CASE execute_payment(r)
  BY <1>7 DEF execute_payment, LockMove
<1>8. CASE payment_overflows(r)
  BY <1>8 DEF payment_overflows, abort_request, LockMove
<1>9. CASE refresh_payment(r)
  BY <1>9 DEF refresh_payment, LockMove
<1>10. CASE finalize_idempotency_key(r)
  BY <1>10 DEF finalize_idempotency_key, LockMove
<1> QED BY <1>1, <1>2, <1>3, <1>4, <1>5, <1>6, <1>7, <1>8, <1>9, <1>10
           DEF RequestStep, HandleRequest

\* A delivery locks a payment, then an account, or drops both.
LEMMA DeliveryMoves ==
    ASSUME IInv, NEW w \in Deliveries, DeliveryStep(w)
    PROVE  LockMove(w)
<1> USE Names DEF IInv, TypeOK, Goto, LockSteps
<1>1. CASE payment_confirmation(w)
  BY <1>1 DEF payment_confirmation, reserve_webhook_event, LockMove
<1>0. CASE schedule_task(w)
  BY <1>0 DEF schedule_task, LockMove
<1>2. CASE lock_payment(w)
  <2>1. CASE Rejection(note[w]) # "none"
    BY <1>2, <2>1 DEF lock_payment, Fail, LockMove
  <2>2. CASE Rejection(note[w]) = "none"
    <3>1. note[w] \in Notices
      BY <1>2 DEF lock_payment, DeliveryOK
    <3>2. note[w].tx \in Lockable
      BY <3>1, <2>2, NoticeType DEF Rejection, Raised, Lockable
    <3> QED BY <1>2, <2>2, <3>2 DEF lock_payment, LockMove
  <2> QED BY <2>1, <2>2
<1>3. CASE lock_paid_account(w)
  <2>1. PaidAccount(note[w]) \in Lockable
    BY <1>3, PaidAccountType DEF lock_paid_account, Lockable
  <2> QED BY <1>3, <2>1 DEF lock_paid_account, LockMove
<1>4. CASE process_payment_succeeded(w)
  BY <1>4 DEF process_payment_succeeded, Settle, LockMove
<1>5. CASE process_payment_failed(w)
  BY <1>5 DEF process_payment_failed, Settle, LockMove
<1>6. CASE settlement_is_refused(w)
  BY <1>6 DEF settlement_is_refused, abort_settlement, Fail, LockMove
<1>7. CASE mark_webhook_processed(w)
  BY <1>7 DEF mark_webhook_processed, LockMove
<1>8. CASE record_webhook_error(w)
  BY <1>8 DEF record_webhook_error, LockMove
<1> QED BY <1>0, <1>1, <1>2, <1>3, <1>4, <1>5, <1>6, <1>7, <1>8
           DEF DeliveryStep, HandleDelivery, handle_webhook_event

\* A job locks a payment, then an account, and drops all with the refund.
LEMMA JobMoves ==
    ASSUME IInv, NEW j \in Jobs, run_cleanup_job(j)
    PROVE  LockMove(j)
<1> USE Names DEF IInv, TypeOK, Goto, LockSteps
<1>1. CASE cleanup_expired_idempotency_keys(j)
  BY <1>1 DEF cleanup_expired_idempotency_keys, LockMove
<1>2. CASE cleanup_old_webhook_events(j)
  BY <1>2 DEF cleanup_old_webhook_events, LockMove
<1>3. CASE select_stale_ids(j)
  BY <1>3 DEF select_stale_ids, LockMove
<1>4. CASE next_stale_id(j)
  BY <1>4 DEF next_stale_id, LockMove
<1>5. CASE lock_stale_payment(j)
  <2>1. current[j] \in Lockable /\ current[j] \notin Accounts
    BY <1>5, DisjointNames DEF lock_stale_payment, JobOK, Lockable
  <2> QED BY <1>5, <2>1 DEF lock_stale_payment, LockMove
<1>6. CASE lock_sender_account(j)
  <2>1. txn[current[j]].acct \in Lockable
    BY <1>6 DEF lock_sender_account, JobOK, Transaction, NoTransaction, Lockable
  <2> QED BY <1>6, <2>1 DEF lock_sender_account, LockMove
<1>7. CASE expire_payment(j)
  BY <1>7 DEF expire_payment, CommitRefund, LockMove
<1>8. CASE refund_is_refused(j) \/ all_visited(j)
  BY <1>8 DEF refund_is_refused, all_visited, end_run, LockMove
<1> QED BY <1>1, <1>2, <1>3, <1>4, <1>5, <1>6, <1>7, <1>8 DEF run_cleanup_job

\* An error rolls back, but for the two that meet a session without locks.
LEMMA AbortMoves ==
    ASSUME IInv, NEW s \in Sessions, Abort(s)
    PROVE  LockMove(s)
<1> USE Names DEF IInv, TypeOK, LockSteps
<1>1. CASE s \in Requests /\ abort_request(s)
  BY <1>1 DEF abort_request, LockMove
<1>2. CASE s \in Deliveries /\ abort_delivery(s)
  <2>1. CASE refresh_raises(s) \/ record_raises(s)
    BY <1>2, <2>1 DEF refresh_raises, record_raises, EndUncaught, Goto, LockMove
  <2>2. CASE abort_settlement(s) \/ mark_raises(s)
    BY <2>2 DEF abort_settlement, mark_raises, Fail, LockMove
  <2> QED BY <1>2, <2>1, <2>2 DEF abort_delivery
<1>3. CASE s \in Jobs /\ end_run(s)
  BY <1>3 DEF end_run, LockMove
<1> QED BY <1>1, <1>2, <1>3 DEF Abort

(***************************************************************************)
(* The invariant                                                           *)
(***************************************************************************)
\* Such a move keeps the invariant.
LEMMA MoveKeepsLockInv ==
    ASSUME IInv, LockInv, NEW s \in Sessions, SessionsAlone(s), LockMove(s)
    PROVE  LockInv'
<1> USE Names DEF LockInv
<1>0. lock \in [Lockable -> Sessions \cup {None}]
  BY DEF IInv, TypeOK
<1>1. ASSUME NEW q \in Sessions, NEW x \in Lockable, lock'[x] = q
      PROVE  pc'[q] \in LockSteps
  <2>1. q # s => pc'[q] = pc[q]
    BY DEF SessionsAlone
  <2>2. lock[x] = q => pc[q] \in LockSteps
    BY DEF LocksAreReleased, LockSteps
  <2>3. CASE lock' = lock /\ (pc[s] \in LockSteps => pc'[s] \in LockSteps)
    BY <2>1, <2>2, <2>3, <1>1
  <2>4. CASE Release(s)
    BY <2>1, <2>2, <2>4, <1>1 DEF Release
  <2>5. ASSUME NEW y \in Lockable, Acquire(s, y), pc'[s] \in LockSteps
        PROVE  pc'[q] \in LockSteps
    BY <2>1, <2>2, <2>5, <1>0, <1>1 DEF Acquire
  <2> QED BY <2>3, <2>4, <2>5 DEF LockMove
<1>2. ASSUME NEW j \in Jobs, NEW a \in Accounts, lock'[a] = j
      PROVE  pc'[j] = "account_locked"
  <2>1. a \in Lockable /\ (j # s => pc'[j] = pc[j])
    BY DEF SessionsAlone, Lockable
  <2>2. lock[a] = j => pc[j] = "account_locked"
    BY DEF JobAccounts
  <2>3. CASE lock' = lock /\ (s \in Jobs => pc[s] # "account_locked")
    BY <2>1, <2>2, <2>3, <1>2
  <2>4. CASE Release(s)
    BY <2>1, <2>2, <2>4, <1>2 DEF Release
  <2>5. ASSUME NEW y \in Lockable, Acquire(s, y),
               s \in Jobs => pc[s] # "account_locked"
                             /\ (y \in Accounts => pc'[s] = "account_locked")
        PROVE  pc'[j] = "account_locked"
    BY <2>1, <2>2, <2>5, <1>0, <1>2 DEF Acquire
  <2> QED BY <2>3, <2>4, <2>5 DEF LockMove
<1> QED BY <1>1, <1>2 DEF LocksAreReleased, LockSteps, JobAccounts

\* Every step, also a crash or the end of a deadlock, keeps the invariant.
LEMMA NextKeepsLockInv ==
    ASSUME IInv, LockInv, [Next]_vars
    PROVE  LockInv'
<1>1. ASSUME NEW r \in Requests, Request(r) PROVE LockInv'
  <2>1. StepOf(r) /\ LockMove(r)
    BY <1>1, RequestStepKeepsIInv, RequestMoves DEF Request
  <2> QED BY <2>1, MoveKeepsLockInv, Names DEF StepOf
<1>2. ASSUME NEW w \in Deliveries, Delivery(w) PROVE LockInv'
  <2>1. StepOf(w) /\ LockMove(w)
    BY <1>2, DeliveryStepKeepsIInv, DeliveryMoves DEF Delivery
  <2> QED BY <2>1, MoveKeepsLockInv, Names DEF StepOf
<1>3. ASSUME NEW j \in Jobs, Job(j) PROVE LockInv'
  <2>1. StepOf(j) /\ LockMove(j)
    BY <1>3, JobStepKeepsIInv, JobMoves DEF Job
  <2> QED BY <2>1, MoveKeepsLockInv, Names DEF StepOf
<1>4. ASSUME NEW s \in Sessions, deadlock_detected(s) \/ database_error(s) PROVE LockInv'
  <2>1. Abort(s) /\ StepOf(s)
    BY <1>4, Abort_keeps_IInv DEF deadlock_detected, database_error
  <2>2. LockMove(s)
    BY <2>1, AbortMoves
  <2> QED BY <2>1, <2>2, MoveKeepsLockInv DEF StepOf
<1>5. CASE TimePasses
  BY <1>5 DEF TimePasses, LockInv, LocksAreReleased, JobAccounts
<1>6. CASE crash
  BY <1>6, Names DEF crash, LockInv, LocksAreReleased, JobAccounts, Lockable
<1>7. CASE UNCHANGED vars
  BY <1>7 DEF vars, storeVars, LockInv, LocksAreReleased, JobAccounts
<1> QED BY <1>1, <1>2, <1>3, <1>4, <1>5, <1>6, <1>7 DEF Next

\* A lock is held only by a session that is between two locks, in every
\* reachable state (the commits and rollbacks of payments.py, webhook_processing.py
\* and cleanup.py).
THEOREM LockInvariance == Spec => []LockInv
<1>1. Init => LockInv
  BY Names DEF Init, InitStore, LockInv, LocksAreReleased, JobAccounts, Lockable
<1>2. IInv /\ LockInv /\ [Next]_vars => LockInv'
  BY NextKeepsLockInv
<1> QED BY <1>1, <1>2, Invariance, PTL DEF Spec

\* No session keeps a lock past its transaction, whatever errors, deadlocks
\* and crashes end it.
THEOREM LocksAreReleasedHolds == Spec => []LocksAreReleased
<1>1. LockInv => LocksAreReleased
  BY DEF LockInv
<1> QED BY <1>1, LockInvariance, PTL

(***************************************************************************)
(* The job and deadlocks                                                   *)
(***************************************************************************)
\* One API instance is running.
SingleInstance == \A i, j \in Jobs : i = j

\* Whoever wants a row of the transactions table is a webhook at its first lock,
\* or a job.
LEMMA WhoWantsRows ==
    ASSUME IInv, NEW s \in Sessions, Wants(s) \in Rows
    PROVE  s \in Jobs \/ (s \in Deliveries /\ pc[s] = "accepted")
<1> USE Names DEF IInv
<1>1. None \notin Rows /\ Accounts \cap Rows = {}
  BY DisjointNames DEF Sessions, Rows
<1>2. CASE s \in Requests
  <2>1. pc[s] \in {"loaded", "reserved", "locked"} => body[s].from \in Accounts
    BY <1>2, BodiesAreValid DEF RequestOK
  <2>2. pc[s] = "locked" => body[s].to \in Accounts
    BY <1>2 DEF RequestOK
  <2> QED BY <1>1, <1>2, <2>1, <2>2 DEF Wants
<1>3. CASE s \in Deliveries
  <2>1. pc[s] \in {"payment_locked", "account_locked"} =>
          PaidAccount(note[s]) \in Accounts /\ txn[note[s].tx].acct \in Accounts
    BY <1>3, PaidAccountType
  <2> QED BY <1>1, <1>3, <2>1 DEF Wants
<1> QED BY <1>2, <1>3 DEF Sessions, Rows

\* Who waits for a job is a webhook at its first lock, and nobody waits for that.
LEMMA NoJobInDeadlock ==
    ASSUME SingleInstance, IInv, LockInv
    PROVE  JobNeverDeadlocks
<1> SUFFICES ASSUME NEW j \in Jobs, Holders(j) # {},
                    NEW C \in SUBSET Waiting, j \in C, UNION {Holders(x) : x \in C} = C
             PROVE  FALSE
  BY DEF JobNeverDeadlocks, InDeadlock
<1> USE Names
<1>0. C \subseteq Sessions
  BY DEF Waiting
<1>1. \A s \in Sessions : \A q : q \in Holders(s) => Wants(s) # None /\ q = lock[Wants(s)] /\ q # s
  BY DEF Holders
<1>2. pc[j] # "account_locked"
  BY DEF Holders, Wants
<1>3. PICK y \in C : j \in Holders(y)
  OBVIOUS
<1>4. y \in Sessions /\ y # j /\ lock[Wants(y)] = j /\ Wants(y) # None
  BY <1>0, <1>1, <1>3
<1>5. \A s \in Sessions : Wants(s) \in Lockable \cup {None}
  <2> TAKE s \in Sessions
  <2> USE DEF IInv, TypeOK, Lockable
  <2>1. CASE s \in Requests
    BY <2>1, BodiesAreValid DEF Wants, RequestOK
  <2>2. CASE s \in Deliveries
    <3>1. pc[s] \in {"payment_locked", "account_locked"} =>
            PaidAccount(note[s]) \in Accounts /\ txn[note[s].tx].acct \in Accounts
      BY <2>2, PaidAccountType
    <3>2. pc[s] = "accepted" => note[s].tx \in Rows \cup {None}
      BY <2>2, NoticeType DEF DeliveryOK
    <3> QED BY <2>2, <3>1, <3>2 DEF Wants
  <2>3. CASE s \in Jobs
    BY <2>3 DEF Wants, JobOK, Transaction, NoTransaction
  <2> QED BY <2>1, <2>2, <2>3 DEF Sessions, Rows
<1>6. Wants(y) \in Rows
  BY <1>2, <1>4, <1>5 DEF LockInv, JobAccounts, Lockable
<1>7. y \in Deliveries /\ pc[y] = "accepted"
  BY <1>4, <1>6, WhoWantsRows DEF SingleInstance
<1>8. PICK z \in C : y \in Holders(z)
  BY <1>3
<1>9. z \in Sessions /\ Wants(z) \in Lockable /\ lock[Wants(z)] = y
  BY <1>0, <1>1, <1>5, <1>8
<1>10. pc[y] \in LockSteps
  BY <1>4, <1>9 DEF LockInv, LocksAreReleased, LockSteps
<1> QED BY <1>7, <1>10 DEF LockSteps

\* With one API instance the cleanup job waits for others, but never in a
\* circle, for any number of payments, requests and webhooks.
THEOREM JobNeverDeadlocksHolds == SingleInstance => (Spec => []JobNeverDeadlocks)
<1> SUFFICES ASSUME SingleInstance PROVE Spec => []JobNeverDeadlocks
  OBVIOUS
<1>1. IInv /\ LockInv => JobNeverDeadlocks
  BY NoJobInDeadlock
<1> QED BY <1>1, Invariance, LockInvariance, PTL
==============================================================================
