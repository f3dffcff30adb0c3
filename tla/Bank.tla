-------------------------------- MODULE Bank --------------------------------
(***************************************************************************)
(* The running API: requests, webhook deliveries and cleanup jobs over one *)
(* database, with the passage of time, the deadlock detector of PostgreSQL *)
(* and crashes of the API process.                                         *)
(***************************************************************************)
EXTENDS Payments, Webhooks, Cleanup, FiniteSetsExt

CONSTANTS
    MaxCrashes,  \* bound on how often the API process dies
    Ageing,      \* bound on time: what can outlive its retention in this run
    Unreliable   \* bound on errors: the sessions that can lose the database

ASSUME MaxCrashesIsNat == MaxCrashes \in Nat
ASSUME AgeingIsKnown == Ageing \subseteq {"keys", "payments", "events"}
ASSUME UnreliableAreSessions == Unreliable \subseteq Sessions

VARIABLE crashes

storeVars == <<tables, lock, pc, cached, old>>
vars == <<storeVars, requestVars, deliveryVars, jobVars, crashes>>

Init ==
    /\ InitStore
    /\ InitPayments
    /\ InitWebhooks
    /\ InitCleanup
    /\ crashes = 0

(***************************************************************************)
(* Errors of the database.  Any statement can raise; a session at one that *)
(* locks a row waits for the session that holds it, and a cycle of these   *)
(* is a deadlock.                                                          *)
(***************************************************************************)
Wants(s) ==
    CASE s \in Requests /\ pc[s] = "loaded" /\ body[s].kind = "deposit" -> body[s].from
      [] s \in Requests /\ pc[s] = "reserved" -> body[s].from
      [] s \in Requests /\ pc[s] = "locked" -> body[s].to
      [] s \in Deliveries /\ pc[s] = "accepted" -> note[s].tx
      [] s \in Deliveries /\ pc[s] = "payment_locked" -> PaidAccount(note[s])
      [] s \in Deliveries /\ pc[s] = "account_locked" -> txn[note[s].tx].acct
      [] s \in Jobs /\ pc[s] = "visiting" -> current[s]
      [] s \in Jobs /\ pc[s] = "payment_locked" -> txn[current[s]].acct
      [] OTHER -> None

Holders(s) == {lock[x] : x \in {Wants(s)} \ {None}} \ {None, s}
Waiting == {s \in Sessions : Holders(s) # {}}

\* s is on a cycle of sessions that each wait for the next.
InDeadlock(s) ==
    /\ Holders(s) # {}
    /\ \E C \in SUBSET Waiting : s \in C /\ UNION {Holders(x) : x \in C} = C

Running(s) == pc[s] \notin {"idle", "done"}

\* The statement a session is at raises.
Abort(s) ==
    /\ \/ s \in Requests /\ abort_request(s) /\ UNCHANGED <<deliveryVars, jobVars>>
       \/ s \in Deliveries /\ abort_delivery(s) /\ UNCHANGED <<requestVars, jobVars>>
       \/ s \in Jobs /\ end_run(s) /\ UNCHANGED <<requestVars, deliveryVars>>
    /\ UNCHANGED crashes

\* PostgreSQL aborts one of the sessions on the cycle, whichever finds it.
deadlock_detected(s) ==
    /\ pc[s] \in {"locked", "payment_locked", "account_locked", "visiting"}
    /\ InDeadlock(s)
    /\ Abort(s)

\* The connection is lost, or the pool has none to give in time.
database_error(s) ==
    /\ s \in Unreliable
    /\ Running(s)
    /\ Abort(s)

(***************************************************************************)
(* Time.  Retention times are 24 hours and 7 days, so a row outlives its   *)
(* own only when the handler that wrote it is long gone.                   *)
(***************************************************************************)
key_expires(ak) ==
    /\ "keys" \in Ageing
    /\ idem[ak].id # None
    /\ pc[idem[ak].id] = "done"
    /\ ak \notin old.keys
    /\ old' = [old EXCEPT !.keys = @ \cup {ak}]

payment_goes_stale(t) ==
    /\ "payments" \in Ageing
    /\ txn[t].type = "PAYMENT"
    /\ txn[t].status = "PENDING"
    /\ pc[t] = "done"
    /\ t \notin old.rows
    /\ old' = [old EXCEPT !.rows = @ \cup {t}]

event_outlives_retention(e) ==
    /\ "events" \in Ageing
    /\ event[e].id # None
    /\ pc[event[e].id] = "done"
    /\ e \notin old.events
    /\ old' = [old EXCEPT !.events = @ \cup {e}]

TimePasses ==
    /\ \/ \E ak \in Accounts \X Keys : key_expires(ak)
       \/ \E t \in Rows : payment_goes_stale(t)
       \/ \E e \in EventIds : event_outlives_retention(e)
    /\ UNCHANGED <<tables, lock, pc, cached, requestVars, deliveryVars, jobVars, crashes>>

(***************************************************************************)
(* The process dies: handlers, background tasks and the job vanish with    *)
(* their connections, PostgreSQL rolls back what they had not committed,   *)
(* and the restarted API does not resume any of them.                      *)
(***************************************************************************)
crash ==
    /\ crashes < MaxCrashes
    /\ \E s \in Sessions : Running(s)
    /\ crashes' = crashes + 1
    /\ pc' = [s \in Sessions |-> IF s \in Jobs THEN "idle"
                                 ELSE IF Running(s) THEN "done" ELSE pc[s]]
    /\ answer' = [r \in Requests |-> IF Running(r) THEN Failure("lost") ELSE answer[r]]
    /\ lock' = [x \in Lockable |-> None]
    /\ cached' = [s \in Sessions |-> NotLoaded]
    /\ stale_ids' = [j \in Jobs |-> {}]
    /\ current' = [j \in Jobs |-> None]
    /\ fault' = [w \in Deliveries |-> IF Running(w) THEN "lost" ELSE fault[w]]
    /\ UNCHANGED <<tables, old, body, note>>

(***************************************************************************)
(* The specification                                                       *)
(***************************************************************************)
Request(r) == RequestStep(r) /\ UNCHANGED <<deliveryVars, jobVars, crashes>>
Delivery(w) == DeliveryStep(w) /\ UNCHANGED <<requestVars, jobVars, crashes>>
Job(j) == run_cleanup_job(j) /\ UNCHANGED <<requestVars, deliveryVars, crashes>>

Next ==
    \/ \E r \in Requests : Request(r)
    \/ \E w \in Deliveries : Delivery(w)
    \/ \E j \in Jobs : Job(j)
    \/ \E s \in Sessions : deadlock_detected(s)
    \/ \E s \in Sessions : database_error(s)
    \/ TimePasses
    \/ crash

Spec == Init /\ [][Next]_vars

\* The event loop runs every handler that can go on, APScheduler starts the
\* job every hour, the detector runs, and time passes.  Nothing makes a
\* client send a request, the gateway deliver a notice, a statement raise or
\* the process die.
Fairness ==
    /\ \A r \in Requests :
        WF_vars(HandleRequest(r) /\ UNCHANGED <<deliveryVars, jobVars, crashes>>)
    /\ \A w \in Deliveries :
        WF_vars(HandleDelivery(w) /\ UNCHANGED <<requestVars, jobVars, crashes>>)
    /\ \A j \in Jobs : WF_vars(Job(j))
    /\ WF_vars(\E s \in Sessions : deadlock_detected(s))
    /\ WF_vars(TimePasses)

FairSpec == Spec /\ Fairness

(***************************************************************************)
(* Types                                                                   *)
(***************************************************************************)
RequestSteps ==
    {"idle", "loaded", "conflict", "reserved", "locked", "committed",
     "refreshed", "done"}
DeliverySteps ==
    {"idle", "stored", "accepted", "payment_locked", "account_locked", "settled",
     "failing", "done"}
JobSteps ==
    {"idle", "keys_deleted", "events_deleted", "looping", "visiting",
     "payment_locked", "account_locked"}

Hashes == {compute_request_hash(b) : b \in Bodies}
Replies == [code : {"created"}, id : Requests, status : Statuses]
Answers ==
    [code : {"none", "created"} \cup Failures, id : Requests \cup {None},
     status : Statuses \cup {"none"}]
KeyRows == [id : Requests, hash : Hashes, reply : Replies \cup {None}]
EventRows == [id : Deliveries, processed : BOOLEAN, error : Errors \cup {"none"}]
Balances == 0 .. MaxNumeric

\* Every variable has its type.  Among others: no balance, in the table or
\* in a session, is ever negative or too large for its column.
TypeOK ==
    /\ balance \in [Accounts -> Balances]
    /\ txn \in [Rows -> Transaction \cup {NoTransaction}]
    /\ idem \in [Accounts \X Keys -> KeyRows \cup {NoKey}]
    /\ event \in [EventIds -> EventRows \cup {NoEvent}]
    /\ lock \in [Lockable -> Sessions \cup {None}]
    /\ pc \in [Sessions -> RequestSteps \cup DeliverySteps \cup JobSteps]
    /\ \A r \in Requests : pc[r] \in RequestSteps
    /\ \A w \in Deliveries : pc[w] \in DeliverySteps
    /\ \A j \in Jobs : pc[j] \in JobSteps
    /\ cached \in [Sessions -> [id : Accounts, balance : Balances] \cup {NotLoaded}]
    /\ old \in [keys : SUBSET (Accounts \X Keys), rows : SUBSET Rows,
                events : SUBSET EventIds]
    /\ body \in [Requests -> Bodies \cup {None}]
    /\ answer \in [Requests -> Answers]
    /\ note \in [Deliveries -> Notices \cup {None}]
    /\ fault \in [Deliveries -> Faults]
    /\ stale_ids \in [Jobs -> SUBSET Rows]
    /\ current \in [Jobs -> Rows \cup {None}]
    /\ crashes \in 0 .. MaxCrashes

(***************************************************************************)
(* What the tables say of each other                                       *)
(***************************************************************************)
Total(S) == MapThenSumSet(LAMBDA t : txn[t].amount, S)

\* The balance the transactions of an account add up to.
Book(a) ==
    LET In == {t \in Rows : txn[t].acct = a /\ txn[t].type \in {"DEPOSIT", "TRANSFER_IN"}}
        Out == {t \in Rows : txn[t].acct = a /\ txn[t].type = "PAYMENT"
                             /\ txn[t].status # "FAILED"}
    IN  Opening[a] + Total(In) - Total(Out)

Drift(a) == balance[a] - Book(a)

\* How far the Account object of a session is from the row.
Staleness(s, a) == IF cached[s].id = a THEN cached[s].balance - balance[a] ELSE 0

\* Money appears or disappears only through a stale Account object: when a
\* step changes the difference between a balance and what the transactions
\* add up to, it is the step of a request or job that held the account since
\* before another session changed it, and the difference changes by exactly
\* that change (execute_deposit, execute_payment, the refund of cleanup.py).
DriftOnlyFromStaleObject ==
    [][\A a \in Accounts : Drift(a)' # Drift(a) =>
         \E s \in Requests \cup Jobs :
            /\ pc[s] # pc'[s]
            /\ Drift(a)' - Drift(a) = Staleness(s, a)]_vars

\* A webhook never loses an update: its session loads the account only under
\* the lock, so until it commits the object agrees with the row, whatever
\* requests and jobs do (process_payment_succeeded, process_payment_failed).
WebhookObjectIsFresh ==
    \A w \in Deliveries : pc[w] = "account_locked" =>
        /\ cached[w].id = PaidAccount(note[w])
        /\ Staleness(w, cached[w].id) = 0

\* A payment is settled once: a transaction that is COMPLETED or FAILED stays
\* so, and no row disappears or changes hands, whichever of two webhooks, the
\* job and a crash come together (the status checks under the row lock).
SettledOnce ==
    [][\A t \in Rows : Exists(t) =>
         /\ txn[t].status # "PENDING" => txn'[t].status = txn[t].status
         /\ txn'[t].type = txn[t].type
         /\ txn'[t].acct = txn[t].acct
         /\ txn'[t].rel = txn[t].rel
         /\ txn'[t].amount = txn[t].amount]_vars

\* The transactions table as the abstract flow of Settlement sees it.  A credit
\* does not name its payment: the notice of the delivery that made it does.
OrderOf(t) == [from |-> txn[t].acct, to |-> txn[t].rel, amount |-> txn[t].amount]
CreditOf(w) ==
    [by |-> w,
     order |-> [from |-> txn[w].rel, to |-> txn[w].acct, amount |-> txn[w].amount]]
IsPayment(r) == txn[r].type = "PAYMENT"
CreditsFor(r) == {CreditOf(w) : w \in {v \in Deliveries : Exists(v) /\ note[v].tx = r}}

FlowOrder == [r \in Requests |-> IF IsPayment(r) THEN OrderOf(r) ELSE None]
FlowStage == [r \in Requests |-> IF IsPayment(r) THEN txn[r].status ELSE "none"]
FlowCredits == [r \in Requests |-> CreditsFor(r)]

Flow == INSTANCE Settlement WITH
    Payments <- Requests, MaxAmount <- MaxNumeric, Confirmations <- Deliveries,
    order <- FlowOrder, stage <- FlowStage, credits <- FlowCredits

\* The API implements the two-phase flow of README.md:25: whatever sessions,
\* deadlocks and crashes interleave, each step of it makes, releases or refunds
\* one payment or does nothing that the flow can see.
ImplementsSettlement == Flow!Spec

\* Double entry: a completed payment has one TRANSFER_IN row, for its recipient,
\* sender and amount, and every TRANSFER_IN row is that of a completed payment
\* (process_payment_succeeded).
ReleasedOnce ==
    /\ Flow!ReleasedOnce
    /\ \A w \in Deliveries : Exists(w) =>
        txn[w].type = "TRANSFER_IN" /\ note[w].tx \in Requests

\* A key charges once: of the payments one user makes under one key, at most
\* one is linked to a key that is still in the table.  A second one exists
\* only after the job has deleted the key of the first (README.md:23).
OneChargePerKey ==
    \A r, q \in Requests :
        /\ r # q
        /\ txn[r].type = "PAYMENT" /\ txn[q].type = "PAYMENT"
        /\ KeyOf(r) = KeyOf(q)
        => txn[r].key = None \/ txn[q].key = None

\* While its key is in the table, everyone who was answered with a payment
\* sent the payload of that payment, and was shown the response stored for
\* it: what the first caller saw, not what the payment became (README.md:23).
RetryGetsOriginal ==
    \A r \in Requests :
        LET paid == answer[r].id
        IN  /\ answer[r].code = "created"
            /\ body[r].kind = "payment"
            /\ idem[KeyOf(r)].id = paid
            => /\ answer[r] = idem[KeyOf(r)].reply
               /\ body[r] = body[paid]

\* The keys as Idempotency sees them: what each payment that was sent asks for,
\* who holds which key, who was shown which charge.  A payment that fails for
\* lack of funds is a charge, of nothing: its retry is shown it.  A deposit has
\* no key.
AsksToPay(r) == pc[r] # "idle" /\ body[r].kind = "payment"
Shown(r) == AsksToPay(r) /\ answer[r].code = "created"

KeyAsked ==
    [r \in {q \in Requests : AsksToPay(q)} |->
        [slot |-> KeyOf(r), payload |-> body[r]]]
KeyHolder == [k \in Accounts \X Keys |-> idem[k].id]
KeyCharge ==
    [r \in Requests |-> IF ~IsPayment(r) THEN "none"
                        ELSE IF txn[r].key = None THEN "unlinked" ELSE "linked"]
KeyTold == [r \in {q \in Requests : Shown(q)} |-> answer[r]]

Keyed == INSTANCE Idempotency WITH
    Calls <- Requests, Slots <- Accounts \X Keys, Payloads <- Bodies,
    Responses <- Replies, asked <- KeyAsked, holder <- KeyHolder,
    charge <- KeyCharge, told <- KeyTold

\* The API implements the idempotency of README.md:23: however handlers that
\* race, the job that purges keys, aborts and crashes interleave, a step lets
\* one call take, charge under or answer from a key as Idempotency allows, or
\* touches no key.
ImplementsIdempotency == Keyed!Spec

\* The status a notice announces for its payment.
Announced(n) == IF n.type = "payment.succeeded" THEN "COMPLETED" ELSE "FAILED"

\* The outcome of an event is true, whatever statement raises on the way.
\* Marked processed, its payment has the status it announced.  With one of the
\* three reasons, that reason holds and the delivery moved no money.  Both, or
\* an error and a credit, only when what follows the settlement has raised: the
\* error is then the internal one (webhook_processing.py:142-155).
EventOutcomeIsTrue ==
    \A e \in EventIds : event[e].id # None =>
        LET w == event[e].id
            n == note[w]
            error == event[e].error
            settled == n.tx # None /\ txn[n.tx].status = Announced(n)
        IN  /\ event[e].processed => settled /\ error \in {"none", "internal"}
            /\ Exists(w) /\ error # "none" => settled /\ error = "internal"
            /\ error = "not_found" => n.tx = None
            /\ error = "already_processed" => txn[n.tx].status # "PENDING"
            /\ error = "amount_mismatch" => txn[n.tx].amount # n.amount

\* The job of a single instance is never on a deadlock: it locks a payment
\* before an account like the webhooks do, inserts nothing, and commits after
\* each refund, so what it keeps locked is settled (cleanup.py).
JobNeverDeadlocks == \A j \in Jobs : ~InDeadlock(j)

\* A session that is not at a step between two locks holds none, but for the
\* job, which keeps the payments it has skipped until its next commit.
LocksAreReleased ==
    \A s \in Sessions : (\E x \in Lockable : lock[x] = s) =>
        pc[s] \in {"locked", "payment_locked", "account_locked", "looping", "visiting"}

(***************************************************************************)
(* What eventually happens                                                 *)
(***************************************************************************)
\* Every request that has reached its handler is answered, whatever locks it
\* meets: the lock waits that close a cycle are broken by the database.
RequestsAreAnswered == \A r \in Requests : pc[r] = "loaded" ~> pc[r] = "done"

\* Every event that is stored is processed or records an error, also when the
\* task is aborted with locks, unless the process dies or one of two statements
\* raises that nothing catches: the refresh of the new event, and the record of
\* the error itself (webhook_processing.py:44, 151 and 155).
EventsAreResolved ==
    \A w \in Deliveries :
        pc[w] = "stored" ~>
            \/ \E e \in EventIds :
                 event[e].id = w /\ (event[e].processed \/ event[e].error # "none")
            \/ fault[w] \in {"uncaught", "lost"}

\* No payment stays pending: the gateway confirms it or the job refunds it,
\* also when the process dies in between (cleanup.py, README.md:28).
PendingPaymentsSettle ==
    \A r \in Requests : txn[r].status = "PENDING" ~> txn[r].status # "PENDING"

(***************************************************************************)
(* What the repository says, and the code does not do                      *)
(***************************************************************************)
\* README.md:24: concurrent deposits and payments on the same account are
\* handled safely, so a balance is what its transactions add up to.
BalancesAddUp == \A a \in Accounts : Drift(a) = 0

\* transactions.py:77: a 409 says the request with this key is being
\* processed.  Then some handler is processing it.
InProgressMeansInProgress ==
    [][\A r \in Requests :
         answer'[r].code = "in_progress" /\ answer[r].code # "in_progress" =>
            \E q \in Requests \ {r} : KeyOf(q) = KeyOf(r) /\ Running(q)]_vars

\* README.md:25: the funds of a payment are released to the recipient once
\* the confirmation arrives.
ConfirmedPaymentsAreReleased ==
    \A w \in Deliveries, r \in Requests :
        /\ pc[w] = "account_locked"
        /\ note[w].tx = r
        /\ note[w].type = "payment.succeeded"
        ~> txn[r].status = "COMPLETED"

==============================================================================
