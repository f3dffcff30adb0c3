# A verification project for the banking payments API

TLA+ models of the payments API in `src/app`, model-checked with TLC on small
instances, and proofs with TLAPS of what holds for every instance. The models
follow the code statement by statement where another session can run in
between, and say at each definition what the code does.

## The system

A FastAPI application over one PostgreSQL database, through async SQLAlchemy.

| Part | State | Operations | Talks to |
|---|---|---|---|
| Payments and deposits (`routers/transactions.py`, `services/payments.py`) | `accounts.balance`, `transactions` | `create_deposit`, `create_payment`, `list_my_transactions` | idempotency keys; row locks on accounts |
| Idempotency keys (`services/idempotency.py`) | `idempotency_keys`, unique on (user, key, endpoint) | reserve, look up, finalize | payments; the job purges them |
| Webhooks (`routers/webhooks.py`, `services/webhook_processing.py`) | `webhook_events`, unique on event_id; a background task in memory | intake, settle as succeeded or failed, mark processed, record an error | locks payments, then accounts |
| Cleanup job (`services/cleanup.py`, `scheduler.py`) | its list of stale ids | purge keys, retire events, refund stale payments | the same rows as everything else |
| Sessions and database (`database.py`, `models/`) | tables, row locks, the identity map of each session | | everything |
| Registration, login, refresh tokens (`routers/auth.py`, `security.py`) | `users`, `refresh_tokens` | register, login, refresh, logout | creates accounts; the tokens the other handlers check (`dependencies.py`) |
| Migrations and container start (`alembic/`, `docker-entrypoint.sh`) | `alembic_version` and the schema | upgrade to head at every start, downgrade by hand | the schema everything else works on |
| Listings (`routers/admin.py`, `list_my_transactions`) | none | pages of accounts and transactions | rows that others insert and change between two pages |
| Connection pool (`database.py`) | the connections of the engine | | every transaction of every session |
| Signatures, rate limits, settings | none of the modelled state | checks | |

What is hard here is not in one function. Each handler runs several
transactions; between two statements any other handler, background task or job
can commit; a session keeps the objects it has loaded, with the values they had
then; the database blocks, and aborts one session of each deadlock; the process
can die between two commits, and loses its background tasks. What makes the
parts correct:

* payments: no money appears or vanishes, no balance is negative, and a payment
  is settled once, by one of the webhook and the job;
* idempotency: one charge for each key, and retries see the original response;
* webhooks: an event is acted on once, and its recorded outcome is true;
* job: every payment that stays pending is refunded, and no lock is left behind;
* registration: a user and its account appear together or not at all;
* tokens: what is rotated or logged out is revoked, and lets nobody through;
* deployment: instances that start together upgrade the database once;
* listings: a client that reads to the end misses nothing that was there;
* everything: requests are answered and locks released, also after deadlocks.

`PROJECT.json` lists the hazards with their lines, and the property that covers
each.

## The modules

| Module | Models |
|---|---|
| `Store` | the tables, row locks, the identity map (`LoadAccount`), commit and rollback |
| `Payments` | the handlers of `/transactions/deposits` and `/transactions/payments` |
| `Webhooks` | the endpoint `/webhooks/payment-confirmation` and its background task |
| `Cleanup` | `run_cleanup_job` |
| `Bank` | all of them together, with time, errors of the database, deadlocks and crashes; the properties |
| `Settlement` | what the two-phase payment flow promises, without any of the above |
| `Idempotency` | what an Idempotency-Key promises, without any of the above |
| `Auth` | the handlers of `/auth`, and `/accounts/me` with an access token |
| `Migrations` | the ten revisions, and API instances that upgrade when they start |
| `Listings` | the four paged listings over tables that change |
| `Pool` | the connection pool under the transactions of the handlers |
| `MCBank`, `MCAuth`, `MCMigrations`, `MCListings`, `MCPool` | values of the constants for TLC |
| `BankProofs` | theorems: types, webhooks, settlement, who holds locks, the job in deadlocks |
| `RecordProofs` | theorems: idempotency keys, that `Bank` implements them, the recorded outcome of events |
| `SettlementProofs`, `FlowProofs` | theorems: the abstract flow, that `Bank` implements it, and balances against their transactions |
| `AuthProofs` | theorems: registration, refresh tokens, that no calls wait on one another |
| `MigrationProofs` | theorems: containers that upgrade one database |
| `ListingProofs` | theorems: a client that pages by offset |
| `PoolProofs` | theorems: connections and rows, that no sessions wait on one another |

`Bank` extends `Store`, `Payments`, `Webhooks` and `Cleanup` and instantiates
`Settlement` and `Idempotency`. `Auth`, `Migrations`, `Listings` and `Pool` stand alone: what they
share with `Bank` is an assumption there (every caller is authenticated and has
an account, the schema is there, a connection is free) and their subject.

### State of `Bank`

A *session* is one `AsyncSession`: of one request, of one webhook delivery with
its background task, or of the job of one API instance. `pc[s]` is the statement
it is about to run. Each request and each delivery inserts at most one row into
`transactions`, so that row, and the idempotency key or event it inserts, has the
name of the session. `lock` maps accounts and transactions to the session that
holds `FOR UPDATE`. `cached[s]` is the `Account` object a session holds: with
`expire_on_commit=False` and a reference from the handler (or from the variable
`sender_account` of the job), a later `SELECT ... FOR UPDATE` returns that object
with its old attributes. `old` says what has outlived its retention.

An action is what a session does from one point where others can run to the
next: a statement that may wait, with the commit it ends in when nothing in
between can wait. Two consecutive statements that only read data that cannot
change are one action.

| Code | Actions |
|---|---|
| `get_current_account` | `get_current_account` |
| `execute_deposit` | `execute_deposit` |
| `create_payment`: its 400 and 404 | `reject_payment` |
| `reserve_idempotency_key`, the three 409s, the stored response | `reserve_idempotency_key`, `answer_conflict` |
| `execute_payment` | `lock_sender`, `execute_payment`, `payment_overflows`, `refresh_payment` |
| `finalize_idempotency_key` | `finalize_idempotency_key` |
| `payment_confirmation`, `reserve_webhook_event` | `payment_confirmation`, `schedule_task` (from the `db.refresh` on) |
| `process_payment_succeeded`, `process_payment_failed` | `lock_payment`, `lock_paid_account`, one action each for the last commit, `settlement_is_refused` |
| `mark_webhook_processed`, `record_webhook_error` | the same names |
| the three functions of `cleanup.py` | `cleanup_expired_idempotency_keys`, `cleanup_old_webhook_events`, `select_stale_ids`, `next_stale_id`, `lock_stale_payment`, `lock_sender_account`, `expire_payment` |
| the `except` of `run_cleanup_job`, and its end | `refund_is_refused`, `all_visited` |
| the exception of whatever statement a session is at | `abort_request`; `refresh_raises`, `abort_settlement`, `mark_raises`, `record_raises`; `end_run`; together `Abort` |
| PostgreSQL aborting a deadlock, a lost connection or a timeout of the pool | `deadlock_detected`, `database_error` |
| the process dying | `crash` |

Where an error goes is most of what a webhook has to get right, and the four ways
out are different. The refresh of the new event raises in the request: the answer
is a 500, the event is stored, and there is no task. A statement up to the commit
that settles raises: the task rolls back and records an error. The mark, a
transaction of its own after that commit, raises inside the same `try`: an error is
recorded of an event whose payment is settled. And the record itself raises inside
the `except`: nothing catches it. `fault` says which.

### The other models

**`Settlement`** knows orders, stages and credits. `Bank` maps to it by reading
the `transactions` table: the stage of a payment is its status, its credits are
the rows of the deliveries whose notice names it (the code stores no link from a
credit to its payment). The identity map, locks, keys, events and jobs are not
seen; each of their steps is a stutter.

**`Idempotency`** knows calls, the key each has sent with what payload, who holds
a key, who has charged, and what each call was shown of a charge. A key can be
forgotten and held again. `Bank` maps to it by reading `idempotency_keys`, the
reference of a payment to its key, and the responses; deposits, statuses, locks
and events are not seen, and what is asked is the payload itself, of which
`Bank` only stores a hash.

**`Auth`** has a call for each HTTP request. `pc` is its next statement; a call
inserts at most one user with its account or one token, so rows are named by the
call. The statements that matter are apart: the SELECT of `register`, the flush
that waits for another's uncommitted e-mail (`EmailHeld`), and the commit that
may meet an account number in use; the SELECT of `refresh_token_endpoint` or
`logout`, and the commit that revokes. `life` is how far the tokens of a grant are past their expiry:
access token first, then refresh token. A lost call (`lose`) rolls back.

| Code | Actions of `Auth` |
|---|---|
| `register` | `register`, `flush_user`, `commit_user` |
| `login` | `login`, `commit_token` |
| `refresh_token_endpoint` | `refresh_token_endpoint`, `rotate` |
| `logout` | `logout`, `revoke` |
| `get_current_user`, `get_current_account`, `get_my_balance` | `get_my_balance` |
| the response | `answer_call` |

**`Migrations`** has each revision as the names it creates and drops, in both
directions. An instance reads `alembic_version`, plans from there, and runs all
revisions in one transaction (`env.py:65`); an error ends the container, and
docker restarts it. An operator may downgrade once.

**`Listings`** has rows whose `created_at` is the time their transaction began
and which become visible when it commits, so a row can appear behind younger
ones. `ORDER BY created_at DESC` leaves rows of one instant in any order, a new
one for each query. The client asks for the next page until one is short.

**`Pool`** has each handler as a list of transactions, each a list of the row
locks it takes. A connection is taken with a transaction and goes back with its
commit. The background task of a webhook uses the session of its request, which
has committed by then, so no handler has two connections. The last transaction of
a webhook records an error, and the task goes on to that one when another of its
transactions times out or is aborted, as `handle_webhook_event` does; when that one
fails too it is over. The connection of its second transaction is asked for by the
`db.refresh` of the request, so a timeout there ends the request and records
nothing (`InTask`). Every other handler ends with its first error.

### Abstractions

* Amounts are whole units (cents) up to `MaxNumeric`, which stands for the
  largest NUMERIC(12,2). A description is short, or so long that the text the
  job appends does not fit (`long`).
* SHA-256 over the payload is taken to be injective.
* A row outlives its retention (24 hours, 7 days) only after the handler that
  wrote it has ended. So `finalize_idempotency_key` always finds its key.
* The DELETE of expired keys waits until it can set all references to NULL, and
  does so at once; it holds no partial set of locks.
* Crashes end all handlers and jobs of all instances at the same time.
* Signatures are verified and payloads valid before a delivery starts; users are
  authenticated, and each has an account.
* In `Bank` a session never waits for a pooled connection; `Pool` has the waits.
  What a timeout of the pool does to a handler `Bank` has as `database_error`: the
  statement raises, whichever it is, and `Abort` says what follows. Only the
  sessions in `Unreliable` meet one, a bound like the others; the proofs have none.
* A commit that raises may have been made all the same. That is the commit and
  then the error of the next statement: `abort_request` after a key or a payment,
  `refresh_raises` after a new event, `mark_raises` after a settlement, `end_run`
  after a refund. The mark is made or not in `mark_raises` itself. A response that
  was stored under its key without an acknowledgement counts as sent.
* The `db.refresh` of a deposit (`payments.py:35`) changes and locks nothing: an
  error there is an answer, which no property of `Bank` tells apart from a success.
* In `Auth` an e-mail is one of two or three spellings, of which `EmailStr` maps
  one to another (a domain is put in lower case). Passwords and hashes compare
  as they are; a token is the call that was granted it, so two tokens never have
  one hash. A login inserts at most one token, and users are never deleted, so
  the 401 for a user who is gone and the IntegrityError of a token cannot occur.
* A request that is not a payment or deposit only reads, and is left out.

## The runs

Each `MC` module holds the constants of its runs. Symmetry permutes sessions
that the properties and constants do not tell apart; no run with a liveness
property uses any.

| Run | Instance | Checks |
|---|---|---|
| `bank_races` | 2 accounts, 3 requests under one key (a deposit, two payloads) that can fail at any statement, 1 delivery that refunds when none has failed, job; payments and keys grow old | `TypeOK`, `WebhookObjectIsFresh`, `LocksAreReleased`, `OneChargePerKey`, `RetryGetsOriginal`, `DriftOnlyFromStaleObject`, `ImplementsIdempotency` |
| `bank_settlement` | 1 payment (or one that is refused, or too large to store), 2 deliveries, 2 event ids, both outcomes, a wrong amount, 2 jobs, an error of any statement of anyone, 1 crash; payments and processed events grow old | `SettledOnce`, `ReleasedOnce`, `EventOutcomeIsTrue`, `ImplementsSettlement` |
| `bank_live` | 2 payments, of one account each, 1 delivery about one of them or an unknown payment that can fail at any statement, job, payments that grow old, 1 crash, fairness | `JobNeverDeadlocks`, `RequestsAreAnswered`, `EventsAreResolved`, `PendingPaymentsSettle` |
| `auth` | 2 registrations, 3 spellings of 2 e-mails, 2 account numbers, 1 login, 2 refreshes, 1 logout, 1 read, 1 lost call, expiry | `TypeOK`, `RegistrationIsAtomic`, `ConflictIsTrue`, `NoCallIsStuck`, `RevokedExactlyByUse`, `AccountIsThere`, `RevocationIsFinal` |
| `migrations` | 3 instances, a database at any of the 11 versions, 2 crashes, 1 downgrade to any version | `ServesTheModels`, `UpgradeIsAtomic`, `EveryInstanceServes` |
| `listings` | 2 accounts, 3 transactions, pages of 1 and 2 rows and a refused limit, 3 instants | `NoRowIsSkipped`, `RepeatsAreArrivals` |
| `pool` | 2 opposite payments, a deposit, a webhook, the job, 2 connections, any number of timeouts | `NoSessionIsStuck`, `EverySessionEnds` |

Bounds. Two accounts are enough for every lock cycle between sender and
recipient, and for a refund and a credit that are not the same account. Three
requests give a stale object, the step that makes it stale, and a payment that
checks it; under one key, they are a first caller, a retry that races it and a
retry after the key is purged. Two deliveries and two jobs cover each pair that
can compete to settle a payment, and an event that is sent again after the job has
retired it. `MaxNumeric` is 3 with an opening balance of 1, so that three deposits
overflow a balance, and one payment is for more than fits. `MaxCrashes`, `Ageing`
and `Unreliable` bound crashes, what can grow old and whose statements can raise in
a run. `bank_races` spends its states on three requests and has no crash: an error
at each statement of each request stops it between the same commits. `crash` is in
the other two runs and in the proofs. The constraint `ErrorWithoutNotice` looks at
what such an error leaves only while the webhook has not been delivered, and at the
webhook only while no request has failed: errors together with deliveries are in
`bank_settlement` and in the proofs, which know no constraint. A refund is all the
webhook of `bank_races` does; credits are in the other two. The two payments of
`bank_live` are alike, so its notice is about one that is chosen once. Sessions end in "done", and jobs start again forever,
so no run of `Bank` has a deadlock of the model, and the check for it is on. The
other models come to an end when every call is answered, every instance serves or
every handler is over, so their runs do not check it.

In `auth`, two registrations collide on an e-mail, on a number or on neither, and
one may be lost while the other waits. Two refreshes race on one token, or the
second uses the successor or the old token again; the logout races both
(`MaxLost` bounds lost calls). In `migrations`, the third instance starts
after the first two have raced. In `listings`, three rows and pages of one and two give a row
that arrives in front, one that arrives late behind, and one that is settled
between pages; `MaxTime` bounds the clock, `MaxLimit` stands for 100. In `pool`,
five handlers for two connections make both a deadlock on rows and a handler
that waits for a connection while the others hold rows it needs. One of the
deadlocks is that of `webhook_processing.py:99`: the credit references the sender,
whom another payment has locked while it waits for the recipient. In `bank_live` an
account has one key, so no second payment of the sender is there to close that cycle.

`DriftOnlyFromStaleObject` is the precise form of what the locking achieves: a
balance and its transactions drift apart only in the step of a session that
held a stale `Account` object, by as much as the object was stale. Money is
therefore exactly as safe as the objects are fresh: those of webhooks are
(`WebhookObjectIsFresh`), those of requests and of the job are not.

### Fairness

`FairSpec` assumes weak fairness of each handler that has started, of the job
(an hourly interval trigger, `scheduler.py:35`), of the deadlock detector and of
time. Nothing makes a client send a request, the gateway deliver an event, a
statement raise or the process crash. Weak fairness is enough: a session that waits for a lock
stays enabled once the lock is free unless another takes it, and with finitely
many sessions in a run no lock is taken for ever.

`EventsAreResolved` excludes what the code leaves unresolved, and `fault` names it.
A task lost with its process is not resumed ("lost"). And two statements raise with
nothing to catch the error ("uncaught"): the refresh of the new event, after which
there is no task and a redelivery is ignored (`webhook_processing.py:44`), and the
record of an error (151, 155). Every other error, also one after the task has locked
the payment or the account, comes to an error on record. `PendingPaymentsSettle`
excludes none of these: the job refunds the payment.

`Auth` states no fairness: a call is one of finitely many steps, so it is enough
that no set of calls waits on one another (`NoCallIsStuck`). That property names
the guards of the steps that may wait, which the actions use as well
(`MayFlush`, `MayGrant`). `Migrations` assumes that docker starts what has
ended (`restart: unless-stopped`) and that alembic goes on; crashes are bounded,
since an instance that dies for ever never serves. `Pool` assumes that a free
connection or row goes to a session that waits for it, and nothing of timeouts:
none has to come, and any number of them may.

### Disagreements between the code and what the repository says

| Run | What it shows |
|---|---|
| `found_lost_update` | `README.md:24` says concurrent deposits are safe: the second of two overwrites the first (`payments.py:22`, the object loaded by `dependencies.py:67`) |
| `found_stuck_key` | `transactions.py:77` says the request is being processed when it has failed and nobody processes it |
| `found_poison` | `README.md:28` says the job refunds stuck payments: one with a long description is never refunded, and ends each run of the job (`cleanup.py:70`) |
| `found_enum_label` | `README.md:25` says a confirmation releases the funds: in a migrated database it cannot, since the label of the credit is missing (`c1001ae3cd8c`, line 23) |
| `found_two_successors` | `README.md:20` says tokens are rotated on refresh: two refreshes at the same time make two out of one (`auth.py:112`, 115) |

The models show six more, which no run singles out:

* `README.md:27` says an unknown transaction and a wrong amount are recorded: for
  `payment.failed` the error raised is a TypeError, so what is recorded is an
  internal error (`webhook_processing.py:110`, `Raised`).
* `README.md:108` lists `/auth/logout` as authenticated: the endpoint has no such
  dependency and revokes whatever refresh token it is given (`auth.py:138`, `logout`
  in `Auth`, whose caller needs no access token).
* `webhook_processing.py:152` takes every unexpected exception for one of the
  settlement: when the mark raises after it, "Unexpected internal error" is recorded
  of an event whose payment was settled and paid out (`mark_raises`).
  `EventOutcomeIsTrue` says that this is the only error a settled event can have.
* `README.md:20` says logout revokes: a refresh that is past its check hands out
  a new token after the logout was answered (`auth.py:141`). `RevocationIsFinal`
  says that only such a refresh does.
* `tests/test_auth.py:37` expects that who has registered can log in: whose
  e-mail has an upper-case letter in the domain cannot log in with it as it was
  typed (`auth.py:70`, `UserWith`).
* `9c4b5ad32360` says `downgrade` downgrades the schema: it leaves the enum types
  (line 47), and no later upgrade succeeds. This is why `EveryInstanceServes`
  leaves a downgraded database out.

`bank_live` takes descriptions that do not overflow and the labels that
`create_all` makes, which `found_poison` and `found_enum_label` show to be needed.

## What is proved

`BankProofs` proves, for all constants that satisfy the named assumptions of
`Store`, `Payments`, `Webhooks` and `Bank` (sessions and accounts have different
names, opening balances fit, bodies and notices are well formed, a payment has a
key):

* `TypeCorrectness`: `Spec => []TypeOK`. No balance is ever negative or too
  large, although requests and jobs work on stale objects.
* `WebhookFreshness`: `Spec => []WebhookObjectIsFresh`.
* `SettledOnceHolds`: `Spec => SettledOnce`.

None of the three is inductive. `IInv` adds, for each kind of session, what the
statements it has run have left behind:

* `RequestOK`: the row of a request is not there before it commits; its key is
  its own from the reservation to the response; it debits under the lock.
* `DeliveryOK`: a delivery at work owns its event, which is not yet processed unless
  its mark has raised; its row is not there before it settles; the payment it
  settles is locked, pending and of the amount announced; the account it pays is locked and
  the object in its session is what the row is. The last needs that a delivery
  loads no account before the lock (`cached[w] = NotLoaded`), which is where it
  differs from a request.
* `JobOK`: what a job lists and visits are payments; what it expires is locked
  and pending; the object it refunds is the sender's.
* `RowInv`: only a payment to another account is pending. `KeyInv`: a key that
  has expired belongs to a request that has ended, and an event that may be retired
  to a delivery that has, so none disappears under a task that is about to record
  an error of it.

The argument has two halves. `StepOf(s)` says what a step of session s leaves
alone: other sessions, what they have locked, rows that are settled or exist,
events in work, keys that have not expired. `RequestUndisturbed`,
`DeliveryUndisturbed` and `JobUndisturbed` show that such a step keeps the
conjuncts of every other session, and `StepKeepsIInv` combines them. Each action
then has a lemma `..._keeps_IInv` that it is a `StepOf(s)`, keeps the types, and
establishes the conjunct of its own session. Time and crashes, which are no
session's steps, are proved directly. `SettledOnce` follows from `RowsAlone`, a
part of `StepOf`, and needs `IInv` for the checks under the lock.

`RecordProofs` builds on `IInv` and proves, under the same assumptions:

* `OneChargePerKeyHolds`: `Spec => []OneChargePerKey`.
* `RetryGetsOriginalHolds`: `Spec => []RetryGetsOriginal`.

Its invariant `KInv` has three parts. `KeyLink`: a payment that is linked to a
key is linked to the one its own request reserved, which is in the table; two
payments under one key would both be its owner. `KeyRowInv`: a row of the table
has the hash of the payload of its owner, and a response only once the owner has
ended, naming the owner's payment. `AnswerInv`: an answer with a payment is the
response in the row and came with the payload of its hash. Most steps are
`Quiet`, they touch none of this, and `QuietKeepsKInv` covers them; the start of
a request, the reservation, the answer to a conflict, the payment, the
finalisation and the purge each have a lemma. The purge is where the foreign key
matters: `ON DELETE SET NULL` unlinks the payments of the keys it deletes, so
`KeyLink` survives it. That equal hashes mean equal payloads is the abstraction
of SHA-256.

`IdempotencyRefinement` says that `Bank` implements `Idempotency`: `Spec =>
ImplementsIdempotency`. On top of `IInv` and `KInv` the mapping needs `LinkedInv`
(from its commit to its response a payment is linked to its own key, which the
job leaves alone since a key expires only when its request is over) and `ToldInv`
(what is stored under a key is what its owner was sent). Six actions are steps of
the abstract key; the others are `Unseen`, a `Quiet` step that moreover starts no
request, makes no payment and changes no answer that was sent. From the
refinement follows `AnswersStayOriginal`, by an argument about the abstract key
alone (`ShownInv`): whoever is shown a payment had sent its payload under its key
and is shown what its maker was shown. `RetryGetsOriginal` says so while the key
is in the table; this holds for ever, also when the key was deleted and another
payment holds it.

`RecordProofs` also proves `EventOutcomeIsTrueHolds`: `Spec => []EventOutcomeIsTrue`.
Its invariant `OutcomeInv` follows the delivery that owns an event. Once that has
settled the payment, has marked the event or has a credit, the payment is as
announced, and no error is on record or about to be but the internal one. A task
that is about to record another one has not settled, and its reason holds
(`ReasonHolds`). Any statement may raise in between (`DeliveryKeepsOutcome`): a mark
that raises leaves the event marked or not, which is why both an error and
`processed` can be on record (`MarkKeepsOutcome`). A step of anyone else keeps all
this because it is a `StepOf` another session, under which a settled row keeps its
status and a refused notice its reason (`GroundsAreKept`).

`BankProofs` also proves `LocksAreReleasedHolds` and, for a single API instance,
`JobNeverDeadlocksHolds`. Every step of a session leaves the locks, drops all of
its own, or takes one more on the way to a step that may hold locks
(`LockMove`). With it, `LockInv` says that the job holds an account only until
the commit of its refund. In a cycle of waits, somebody would wait for the job,
hence for a payment; only a webhook at its first lock does, and nobody waits for
that. The assumption that there is one instance is needed: two jobs do deadlock
with each other on the payments they have skipped.

`SettlementProofs` proves `FlowReleasesOnce` about the abstract flow, and
`FlowProofs` that `Bank` implements it: `SettlementRefinement`, `Spec =>
ImplementsSettlement`. `IInv` and `CreditsLinked` (a row of a delivery is a
credit, and its notice names a request) are what the mapping needs. Four actions
are steps of the flow: `execute_payment` makes a payment, the two settlements
release or refund it, `expire_payment` refunds it; the others are stutters,
since they leave the `Face` of every row alone. `ReleasedOnceHolds` is then the
theorem of the flow read through the mapping: a completed payment has exactly
one credit, of its own amount, from its sender to its recipient.

`AuthProofs` proves, for all constants that satisfy `CallsAreDistinct` and
`EmailStrNormalises`, the safety properties of `Auth`:
`AuthTypes`, `RegistrationIsAtomicHolds`, `ConflictIsTrueHolds`,
`AccountIsThereHolds`, `RevokedExactlyByUseHolds`, `RevocationIsFinalHolds`. The
inductive invariant `AuthInv` adds to the properties what the two races rest on:
of a registration that has flushed, the e-mail is neither in the table nor
flushed by another (`Unwritten`), which is what the unique index enforces and
the SELECT of `register` does not; what a refresh or logout is about to revoke
is stored (`Revoking`), and stays revoked once a logout has committed
(`LoggedOut`). A step leaves the tables it does not write alone, and
`RegistrationFrame`, `TokenFrame` and `ReadFrame` carry the conjuncts about
them; each action has a lemma `..._keeps`.

`NoCallIsStuckHolds` says that as long as calls are in progress one of them can go
on, for any number of registrations, logins, refreshes and logouts. A call waits
only at the flush, for a registration that has flushed the same e-mail, and that
one is at its commit, which waits for nobody and finds an account number to try
(`NumbersExist`: there is one). `CallInv` adds that each call is at a step of its
own kind, and that who has verified a password still has a user. The property
names the guards the actions use, so that the proof needs no ENABLED; on the
instance TLC finds that the two agree.

`RotationIsSoundAlone` is the other side of `found_two_successors`: in every
behaviour in which no two refreshes with one token are between the check and the
commit at a time, `ExchangedOnce` holds. Its invariant `LetThroughOnce` counts a
refresh from its check on, and rests on `AuthInv`: what has been exchanged is
revoked, and what is revoked lets nobody through.

`FlowProofs` proves `DriftIsStaleness`: `Spec => DriftOnlyFromStaleObject`, and
from it `FreshObjectsAreSound`: where whoever writes holds no stale object, every
balance is what its transactions add up to, so what `found_lost_update` shows has
no other cause. `Book` is a sum over the transactions table. A step changes one
row and one balance, so the proof compares two sums over all other rows
(`SumOfSame`), takes one row out of a sum (`SumWithout`), and each of the five
writers has a lemma on what it adds (`DepositDrift` to `ExpiryDrift`). The
invariant `BookInv` on top of `IInv` says that the table is finite, whatever the
number of sessions, and that a payment about to be made has loaded its sender.

`MigrationProofs` proves, for any number of instances, crashes and downgrades,
`ServedSchema` (`Spec => []ServesTheModels`) and `AtomicUpgrade` (`Spec =>
UpgradeIsAtomic`). A downgrade leaves names behind, so the schema at a version is
not known; `Between` says that it has what the upgrades to that version give and
nothing more than `Leftovers`, which every revision keeps in both directions
(`UpgradeKeepsBetween`, `DowngradesKeepBetween`), and at head the two bounds meet.
`UpgradeInv` adds that one instance at most has run a revision it has not
committed, and began at what is committed. The only assumption is that a
database is deployed at one of the revisions.

`ListingProofs` proves, for any number of rows, inserts, updates and pages, and
any order the database gives to rows of one instant, `NothingIsSkipped` (`Spec =>
[]NoRowIsSkipped`) and `RepeatsNeedArrivals` (`Spec => []RepeatsAreArrivals`). A row
that is alone with its `created_at` is, in every order, right behind the rows
that are younger (`PlaceOfAlone`), and an arrival moves it one place back or
none, never forward (`GrowthMovesBack`). So a row of the start is seen, or tied,
or not in front of the offset (`SkipsNone`); and a page shorter than the limit
leaves nothing behind it (`FullPage`). For repetitions the invariant is a
balance: those there were, and the seen rows behind the offset, which will come
again, are no more than the arrivals. An arrival pushes one seen row behind the
offset at most (`ArrivalAddsOne`), since no two rows have one place, and a page
pays off what it shows (`PagePaysOff`).

`PoolProofs` proves, for any pool of at least one connection, any finite set of
sessions and whatever rows their transactions lock, `NoSessionIsStuckHolds`
(`Spec => []NoSessionIsStuck`). Its invariant `PoolInv` says that a session has its one
connection exactly while it is inside a transaction, and holds rows only then. If
nobody is inside one, the sum of connections is 0 (`SumOfZeros`) and the next
session gets one. If those inside all wait, they wait for one another; a smallest
set of sessions that waits for itself is a cycle (`SmallestIsCycle`), and the
database aborts one of a cycle, so one goes on (`SomebodyInsideGoesOn`). What
`EverySessionEnds` adds is that fairness picks each of them in the end.

Sums and schemas are recursive functions, defined by a CHOOSE that means
something only where its equation has a solution. The proofs give one: for
`SchemaAt` and `SchemaBelow` a closed form (`ClosedSchemaAt`, `ClosedSchemaBelow`),
for the sum over a finite set a function that is right up to each cardinality
(`SumIsDefined`).
Induction over natural numbers is used in the form that every set of them has a
least element (`WFMin`), as the induction theorems of the library take an operator,
which the provers cannot instantiate.

Only model-checked: liveness under fairness, which is out of the prover's reach
(`RequestsAreAnswered`, `EventsAreResolved`, `PendingPaymentsSettle`,
`EveryInstanceServes`, `EverySessionEnds`), and what the five runs about
disagreements show. Every invariant and action property of a passing run, and
both refinements, are theorems.

## Not modelled

* Signatures (`webhook_signature.py`): one pure comparison, without state; the
  models take deliveries that have passed it.
* Rate limits (`limiter.py`): counters in the memory of one instance in front of
  register and login; a refused request changes nothing.
* The offline mode of `env.py`, which writes SQL text and touches no database.
* Settings, which are read once; the health check; the Postman collection.
* The bytes of tokens, hashes, account numbers and messages.

## Plan

Done: every component with state, its safety and liveness properties, the
abstract flow and the abstract key with their refinements, and proofs of every
safety property the runs check. What could follow is depth:

1. What the fixes would prove: with the balance read again under the lock
   (`populate_existing` in `payments.py:22`), `FreshObjectsAreSound` would lose its
   assumption; with `FOR UPDATE` in `auth.py:109`, so would `RotationIsSoundAlone`.
2. The two models `Bank` and `Pool` in one: the locks of `Bank` under the
   connections of `Pool`.
