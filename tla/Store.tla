-------------------------------- MODULE Store --------------------------------
(***************************************************************************)
(* The PostgreSQL tables of app/models, the row locks of SELECT ... FOR    *)
(* UPDATE, and the SQLAlchemy sessions that read and write them.           *)
(*                                                                         *)
(* A session is one AsyncSession: that of one HTTP request of a client, of *)
(* one webhook delivery with its background task, or of the cleanup job of *)
(* one API instance.  Each request and each delivery inserts at most one   *)
(* row into the transactions table, so that row is named by its session;   *)
(* idempotency keys and webhook events are named by theirs in the same way.*)
(***************************************************************************)
EXTENDS Integers, FiniteSets

CONSTANTS
    Accounts,    \* the accounts; each belongs to its own user
    Keys,        \* the Idempotency-Key values clients send
    EventIds,    \* the event_id values the gateway sends
    Requests,    \* client requests, one session each
    Deliveries,  \* webhook deliveries, one session each
    Jobs,        \* the cleanup jobs: one for each running API instance
    None,        \* SQL NULL, and the absence of a value
    MaxNumeric,  \* the largest amount a NUMERIC(12,2) column holds
    Opening,     \* the balance each account starts with
    TypeLabels   \* the labels of the database's transaction_type enum

Rows == Requests \cup Deliveries
Sessions == Rows \cup Jobs
Lockable == Accounts \cup Rows

ASSUME DisjointNames ==
    /\ Requests \cap Deliveries = {}
    /\ Jobs \cap Rows = {}
    /\ Accounts \cap Rows = {}
    /\ None \notin Accounts \cup Keys \cup Sessions

ASSUME MoneyFits ==
    /\ MaxNumeric \in Nat
    /\ Opening \in [Accounts -> 0 .. MaxNumeric]

VARIABLES
    balance,  \* accounts.balance
    txn,      \* the transactions table
    idem,     \* the idempotency_keys table, by its unique (user, key)
    event,    \* the webhook_events table, by its unique event_id
    lock,     \* the session that holds FOR UPDATE on a row, or None
    pc,       \* the statement each session is about to run
    cached,   \* the Account object each session keeps in its identity map
    old       \* what has outlived its retention time

tables == <<balance, txn, idem, event>>

(***************************************************************************)
(* Rows                                                                    *)
(***************************************************************************)
Types == {"DEPOSIT", "PAYMENT", "TRANSFER_IN"}
Statuses == {"PENDING", "COMPLETED", "FAILED"}

Transaction ==
    [type : Types, status : Statuses, acct : Accounts,
     rel : Accounts \cup {None}, amount : 1 .. MaxNumeric,
     key : Requests \cup {None}, long : BOOLEAN]

NoTransaction ==
    [type |-> "none", status |-> "none", acct |-> None, rel |-> None,
     amount |-> 0, key |-> None, long |-> FALSE]

\* No row for this (user, key), no row for this event_id.
NoKey == [id |-> None, hash |-> None, reply |-> None]
NoEvent == [id |-> None, processed |-> FALSE, error |-> "none"]

\* What a NUMERIC(12,2) column accepts.
Fits(n) == n <= MaxNumeric

Exists(t) == txn[t].type # "none"

(***************************************************************************)
(* Locks and the identity map                                              *)
(***************************************************************************)
\* Session s can run SELECT ... FOR UPDATE on row x.
CanLock(s, x) == lock[x] \in {None, s}

\* Inserting a transaction takes FOR KEY SHARE on each account it refers
\* to, which waits for every other session's FOR UPDATE.
CanReference(s, a) == lock[a] \in {None, s}

Acquire(s, x) == lock' = [lock EXCEPT ![x] = s]

\* COMMIT, ROLLBACK and closing the session drop every lock it holds.
Release(s) == lock' = [x \in Lockable |-> IF lock[x] = s THEN None ELSE lock[x]]

NotLoaded == [id |-> None, balance |-> 0]

\* A SELECT returns the Account object the session already holds, with the
\* attributes it was loaded with: the session never expires on commit and no
\* statement asks for populate_existing.  Otherwise it loads the row.
LoadAccount(s, a) ==
    IF cached[s].id = a THEN cached[s] ELSE [id |-> a, balance |-> balance[a]]

Load(s, a) == cached' = [cached EXCEPT ![s] = LoadAccount(s, a)]
Forget(s) == cached' = [cached EXCEPT ![s] = NotLoaded]

Goto(s, step) == pc' = [pc EXCEPT ![s] = step]

InitStore ==
    /\ balance = Opening
    /\ txn = [t \in Rows |-> NoTransaction]
    /\ idem = [ak \in Accounts \X Keys |-> NoKey]
    /\ event = [e \in EventIds |-> NoEvent]
    /\ lock = [x \in Lockable |-> None]
    /\ pc = [s \in Sessions |-> "idle"]
    /\ cached = [s \in Sessions |-> NotLoaded]
    /\ old = [keys |-> {}, rows |-> {}, events |-> {}]

==============================================================================
