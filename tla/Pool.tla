-------------------------------- MODULE Pool --------------------------------
(***************************************************************************)
(* The connection pool of the engine (app/database.py) under the handlers. *)
(*                                                                         *)
(* A session takes a connection for the first statement of a transaction   *)
(* and gives it back with the commit. What a transaction locks it holds    *)
(* until then, so a session that waits for a row keeps its connection from *)
(* the others. Here a handler is the list of its transactions, and each of *)
(* these the list of rows it locks, in order; Bank has the rest.           *)
(***************************************************************************)
EXTENDS Integers, Sequences, FiniteSets, Functions

CONSTANTS
    Sessions,
    Plan,          \* the transactions of each session
    Recovering,    \* deliveries: their last transaction records an error
    PoolSize       \* pool_size + max_overflow

\* The row locks that some handler asks for.
Requested ==
    UNION {UNION {Range(Plan[s][i]) : i \in DOMAIN Plan[s]} : s \in Sessions}

ASSUME PoolIsNotEmpty == PoolSize \in Nat \ {0}
ASSUME SessionsAreFinite == IsFiniteSet(Sessions)
ASSUME PlansAreSequences ==
    \A s \in Sessions : Plan[s] \in Seq(Seq(Requested)) /\ Len(Plan[s]) > 0

VARIABLES
    at,            \* the transaction a session is in or about to begin
    open,          \* how many connections a session has
    locked,        \* the rows its transaction has locked
    phase          \* "ready", "running", "ended", "failed"

vars == << at, open, locked, phase >>

(***************************************************************************)
(* What the handlers lock. A row that is inserted is locked by its unique  *)
(* value; a foreign key locks the row it references.                       *)
(***************************************************************************)
Update(row) == [row |-> row, mode |-> "update"]
Share(row) == [row |-> row, mode |-> "share"]

\* get_current_account only reads.
get_my_balance == << << >> >>
\* The lock; db.refresh in a transaction of its own.
create_deposit(account) == << << Update(account) >>, << >> >>
\* The key; the sender, and the recipient the row references; the key again.
create_payment(sender, recipient, key) ==
    << << Update(key) >>, << Update(sender), Share(recipient) >>, << Update(key) >> >>
\* The event; the payment, the account paid and the one the credit references;
\* the event again, to mark it processed or to record the error.  The second
\* transaction begins with the request's db.refresh(entry): the background task
\* goes on in it.
payment_confirmation(event, payment, paid, other) ==
    << << Update(event) >>, << Update(payment), Update(paid), Share(other) >>,
       << Update(event) >>, << Update(event) >> >>
\* A key and an event to delete, then a stale payment with its sender.
run_cleanup_job(key, event, payment, sender) ==
    << << Update(key) >>, << Update(event) >>, << Update(payment), Update(sender) >> >>

(***************************************************************************)
(* Steps of a session                                                      *)
(***************************************************************************)
Init ==
    /\ at = [s \in Sessions |-> 1]
    /\ open = [s \in Sessions |-> 0]
    /\ locked = [s \in Sessions |-> << >>]
    /\ phase = [s \in Sessions |-> "ready"]

Free == PoolSize - FoldFunction(LAMBDA a, b : a + b, 0, open)

Locks(s) == Plan[s][at[s]]
NextLock(s) == Locks(s)[Len(locked[s]) + 1]
Conflict(a, b) == a.row = b.row /\ "update" \in {a.mode, b.mode}
Blockers(s) ==
    IF phase[s] = "running" /\ Len(locked[s]) < Len(Locks(s))
    THEN {t \in Sessions \ {s} :
            \E i \in DOMAIN locked[t] : Conflict(locked[t][i], NextLock(s))}
    ELSE {}

MayConnect(s) == phase[s] = "ready" /\ Free > 0
MayLock(s) ==
    phase[s] = "running" /\ Len(locked[s]) < Len(Locks(s)) /\ Blockers(s) = {}
MayCommit(s) == phase[s] = "running" /\ Len(locked[s]) = Len(Locks(s))

connect(s) ==
    /\ MayConnect(s)
    /\ open' = [open EXCEPT ![s] = @ + 1]
    /\ phase' = [phase EXCEPT ![s] = "running"]
    /\ UNCHANGED << at, locked >>

lock_row(s) ==
    /\ MayLock(s)
    /\ locked' = [locked EXCEPT ![s] = Append(@, NextLock(s))]
    /\ UNCHANGED << at, open, phase >>

\* The next step of a handler in a session of its own, before the first is closed.
KeptByFirstSession(connections) == connections
\* commit() and rollback() return the connection of the one session to the pool.
AfterCommit(connections) == 0

\* The last transaction of a handler that meets no error.
LastPlanned(s) == IF s \in Recovering THEN Len(Plan[s]) - 1 ELSE Len(Plan[s])

commit(s) ==
    /\ MayCommit(s)
    /\ locked' = [locked EXCEPT ![s] = << >>]
    /\ IF at[s] < LastPlanned(s)
       THEN /\ phase' = [phase EXCEPT ![s] = "ready"]
            /\ open' = [open EXCEPT ![s] = AfterCommit(@)]
            /\ at' = [at EXCEPT ![s] = @ + 1]
       ELSE /\ phase' = [phase EXCEPT ![s] = "ended"]
            /\ open' = [open EXCEPT ![s] = 0]
            /\ UNCHANGED at

\* An error path without rollback(); with it.
NoRollback(s) == UNCHANGED locked
Rollback(s) == locked' = [locked EXCEPT ![s] = << >>]

\* The second transaction of a delivery has its connection from the refresh.
InTask(s) == at[s] > 2 \/ (at[s] = 2 /\ phase[s] = "running")

\* An error is recorded if it is one of the background task, and not of the
\* record itself.
RecordsError(s) == s \in Recovering /\ InTask(s) /\ at[s] <= LastPlanned(s)

\* A transaction that fails ends the handler, except that a background task goes
\* on to record_webhook_error, which updates the event.
Fails(s) ==
    /\ Rollback(s)
    /\ open' = [open EXCEPT ![s] = 0]
    /\ IF RecordsError(s)
       THEN /\ phase' = [phase EXCEPT ![s] = "ready"]
            /\ at' = [at EXCEPT ![s] = Len(Plan[s])]
       ELSE /\ phase' = [phase EXCEPT ![s] = "failed"]
            /\ UNCHANGED at

\* QueuePool gives up after its timeout: the statement raises.
connection_times_out(s) ==
    /\ phase[s] = "ready"
    /\ Free <= 0
    /\ Fails(s)

\* The database aborts one session of a cycle of waits.
Waiting == {s \in Sessions : Blockers(s) # {}}
InCycle(s) ==
    /\ Blockers(s) # {}
    /\ \E S \in SUBSET Waiting :
        /\ s \in S
        /\ \A a \in S : S \cap Blockers(a) # {} /\ \E b \in S : a \in Blockers(b)

deadlock_detected(s) == InCycle(s) /\ Fails(s)

Step(s) == connect(s) \/ lock_row(s) \/ commit(s) \/ deadlock_detected(s)

\* Whether a step of the session is possible: the guards of Step(s).
CanGoOn(s) == MayConnect(s) \/ MayLock(s) \/ MayCommit(s) \/ InCycle(s)

Next ==
    \E s \in Sessions : Step(s) \/ connection_times_out(s)

\* The pool hands a free connection to a waiter, the database a free row, and
\* nothing makes a wait time out.
Fairness ==
    \A s \in Sessions : WF_vars(Step(s))

Spec == Init /\ [][Next]_vars /\ Fairness

(***************************************************************************)
(* Properties                                                              *)
(***************************************************************************)
\* A pool of any size, even of one connection, only makes sessions slower:
\* whoever waits for a connection holds neither a row nor a connection, so it
\* keeps nobody from finishing, and every handler ends without a timeout.
EverySessionEnds == <>(\A s \in Sessions : phase[s] \in {"ended", "failed"})

\* Whatever the handlers lock and however small the pool, they never all wait:
\* as long as one has not ended, one of them can connect, lock a row or commit,
\* or is on a cycle of waits that the database breaks.
NoSessionIsStuck ==
    (\A s \in Sessions : ~CanGoOn(s)) =>
        \A s \in Sessions : phase[s] \in {"ended", "failed"}

=============================================================================
