------------------------------ MODULE Listings ------------------------------
(***************************************************************************)
(* The listings of routers/admin.py and routers/transactions.py, read page *)
(* by page while other sessions insert and change rows.                    *)
(*                                                                         *)
(* Each page is a query of its own over what is committed then, so the     *)
(* offset of the next page counts rows that may not have been there before.*)
(* created_at is the time the inserting transaction began: a row can become*)
(* visible behind rows that are younger.                                   *)
(***************************************************************************)
EXTENDS Integers, Sequences, FiniteSets, SequencesExt

CONSTANTS
    AccountRows,       \* accounts, each with its user
    TransactionRows,
    AccountOf,         \* the account_id of each transaction
    Admins,            \* the accounts whose user has is_admin
    Limits,            \* the limits clients ask for
    MaxLimit,          \* the limit the query parameter allows: 100
    MaxTime

ASSUME AccountOfIsTotal == AccountOf \in [TransactionRows -> AccountRows]
ASSUME LimitsAreNat == MaxLimit \in Nat \ {0} /\ Limits \subseteq Nat /\ MaxTime \in Nat

VARIABLES
    clock,
    state,             \* "absent", "open" until its transaction ends, "committed"
    created_at,
    updated_at,
    reader             \* a client that follows a listing to its end

vars == << clock, state, created_at, updated_at, reader >>

Rows == AccountRows \cup TransactionRows
Paths == {"/admin/accounts", "/admin/transactions",
          "/admin/accounts/{account_id}/transactions", "/transactions"}
Committed == {r \in Rows : state[r] = "committed"}

Init ==
    /\ clock = 0
    /\ state = [r \in Rows |-> "absent"]
    /\ created_at = [r \in Rows |-> 0]
    /\ updated_at = [r \in Rows |-> 0]
    /\ reader = [phase |-> "idle"]

(***************************************************************************)
(* The tables                                                              *)
(***************************************************************************)
tick ==
    /\ clock < MaxTime
    /\ clock' = clock + 1
    /\ UNCHANGED << state, created_at, updated_at, reader >>

\* The row of a transaction references an account that is committed.
begin_insert(r) ==
    /\ state[r] = "absent"
    /\ r \in TransactionRows => AccountOf[r] \in Committed
    /\ state' = [state EXCEPT ![r] = "open"]
    /\ created_at' = [created_at EXCEPT ![r] = clock]
    /\ updated_at' = [updated_at EXCEPT ![r] = clock]
    /\ UNCHANGED << clock, reader >>

Arrivals == IF reader.phase = "reading" THEN [reader EXCEPT !.arrivals = @ + 1] ELSE reader

end_insert(r) ==
    /\ state[r] = "open"
    /\ \/ /\ state' = [state EXCEPT ![r] = "committed"]
          /\ reader' = Arrivals
          /\ UNCHANGED << created_at, updated_at >>
       \/ /\ state' = [state EXCEPT ![r] = "absent"]
          /\ created_at' = [created_at EXCEPT ![r] = 0]
          /\ updated_at' = [updated_at EXCEPT ![r] = 0]
          /\ UNCHANGED reader
    /\ UNCHANGED clock

\* A settlement, a refund or a new balance: an UPDATE sets updated_at.
update(r) ==
    /\ r \in Committed
    /\ updated_at' = [updated_at EXCEPT ![r] = clock]
    /\ UNCHANGED << clock, state, created_at, reader >>

(***************************************************************************)
(* One page                                                                *)
(***************************************************************************)
Matching(path, account) ==
    CASE path = "/admin/accounts" -> Committed \cap AccountRows
      [] path = "/admin/transactions" -> Committed \cap TransactionRows
      [] OTHER -> {r \in Committed \cap TransactionRows : AccountOf[r] = account}

SortKeyUpdated(r) == updated_at[r]
SortKey(r) == created_at[r]

\* ORDER BY says nothing of rows with equal keys: each query may order them anew.
Ordered(rows) ==
    {s \in SetToSeqs(rows) : \A i, j \in DOMAIN s : i < j => SortKey(s[i]) >= SortKey(s[j])}

PageWithNext(order, limit, offset) ==
    {order[i] : i \in {i \in DOMAIN order : offset < i /\ i <= offset + limit + 1}}
PageOf(order, limit, offset) ==
    {order[i] : i \in {i \in DOMAIN order : offset < i /\ i <= offset + limit}}

\* get_current_admin, then get_account_or_404, then the validated parameters.
Refusal(caller, path, account, limit) ==
    CASE path # "/transactions" /\ caller \notin Admins -> 403
      [] path = "/admin/accounts/{account_id}/transactions" /\ account \notin Committed -> 404
      [] limit \notin 1 .. MaxLimit -> 422
      [] OTHER -> 200

\* Only list_account_transactions takes an account; list_my_transactions lists
\* the caller's own.
start_listing(caller, path, account, limit) ==
    /\ reader.phase = "idle"
    /\ caller \in Committed
    /\ path # "/admin/accounts/{account_id}/transactions" => account = caller
    /\ reader' = [phase |-> "reading", caller |-> caller, path |-> path,
                  account |-> account, limit |-> limit, offset |-> 0,
                  before |-> Matching(path, account), seen |-> {},
                  repeats |-> {}, arrivals |-> 0]
    /\ UNCHANGED << clock, state, created_at, updated_at >>

Shown(page) ==
    [reader EXCEPT !.offset = @ + reader.limit,
                   !.seen = @ \cup page,
                   !.repeats = @ \cup {<< r, reader.offset >> : r \in page \cap reader.seen},
                   !.phase = IF Cardinality(page) < reader.limit THEN "ended" ELSE "reading"]

list_page ==
    /\ reader.phase = "reading"
    /\ LET refusal == Refusal(reader.caller, reader.path, reader.account, reader.limit)
       IN  IF refusal # 200
           THEN reader' = [phase |-> "refused"]
           ELSE \E order \in Ordered(Matching(reader.path, reader.account)) :
                    reader' = Shown(PageOf(order, reader.limit, reader.offset))
    /\ UNCHANGED << clock, state, created_at, updated_at >>

Next ==
    \/ tick
    \/ \E r \in Rows : begin_insert(r) \/ end_insert(r) \/ update(r)
    \/ \E caller, account \in AccountRows, path \in Paths, limit \in Limits :
           start_listing(caller, path, account, limit)
    \/ list_page

Spec == Init /\ [][Next]_vars

(***************************************************************************)
(* Properties                                                              *)
(***************************************************************************)
Tied(r) ==
    \E other \in Matching(reader.path, reader.account) \ {r} :
        created_at[other] = created_at[r]

\* A client that reads a listing to its end has seen every row that was there
\* when it began, however many rows arrive or change meanwhile, in front of it
\* or behind. Only rows with one created_at may hide each other.
NoRowIsSkipped ==
    reader.phase = "ended" => \A r \in reader.before : r \in reader.seen \/ Tied(r)

\* A row comes twice only because another one arrived: no more repetitions
\* than arrivals while the client reads. A payment that is settled or
\* refunded between two pages keeps its place.
RepeatsAreArrivals ==
    reader.phase \in {"reading", "ended"} =>
        Cardinality({rep \in reader.repeats : ~Tied(rep[1])}) <= reader.arrivals

=============================================================================
