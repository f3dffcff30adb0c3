----------------------------- MODULE Migrations -----------------------------
(***************************************************************************)
(* The revisions of alembic/versions, and the API instances that run       *)
(* alembic upgrade head when their container starts (docker-entrypoint.sh, *)
(* alembic/env.py) and only then serve.                                    *)
(*                                                                         *)
(* A schema is a set of names: of tables with the columns they are created *)
(* with, of columns added or dropped later, of indexes, unique and foreign *)
(* key constraints, of enum types and of their labels.                     *)
(***************************************************************************)
EXTENDS Integers, Sequences, FiniteSets

CONSTANTS
    Instances,      \* containers of the API on one database
    Deployed,       \* the revisions a database may be at when they start
    MaxCrashes,
    MaxDowngrades   \* how often an operator runs alembic downgrade

ASSUME BoundsAreNat == MaxCrashes \in Nat /\ MaxDowngrades \in Nat

(***************************************************************************)
(* The revisions                                                           *)
(***************************************************************************)
\* upgrade() creates new, adds what may be there already and drops gone;
\* downgrade() drops undo and creates back.
Empty == [new |-> {}, added |-> {}, gone |-> {}, undo |-> {}, back |-> {}]
Creates(names) == [Empty EXCEPT !.new = names, !.undo = names]

users_and_accounts ==
    Creates({"users", "ix_users_email", "accounts", "uq_accounts_account_number",
             "uq_accounts_user_id", "fk_accounts_user_id"})
refresh_tokens ==
    Creates({"refresh_tokens", "ix_refresh_tokens_token_hash",
             "ix_refresh_tokens_user_id", "fk_refresh_tokens_user_id"})
idempotency_keys ==
    Creates({"idempotency_keys", "uq_idempotency_keys_user_key_endpoint",
             "fk_idempotency_keys_user_id"})

\* create_table creates the two enum types of its columns; drop_table, which
\* names the table alone, leaves them.
transactions_table ==
    {"transactions", "merchant_name", "ix_transactions_account_id",
     "fk_transactions_account_id", "fk_transactions_idempotency_key_id"}
transaction_enums == {"transaction_type", "DEPOSIT", "PAYMENT", "transaction_status"}
transactions_with_enums ==
    [Empty EXCEPT !.new = transactions_table \cup transaction_enums,
                  !.undo = transactions_table]

related_account ==
    LET names == {"related_account_id", "fk_transactions_related_account_id"}
    IN  [Creates(names) EXCEPT !.gone = {"merchant_name"}, !.back = {"merchant_name"}]

\* ALTER TYPE ... ADD VALUE IF NOT EXISTS; there is nothing to take it back.
transfer_in == [Empty EXCEPT !.added = {"transfer_in"}]
webhook_events == Creates({"webhook_events", "ix_webhook_events_event_id"})
error_message == Creates({"error_message"})

Revisions ==
    << users_and_accounts, refresh_tokens, Empty, Empty, idempotency_keys,
       transactions_with_enums, related_account, transfer_in, webhook_events,
       error_message >>
HeadRevision == Len(Revisions)

ASSUME DeployedAreRevisions == Deployed \subseteq 0 .. HeadRevision

\* What the models declare: Base.metadata, with the enums they name.
Metadata ==
    {"users", "ix_users_email",
     "accounts", "uq_accounts_account_number", "uq_accounts_user_id",
     "fk_accounts_user_id",
     "refresh_tokens", "ix_refresh_tokens_token_hash", "ix_refresh_tokens_user_id",
     "fk_refresh_tokens_user_id",
     "idempotency_keys", "uq_idempotency_keys_user_key_endpoint",
     "fk_idempotency_keys_user_id",
     "transactions", "related_account_id", "ix_transactions_account_id",
     "fk_transactions_account_id", "fk_transactions_related_account_id",
     "fk_transactions_idempotency_key_id",
     "transaction_type", "DEPOSIT", "PAYMENT", "TRANSFER_IN", "transaction_status",
     "webhook_events", "ix_webhook_events_event_id", "error_message"}

\* Creating a name that exists, or dropping one that does not, is an error.
Upgradable(m, schema) == m.new \cap schema = {} /\ m.gone \subseteq schema
Upgraded(m, schema) == (schema \cup m.new \cup m.added) \ m.gone
Downgraded(m, schema) == (schema \ m.undo) \cup m.back

SchemaAt[n \in 0 .. HeadRevision] ==
    IF n = 0 THEN {} ELSE Upgraded(Revisions[n], SchemaAt[n - 1])
SchemaBelow(n, from, schema) ==   \* after downgrading from `from' to n
    LET down[k \in n .. from] ==
            IF k = from THEN schema ELSE Downgraded(Revisions[k + 1], down[k + 1])
    IN  down[n]

(***************************************************************************)
(* The instances                                                           *)
(***************************************************************************)
VARIABLES
    db,      \* what is committed: alembic_version and the schema
    draft,   \* the transaction of each instance, begun from version `from'
    pc,      \* "down", "upgrading" or "serving"
    crashes, downgrades

vars == <<db, draft, pc, crashes, downgrades>>

NoDraft == [from |-> 0, at |-> 0, schema |-> {}]

Init ==
    /\ \E n \in Deployed : db = [at |-> n, schema |-> SchemaAt[n]]
    /\ draft = [i \in Instances |-> NoDraft]
    /\ pc = [i \in Instances |-> "down"]
    /\ crashes = 0 /\ downgrades = 0

Goto(i, step) == pc' = [pc EXCEPT ![i] = step]
Drop(i) == draft' = [draft EXCEPT ![i] = NoDraft]

\* Alembic reads alembic_version and plans the revisions from there to head.
PlanFromBase(i) == [from |-> 0, at |-> 0, schema |-> db.schema]
PlanFrom(i) == [from |-> db.at, at |-> db.at, schema |-> db.schema]

run_async_migrations(i) ==
    /\ pc[i] = "down"
    /\ draft' = [draft EXCEPT ![i] = PlanFrom(i)]
    /\ Goto(i, "upgrading")
    /\ UNCHANGED <<db, crashes, downgrades>>

\* The first statement of an upgrade creates or updates what another instance
\* has created or updated, and waits for its transaction to end.
Writes(j) == draft[j].at # draft[j].from
Waits(i) == \E j \in Instances \ {i} : Writes(j)

\* The revisions run in one transaction.  A plan made from a version that has
\* meanwhile changed fails: its names exist already, or alembic finds no row
\* with the version it expects.
run_migrations(i) ==
    /\ pc[i] = "upgrading"
    /\ draft[i].at < HeadRevision
    /\ ~Waits(i)
    /\ draft[i].from = db.at
    /\ Upgradable(Revisions[draft[i].at + 1], draft[i].schema)
    /\ draft' = [draft EXCEPT
           ![i].at = @ + 1,
           ![i].schema = Upgraded(Revisions[draft[i].at + 1], @)]
    /\ UNCHANGED <<db, pc, crashes, downgrades>>

ContinueAnyway(i) == Goto(i, "serving")
Exit(i) == Goto(i, "down")

\* An error of alembic ends the entrypoint (set -e) and so the container, and
\* docker starts it again (restart: unless-stopped).
upgrade_fails(i) ==
    /\ pc[i] = "upgrading"
    /\ draft[i].at < HeadRevision
    /\ ~Waits(i)
    /\ \/ draft[i].from # db.at
       \/ ~Upgradable(Revisions[draft[i].at + 1], draft[i].schema)
    /\ Drop(i)
    /\ Exit(i)
    /\ UNCHANGED <<db, crashes, downgrades>>

\* The transaction commits at head, and the entrypoint starts the application.
AnyTarget(i) == TRUE
AtTarget(i) == draft[i].at = HeadRevision

start_application(i) ==
    /\ pc[i] = "upgrading"
    /\ AtTarget(i)
    /\ db' = IF Writes(i) THEN [at |-> draft[i].at, schema |-> draft[i].schema] ELSE db
    /\ Drop(i)
    /\ Goto(i, "serving")
    /\ UNCHANGED <<crashes, downgrades>>

crash(i) ==
    /\ crashes < MaxCrashes
    /\ pc[i] # "down"
    /\ crashes' = crashes + 1
    /\ Drop(i)
    /\ Goto(i, "down")
    /\ UNCHANGED <<db, downgrades>>

\* The operator stops the API and downgrades the database.
downgrade ==
    /\ downgrades < MaxDowngrades
    /\ downgrades' = downgrades + 1
    /\ \E n \in 0 .. db.at - 1 :
        db' = [at |-> n, schema |-> SchemaBelow(n, db.at, db.schema)]
    /\ pc' = [i \in Instances |-> "down"]
    /\ draft' = [i \in Instances |-> NoDraft]
    /\ UNCHANGED crashes

Start(i) ==
    run_async_migrations(i) \/ run_migrations(i) \/ upgrade_fails(i) \/ start_application(i)

Next ==
    \/ \E i \in Instances : Start(i) \/ crash(i)
    \/ downgrade

\* Docker restarts what has ended, and alembic goes on.
Spec == Init /\ [][Next]_vars /\ \A i \in Instances : WF_vars(Start(i))

(***************************************************************************)
(* Properties                                                              *)
(***************************************************************************)
\* An instance serves only what its models declare: the revisions add up to
\* Base.metadata, but for the label TRANSFER_IN, which the revision spells
\* transfer_in; and where they do not, after a downgrade, no instance serves.
ServesTheModels ==
    \A i \in Instances : pc[i] = "serving" =>
        db.schema \ {"transfer_in"} = Metadata \ {"TRANSFER_IN"}

\* Whatever instances start together or die in the middle, the database goes
\* from the revision it was deployed at to head in one step: but for an
\* operator's downgrade, no instance ever sees, or leaves, half an upgrade.
UpgradeIsAtomic ==
    [][db' # db /\ downgrades' = downgrades =>
        /\ db.at # HeadRevision
        /\ db' = [at |-> HeadRevision, schema |-> SchemaAt[HeadRevision]]]_vars

\* Every instance comes to serve: it may lose the race to upgrade and fail,
\* but then it starts again from what the winner has committed.  A database
\* that was downgraded may never come up again.
EveryInstanceServes ==
    \A i \in Instances : []<>(pc[i] = "serving" \/ downgrades > 0)

==============================================================================
