-------------------------- MODULE MigrationProofs ---------------------------
(***************************************************************************)
(* The revisions applied by racing containers, proved for any number of    *)
(* instances, crashes and downgrades.                                      *)
(*                                                                         *)
(* A downgrade leaves names behind that no downgrade() drops: the enums    *)
(* that drop_table does not name and the label that cannot be taken back.  *)
(* So the schema at a version is not a function of the version, but it     *)
(* lies between what the upgrades alone give and that plus these leftovers.*)
(* At head the two bounds meet.                                            *)
(***************************************************************************)
EXTENDS Migrations, WellFoundedInduction, TLAPS

\* What no downgrade() takes back: the enum types of transactions, and the label
\* that was added to one.
Leftovers == transaction_enums \cup {"transfer_in"}

\* A schema at version n has what upgrades to n give, and no more than leftovers.
Between(n, schema) ==
    /\ SchemaAt[n] \subseteq schema
    /\ schema \subseteq SchemaAt[n] \cup Leftovers

(***************************************************************************)
(* What the revisions add up to                                            *)
(***************************************************************************)

\* There are ten revisions.
LEMMA TenRevisions == HeadRevision = 10 /\ \A n \in 1 .. 10 : n \in DOMAIN Revisions
BY DEF HeadRevision, Revisions

\* Each of the revisions, by its number.
LEMMA RevisionAt ==
    /\ Revisions[1] = users_and_accounts /\ Revisions[2] = refresh_tokens
    /\ Revisions[3] = Empty /\ Revisions[4] = Empty
    /\ Revisions[5] = idempotency_keys /\ Revisions[6] = transactions_with_enums
    /\ Revisions[7] = related_account /\ Revisions[8] = transfer_in
    /\ Revisions[9] = webhook_events /\ Revisions[10] = error_message
BY DEF Revisions

\* The names there are after n revisions: those that one of them gives and
\* none after it drops.
ClosedSchemaAt ==
    [n \in 0 .. HeadRevision |->
        {x \in UNION {Revisions[k].new \cup Revisions[k].added : k \in 1 .. n} :
            \E k \in 1 .. n : /\ x \in Revisions[k].new \cup Revisions[k].added
                              /\ \A l \in k .. n : x \notin Revisions[l].gone}]

\* The equation by which the schema after n revisions is defined has a solution.
LEMMA SchemaAtIsDefined ==
    SchemaAt = [n \in 0 .. HeadRevision |->
                   IF n = 0 THEN {} ELSE Upgraded(Revisions[n], SchemaAt[n - 1])]
<1> DEFINE F(f) == [n \in 0 .. HeadRevision |->
                       IF n = 0 THEN {} ELSE Upgraded(Revisions[n], f[n - 1])]
<1>1. ASSUME NEW n \in 0 .. HeadRevision
      PROVE  ClosedSchemaAt[n] =
               IF n = 0 THEN {} ELSE Upgraded(Revisions[n], ClosedSchemaAt[n - 1])
  <2>1. HeadRevision = 10
    BY TenRevisions
  <2>2. CASE n = 0
    BY <2>1, <2>2 DEF ClosedSchemaAt
  <2>3. CASE n # 0
    <3>1. n - 1 \in 0 .. HeadRevision /\ n \in 1 .. n /\ 1 .. n = (1 .. n - 1) \cup {n}
      BY <2>1, <2>3
    <3>2. ASSUME NEW x, x \in ClosedSchemaAt[n]
          PROVE  x \in Upgraded(Revisions[n], ClosedSchemaAt[n - 1])
      <4>1. PICK k \in 1 .. n : /\ x \in Revisions[k].new \cup Revisions[k].added
                                /\ \A l \in k .. n : x \notin Revisions[l].gone
        BY <3>2 DEF ClosedSchemaAt
      <4>2. x \notin Revisions[n].gone
        BY <4>1
      <4>3. CASE k = n
        BY <4>1, <4>2, <4>3 DEF Upgraded
      <4>4. CASE k # n
        <5>1. k \in 1 .. n - 1 /\ \A l \in k .. n - 1 : l \in k .. n
          BY <2>1, <4>4
        <5>2. x \in ClosedSchemaAt[n - 1]
          BY <3>1, <4>1, <5>1 DEF ClosedSchemaAt
        <5> QED BY <4>2, <5>2 DEF Upgraded
      <4> QED BY <4>3, <4>4
    <3>3. ASSUME NEW x, x \in Upgraded(Revisions[n], ClosedSchemaAt[n - 1])
          PROVE  x \in ClosedSchemaAt[n]
      <4>1. x \notin Revisions[n].gone
        BY <3>3 DEF Upgraded
      <4>2. CASE x \in Revisions[n].new \cup Revisions[n].added
        <5>1. \A l \in n .. n : l = n
          BY <2>1
        <5> QED BY <3>1, <4>1, <4>2, <5>1 DEF ClosedSchemaAt
      <4>3. CASE x \in ClosedSchemaAt[n - 1]
        <5>1. PICK k \in 1 .. n - 1 : /\ x \in Revisions[k].new \cup Revisions[k].added
                                      /\ \A l \in k .. n - 1 : x \notin Revisions[l].gone
          BY <3>1, <4>3 DEF ClosedSchemaAt
        <5>2. k \in 1 .. n /\ \A l \in k .. n : l = n \/ l \in k .. n - 1
          BY <2>1
        <5>3. \A l \in k .. n : x \notin Revisions[l].gone
          BY <4>1, <5>1, <5>2
        <5> QED BY <5>1, <5>2, <5>3 DEF ClosedSchemaAt
      <4> QED BY <3>3, <4>2, <4>3 DEF Upgraded
    <3> QED BY <2>3, <3>2, <3>3
  <2> QED BY <2>2, <2>3
<1>2. ClosedSchemaAt = F(ClosedSchemaAt)
  BY <1>1 DEF ClosedSchemaAt
<1>3. SchemaAt = CHOOSE f : f = F(f)
  BY DEF SchemaAt
<1> HIDE DEF F
<1>4. SchemaAt = F(SchemaAt)
  BY <1>2, <1>3
<1> QED BY <1>4 DEF F

\* One revision after another.
LEMMA SchemaAfter ==
    /\ SchemaAt[0] = {}
    /\ \A n \in 0 .. 9 : SchemaAt[n + 1] = Upgraded(Revisions[n + 1], SchemaAt[n])
<1>1. HeadRevision = 10
  BY TenRevisions
<1>2. \A n \in 0 .. 10 :
        SchemaAt[n] = IF n = 0 THEN {} ELSE Upgraded(Revisions[n], SchemaAt[n - 1])
  BY <1>1, SchemaAtIsDefined
<1>3. ASSUME NEW n \in 0 .. 9
      PROVE  SchemaAt[n + 1] = Upgraded(Revisions[n + 1], SchemaAt[n])
  <2>1. n + 1 \in 0 .. 10 /\ n + 1 # 0 /\ (n + 1) - 1 = n
    OBVIOUS
  <2> QED BY <1>2, <2>1
<1> QED BY <1>2, <1>3

\* The parts of a revision that creates names and drops them again.
LEMMA PartsOfCreates ==
    ASSUME NEW names
    PROVE  /\ Creates(names).new = names /\ Creates(names).undo = names
           /\ Creates(names).added = {}
           /\ Creates(names).gone = {} /\ Creates(names).back = {}
BY DEF Creates, Empty

\* The parts of the other revisions.
LEMMA PartsOfTheOthers ==
    /\ /\ Empty.new = {} /\ Empty.undo = {} /\ Empty.added = {}
       /\ Empty.gone = {} /\ Empty.back = {}
    /\ /\ transactions_with_enums.new = transactions_table \cup transaction_enums
       /\ transactions_with_enums.undo = transactions_table
       /\ transactions_with_enums.added = {}
       /\ transactions_with_enums.gone = {} /\ transactions_with_enums.back = {}
    /\ /\ related_account.new = {"related_account_id", "fk_transactions_related_account_id"}
       /\ related_account.undo = related_account.new
       /\ related_account.added = {}
       /\ related_account.gone = {"merchant_name"} /\ related_account.back = {"merchant_name"}
    /\ /\ transfer_in.new = {} /\ transfer_in.undo = {}
       /\ transfer_in.added = {"transfer_in"}
       /\ transfer_in.gone = {} /\ transfer_in.back = {}
<1>1. Empty.new = {} /\ Empty.undo = {} /\ Empty.added = {} /\ Empty.gone = {} /\ Empty.back = {}
  BY DEF Empty
<1>2. /\ transactions_with_enums.new = transactions_table \cup transaction_enums
      /\ transactions_with_enums.undo = transactions_table
      /\ transactions_with_enums.added = {}
      /\ transactions_with_enums.gone = {} /\ transactions_with_enums.back = {}
  BY DEF transactions_with_enums, Empty
<1>3. /\ related_account.new = {"related_account_id", "fk_transactions_related_account_id"}
      /\ related_account.undo = related_account.new
      /\ related_account.added = {}
      /\ related_account.gone = {"merchant_name"} /\ related_account.back = {"merchant_name"}
  BY DEF related_account, Creates, Empty
<1>4. /\ transfer_in.new = {} /\ transfer_in.undo = {}
      /\ transfer_in.added = {"transfer_in"}
      /\ transfer_in.gone = {} /\ transfer_in.back = {}
  BY DEF transfer_in, Empty
<1> QED BY <1>1, <1>2, <1>3, <1>4

\* What the revisions amount to, one after another.
LEMMA EarlySchemas ==
    /\ SchemaAt[1] = users_and_accounts.new
    /\ SchemaAt[2] = SchemaAt[1] \cup refresh_tokens.new
    /\ SchemaAt[3] = SchemaAt[2] /\ SchemaAt[4] = SchemaAt[2]
    /\ SchemaAt[5] = SchemaAt[2] \cup idempotency_keys.new
    /\ SchemaAt[6] = SchemaAt[5] \cup transactions_with_enums.new
    /\ SchemaAt[7] = (SchemaAt[6] \cup related_account.new) \ {"merchant_name"}
    /\ SchemaAt[8] = SchemaAt[7] \cup {"transfer_in"}
    /\ SchemaAt[9] = SchemaAt[8] \cup webhook_events.new
    /\ SchemaAt[10] = SchemaAt[9] \cup error_message.new
<1>1. ASSUME NEW n \in 0 .. 9
      PROVE  SchemaAt[n + 1] =
               (SchemaAt[n] \cup Revisions[n + 1].new \cup Revisions[n + 1].added)
                 \ Revisions[n + 1].gone
  BY SchemaAfter DEF Upgraded
<1>2. SchemaAt[0 + 1] = users_and_accounts.new
  <2>1. SchemaAt[0] = {} /\ 0 \in 0 .. 9 /\ Revisions[0 + 1] = users_and_accounts
    BY SchemaAfter, RevisionAt
  <2>2. users_and_accounts.added = {} /\ users_and_accounts.gone = {}
    BY PartsOfCreates DEF users_and_accounts
  <2> QED BY <1>1, <2>1, <2>2
<1>3. SchemaAt[1 + 1] = SchemaAt[1] \cup refresh_tokens.new
  BY <1>1, RevisionAt, PartsOfCreates DEF refresh_tokens
<1>4. SchemaAt[2 + 1] = SchemaAt[2]
  <2>1. 2 \in 0 .. 9 /\ Revisions[2 + 1] = Empty
    BY RevisionAt
  <2>2. Empty.new = {} /\ Empty.added = {} /\ Empty.gone = {}
    BY PartsOfTheOthers
  <2> QED BY <1>1, <2>1, <2>2
<1>5. SchemaAt[3 + 1] = SchemaAt[3]
  <2>1. 3 \in 0 .. 9 /\ Revisions[3 + 1] = Empty
    BY RevisionAt
  <2>2. Empty.new = {} /\ Empty.added = {} /\ Empty.gone = {}
    BY PartsOfTheOthers
  <2> QED BY <1>1, <2>1, <2>2
<1>6. SchemaAt[4 + 1] = SchemaAt[4] \cup idempotency_keys.new
  BY <1>1, RevisionAt, PartsOfCreates DEF idempotency_keys
<1>7. SchemaAt[5 + 1] = SchemaAt[5] \cup transactions_with_enums.new
  BY <1>1, RevisionAt, PartsOfTheOthers
<1>8. SchemaAt[6 + 1] = (SchemaAt[6] \cup related_account.new) \ {"merchant_name"}
  BY <1>1, RevisionAt, PartsOfTheOthers
<1>9. SchemaAt[7 + 1] = SchemaAt[7] \cup {"transfer_in"}
  <2>1. "transfer_in" # "merchant_name"
    OBVIOUS
  <2> QED BY <1>1, RevisionAt, PartsOfTheOthers
<1>10. SchemaAt[8 + 1] = SchemaAt[8] \cup webhook_events.new
  BY <1>1, RevisionAt, PartsOfCreates DEF webhook_events
<1>11. SchemaAt[9 + 1] = SchemaAt[9] \cup error_message.new
  BY <1>1, RevisionAt, PartsOfCreates DEF error_message
<1> QED BY <1>2, <1>3, <1>4, <1>5, <1>6, <1>7, <1>8, <1>9, <1>10, <1>11

\* The same, name by name.
LEMMA NewNames ==
    /\ users_and_accounts.new =
         {"users", "ix_users_email", "accounts", "uq_accounts_account_number",
          "uq_accounts_user_id", "fk_accounts_user_id"}
    /\ refresh_tokens.new =
         {"refresh_tokens", "ix_refresh_tokens_token_hash",
          "ix_refresh_tokens_user_id", "fk_refresh_tokens_user_id"}
    /\ idempotency_keys.new =
         {"idempotency_keys", "uq_idempotency_keys_user_key_endpoint",
          "fk_idempotency_keys_user_id"}
    /\ transactions_with_enums.new = transactions_table \cup transaction_enums
    /\ related_account.new = {"related_account_id", "fk_transactions_related_account_id"}
    /\ webhook_events.new = {"webhook_events", "ix_webhook_events_event_id"}
    /\ error_message.new = {"error_message"}
BY PartsOfCreates, PartsOfTheOthers
   DEF users_and_accounts, refresh_tokens, idempotency_keys, webhook_events, error_message

\* What a revision takes back it has given, and what it gives back was there;
\* what it has given and does not take back is a leftover.
Reverts(n) ==
    /\ SchemaAt[n] \cap Revisions[n + 1].undo = {}
    /\ Revisions[n + 1].back \subseteq SchemaAt[n]
    /\ Revisions[n + 1].gone \subseteq Revisions[n + 1].back
    /\ Revisions[n + 1].new \cup Revisions[n + 1].added
         \subseteq Revisions[n + 1].undo \cup Leftovers

\* Every downgrade() reverts the upgrade() of its revision in that sense.
LEMMA EveryRevisionReverts == \A n \in 0 .. 9 : Reverts(n)
<1>1. Reverts(0)
  BY SchemaAfter, RevisionAt, PartsOfCreates DEF Reverts, users_and_accounts
<1>2. Reverts(1)
  BY EarlySchemas, NewNames, RevisionAt, PartsOfCreates DEF Reverts, refresh_tokens
<1>3. Reverts(2)
  BY RevisionAt, PartsOfTheOthers DEF Reverts
<1>4. Reverts(3)
  BY RevisionAt, PartsOfTheOthers DEF Reverts
<1>5. Reverts(4)
  BY EarlySchemas, NewNames, RevisionAt, PartsOfCreates DEF Reverts, idempotency_keys
<1>6. Reverts(5)
  BY EarlySchemas, NewNames, RevisionAt, PartsOfTheOthers
     DEF Reverts, Leftovers, transactions_table
<1>7. Reverts(6)
  BY EarlySchemas, NewNames, RevisionAt, PartsOfTheOthers
     DEF Reverts, transactions_table, transaction_enums
<1>8. Reverts(7)
  BY RevisionAt, PartsOfTheOthers DEF Reverts, Leftovers
<1>9. Reverts(8)
  BY EarlySchemas, NewNames, RevisionAt, PartsOfCreates
     DEF Reverts, webhook_events, transactions_table, transaction_enums
<1>10. Reverts(9)
  BY EarlySchemas, NewNames, RevisionAt, PartsOfCreates
     DEF Reverts, error_message, transactions_table, transaction_enums
<1> QED BY <1>1, <1>2, <1>3, <1>4, <1>5, <1>6, <1>7, <1>8, <1>9, <1>10

\* The leftovers are all part of the schema at head.
LEMMA LeftoversAreInHead == Leftovers \subseteq SchemaAt[10]
BY EarlySchemas, NewNames DEF Leftovers, transactions_table, transaction_enums

\* The revisions add up to what the models declare, but for one label.
LEMMA HeadIsMetadata == SchemaAt[10] \ {"transfer_in"} = Metadata \ {"TRANSFER_IN"}
BY EarlySchemas, NewNames DEF Metadata, transactions_table, transaction_enums

(***************************************************************************)
(* Up and down                                                             *)
(***************************************************************************)
\* An upgrade keeps a schema between its bounds.
LEMMA UpgradeKeepsBetween ==
    ASSUME NEW n \in 0 .. 9, NEW schema, Between(n, schema)
    PROVE  Between(n + 1, Upgraded(Revisions[n + 1], schema))
<1>1. SchemaAt[n + 1] = Upgraded(Revisions[n + 1], SchemaAt[n])
  BY SchemaAfter
<1> QED BY <1>1 DEF Between, Upgraded

\* So does a downgrade by one revision.
LEMMA DowngradeKeepsBetween ==
    ASSUME NEW n \in 0 .. 9, NEW schema, Between(n + 1, schema)
    PROVE  Between(n, Downgraded(Revisions[n + 1], schema))
<1>1. SchemaAt[n + 1] = Upgraded(Revisions[n + 1], SchemaAt[n])
  BY SchemaAfter
<1>2. Reverts(n)
  BY EveryRevisionReverts
<1> QED BY <1>1, <1>2 DEF Between, Upgraded, Downgraded, Reverts

(***************************************************************************)
(* Down to a version, one revision after another                           *)
(***************************************************************************)
\* The names left at k on the way down from `from': those that were in the
\* schema, or that one of the downgrades gave back, and that none after dropped.
ClosedSchemaBelow(n, from, schema) ==
    [k \in n .. from |->
        {x \in schema \cup UNION {Revisions[l].back : l \in n + 1 .. from} :
            \/ x \in schema /\ \A m \in k + 1 .. from : x \notin Revisions[m].undo
            \/ \E l \in k + 1 .. from :
                /\ x \in Revisions[l].back
                /\ \A m \in k + 1 .. l - 1 : x \notin Revisions[m].undo}]

\* The schema at each version from `from' down to n.
IsWayDown(down, n, from, schema) ==
    down = [k \in n .. from |->
              IF k = from THEN schema ELSE Downgraded(Revisions[k + 1], down[k + 1])]

\* The equation by which SchemaBelow is defined has a solution.
LEMMA SchemaBelowIsDefined ==
    ASSUME NEW from \in 0 .. 10, NEW n \in 0 .. from, NEW schema
    PROVE  \E down : IsWayDown(down, n, from, schema)
                     /\ SchemaBelow(n, from, schema) = down[n]
<1> DEFINE F(f) == [k \in n .. from |->
                       IF k = from THEN schema ELSE Downgraded(Revisions[k + 1], f[k + 1])]
           C == ClosedSchemaBelow(n, from, schema)
<1>1. ASSUME NEW k \in n .. from
      PROVE  C[k] = IF k = from THEN schema ELSE Downgraded(Revisions[k + 1], C[k + 1])
  <2>1. CASE k = from
    <3>1. k + 1 .. from = {}
      BY <2>1
    <3> QED BY <2>1, <3>1 DEF ClosedSchemaBelow
  <2>2. CASE k # from
    <3>1. /\ k + 1 \in n .. from /\ k + 1 \in n + 1 .. from /\ k + 1 \in k + 1 .. from
          /\ k + 1 .. from = {k + 1} \cup (k + 2 .. from)
          /\ (k + 1) + 1 = k + 2
          /\ k + 1 .. (k + 1) - 1 = {}
          /\ \A l \in k + 2 .. from : k + 1 .. l - 1 = {k + 1} \cup (k + 2 .. l - 1)
      BY <2>2
    <3>2. ASSUME NEW x, x \in C[k]
          PROVE  x \in Downgraded(Revisions[k + 1], C[k + 1])
      <4>1. CASE x \in schema /\ \A m \in k + 1 .. from : x \notin Revisions[m].undo
        BY <3>1, <4>1 DEF ClosedSchemaBelow, Downgraded
      <4>2. CASE \E l \in k + 1 .. from :
                    /\ x \in Revisions[l].back
                    /\ \A m \in k + 1 .. l - 1 : x \notin Revisions[m].undo
        <5>1. PICK l \in k + 1 .. from :
                    /\ x \in Revisions[l].back
                    /\ \A m \in k + 1 .. l - 1 : x \notin Revisions[m].undo
          BY <4>2
        <5>2. CASE l = k + 1
          BY <5>1, <5>2 DEF Downgraded
        <5>3. CASE l # k + 1
          <6>1. l \in k + 2 .. from
            BY <3>1, <5>3
          <6>2. x \notin Revisions[k + 1].undo
            BY <3>1, <5>1, <6>1
          <6>3. x \in C[k + 1]
            <7>1. l \in n + 1 .. from
              BY <6>1
            <7> QED BY <3>1, <5>1, <6>1, <7>1 DEF ClosedSchemaBelow
          <6> QED BY <6>2, <6>3 DEF Downgraded
        <5> QED BY <5>2, <5>3
      <4> QED BY <3>2, <4>1, <4>2 DEF ClosedSchemaBelow
    <3>3. ASSUME NEW x, x \in Downgraded(Revisions[k + 1], C[k + 1])
          PROVE  x \in C[k]
      <4>1. CASE x \in Revisions[k + 1].back
        BY <3>1, <4>1 DEF ClosedSchemaBelow
      <4>2. CASE x \in C[k + 1] /\ x \notin Revisions[k + 1].undo
        BY <3>1, <4>2 DEF ClosedSchemaBelow
      <4> QED BY <3>3, <4>1, <4>2 DEF Downgraded
    <3> HIDE DEF C
    <3> QED BY <2>2, <3>2, <3>3
  <2> QED BY <2>1, <2>2
<1>2. C = F(C)
  BY <1>1 DEF ClosedSchemaBelow
<1> DEFINE D == CHOOSE f : f = F(f)
<1>3. SchemaBelow(n, from, schema) = D[n]
  BY DEF SchemaBelow
<1>4. D = F(D)
  <2> HIDE DEF F, C
  <2> QED BY <1>2
<1>5. IsWayDown(D, n, from, schema)
  <2> HIDE DEF D
  <2> QED BY <1>4 DEF IsWayDown
<1> QED BY <1>3, <1>5

\* However far down, the schema stays between its bounds.
LEMMA DowngradesKeepBetween ==
    ASSUME NEW from \in 0 .. 10, NEW n \in 0 .. from, NEW schema, Between(from, schema)
    PROVE  Between(n, SchemaBelow(n, from, schema))
<1>1. PICK down : IsWayDown(down, n, from, schema)
                  /\ SchemaBelow(n, from, schema) = down[n]
  BY SchemaBelowIsDefined
<1>2. ASSUME NEW k \in n .. from
      PROVE  down[k] = IF k = from THEN schema ELSE Downgraded(Revisions[k + 1], down[k + 1])
  BY <1>1 DEF IsWayDown
<1> DEFINE Fails == {d \in Nat : d <= from - n /\ ~Between(from - d, down[from - d])}
<1>3. Fails = {}
  <2> SUFFICES ASSUME Fails # {} PROVE FALSE
    OBVIOUS
  <2>1. PICK d \in Fails : \A e \in Fails : ~(<<e, d>> \in OpToRel(<, Nat))
    <3>1. Fails \subseteq Nat
      OBVIOUS
    <3> QED BY <3>1, WFMin, NatLessThanWellFounded
  <2>2. \A e \in Nat : e < d => e \notin Fails
    BY <2>1 DEF OpToRel
  <2>3. CASE d = 0
    BY <1>2, <2>3
  <2>4. CASE d # 0
    <3>0. d \in Nat /\ d <= from - n /\ ~Between(from - d, down[from - d])
      BY <2>1
    <3>1. /\ d - 1 \in Nat /\ d - 1 < d /\ d - 1 <= from - n
          /\ from - d \in n .. from /\ from - d \in 0 .. 9 /\ from - d # from
          /\ (from - d) + 1 = from - (d - 1)
      BY <3>0, <2>4
    <3>2. Between((from - d) + 1, down[(from - d) + 1])
      BY <2>2, <3>1
    <3>3. down[from - d] = Downgraded(Revisions[(from - d) + 1], down[(from - d) + 1])
      BY <1>2, <3>1
    <3>4. Between(from - d, down[from - d])
      BY <3>1, <3>2, <3>3, DowngradeKeepsBetween
    <3> QED BY <2>1, <3>4
  <2> QED BY <2>3, <2>4
<1>4. from - n \in Nat /\ from - (from - n) = n
  OBVIOUS
<1>5. from - n \notin Fails
  BY <1>3
<1> QED BY <1>1, <1>4, <1>5

(***************************************************************************)
(* The invariant                                                           *)
(***************************************************************************)
\* The values of alembic_version.
Versions == 0 .. HeadRevision

\* The draft of an instance was begun no later than at the version that is
\* committed, and exactly there once it has something to commit.
DraftOK(i) ==
    /\ draft[i].from \in Versions /\ draft[i].at \in Versions
    /\ draft[i].from <= draft[i].at
    /\ draft[i].from <= db.at
    /\ Writes(i) => draft[i].from = db.at
    /\ Between(draft[i].at, draft[i].schema)

\* What is committed lies between the bounds of its version; one instance at
\* most has run a revision it has not committed, the others wait for it.
UpgradeInv ==
    /\ db = [at |-> db.at, schema |-> db.schema]
    /\ db.at \in Versions
    /\ Between(db.at, db.schema)
    /\ downgrades \in Nat
    /\ pc \in [Instances -> {"down", "upgrading", "serving"}]
    /\ draft = [i \in Instances |->
                   [from |-> draft[i].from, at |-> draft[i].at, schema |-> draft[i].schema]]
    /\ \A i \in Instances : pc[i] = "upgrading" => DraftOK(i)
    /\ \A i \in Instances : pc[i] # "upgrading" => ~Writes(i)
    /\ \A i \in Instances : pc[i] = "serving" => db.at = HeadRevision
    /\ \A i, j \in Instances : Writes(i) /\ Writes(j) => i = j

\* A step that leaves the database alone and drops a draft or begins one.
LEMMA DraftStep ==
    ASSUME UpgradeInv, NEW i \in Instances, NEW step \in {"down", "upgrading"},
           UNCHANGED <<db, downgrades>>,
           \/ step = "down" /\ Drop(i)
           \/ step = "upgrading" /\ draft' = [draft EXCEPT ![i] = PlanFrom(i)],
           pc' = [pc EXCEPT ![i] = step]
    PROVE  UpgradeInv'
<1> USE TenRevisions DEF UpgradeInv, Versions
<1>1. \A j \in Instances \ {i} : draft'[j] = draft[j] /\ pc'[j] = pc[j]
  BY DEF Drop
<1>2. ~Writes(i)'
  BY DEF Drop, Writes, NoDraft, PlanFrom
<1>3. draft' = [k \in Instances |->
                   [from |-> draft'[k].from, at |-> draft'[k].at, schema |-> draft'[k].schema]]
  BY DEF Drop, NoDraft, PlanFrom
<1>4. step = "upgrading" => DraftOK(i)'
  <2>1. step = "upgrading" =>
          draft'[i].from = db.at /\ draft'[i].at = db.at /\ draft'[i].schema = db.schema
    BY DEF PlanFrom
  <2> QED BY <1>2, <2>1 DEF DraftOK, Between
<1>5. \A j \in Instances \ {i} : /\ Writes(j)' <=> Writes(j)
                                 /\ DraftOK(j) => DraftOK(j)'
  BY <1>1 DEF Writes, DraftOK, Between
<1>6. pc'[i] = step /\ pc' \in [Instances -> {"down", "upgrading", "serving"}]
  OBVIOUS
<1>7. /\ \A j \in Instances : pc'[j] = "upgrading" => DraftOK(j)'
      /\ \A j \in Instances : pc'[j] # "upgrading" => ~Writes(j)'
      /\ \A j \in Instances : pc'[j] = "serving" => db'.at = HeadRevision
      /\ \A j, k \in Instances : Writes(j)' /\ Writes(k)' => j = k
  BY <1>1, <1>2, <1>4, <1>5, <1>6
<1>8. db' = db /\ downgrades' = downgrades /\ Between(db'.at, db'.schema)
  BY DEF Between
<1> QED BY <1>3, <1>6, <1>7, <1>8 DEF Between

\* One revision is applied: only by an instance that waits for no other.
LEMMA RevisionStep ==
    ASSUME UpgradeInv, NEW i \in Instances, run_migrations(i)
    PROVE  UpgradeInv'
<1> USE TenRevisions DEF UpgradeInv, Versions
<1> DEFINE n == draft[i].at
           d == [from |-> draft[i].from, at |-> n + 1,
                 schema |-> Upgraded(Revisions[n + 1], draft[i].schema)]
<1>1. DraftOK(i) /\ n \in 0 .. 9
  BY DEF run_migrations, DraftOK
<1>2. draft'[i] = d /\ draft' = [draft EXCEPT ![i] = d]
  <2>1. draft' = [draft EXCEPT ![i].at = n + 1,
                               ![i].schema = Upgraded(Revisions[n + 1], draft[i].schema)]
    BY DEF run_migrations
  <2>2. draft[i] = [from |-> draft[i].from, at |-> draft[i].at, schema |-> draft[i].schema]
    OBVIOUS
  <2>3. DOMAIN draft = Instances /\ DOMAIN draft[i] = {"from", "at", "schema"}
    BY <2>2
  <2>4. DOMAIN draft' = Instances /\ \A j \in Instances \ {i} : draft'[j] = draft[j]
    BY <2>1, <2>3
  <2>5. draft'[i] = d
    BY <2>1, <2>2
  <2>6. draft' = [j \in Instances |-> IF j = i THEN d ELSE draft[j]]
    <3>1. draft' = [j \in DOMAIN draft' |-> draft'[j]]
      BY <2>1
    <3> QED BY ONLY <2>4, <2>5, <3>1
  <2>7. [draft EXCEPT ![i] = d] = [j \in Instances |-> IF j = i THEN d ELSE draft[j]]
    BY <2>3
  <2> QED BY <2>5, <2>6, <2>7
<1>3. DraftOK(i)'
  <2>1. Between(n + 1, Upgraded(Revisions[n + 1], draft[i].schema))
    BY <1>1, UpgradeKeepsBetween DEF DraftOK
  <2>2. /\ draft'[i].from = draft[i].from /\ draft'[i].at = n + 1
        /\ draft'[i].schema = Upgraded(Revisions[n + 1], draft[i].schema)
    BY <1>2
  <2>3. draft[i].from = db.at /\ db' = db
    BY DEF run_migrations
  <2>4. Between(draft[i].at, draft[i].schema)'
    BY <2>1, <2>2 DEF Between
  <2> QED BY <1>1, <2>2, <2>3, <2>4 DEF DraftOK
<1>4. \A j \in Instances \ {i} :
        /\ draft'[j] = draft[j] /\ pc'[j] = pc[j]
        /\ Writes(j)' <=> Writes(j)
        /\ DraftOK(j) => DraftOK(j)'
  BY <1>2 DEF run_migrations, Writes, DraftOK, Between
<1>5. \A j \in Instances \ {i} : ~Writes(j)
  BY DEF run_migrations, Waits
<1>6. draft' = [k \in Instances |->
                   [from |-> draft'[k].from, at |-> draft'[k].at, schema |-> draft'[k].schema]]
  BY <1>2
<1>7. pc' = pc /\ pc[i] = "upgrading" /\ db' = db /\ downgrades' = downgrades
  BY DEF run_migrations
<1>8. /\ \A j \in Instances : pc'[j] = "upgrading" => DraftOK(j)'
      /\ \A j \in Instances : pc'[j] # "upgrading" => ~Writes(j)'
      /\ \A j, k \in Instances : Writes(j)' /\ Writes(k)' => j = k
  BY <1>3, <1>4, <1>5, <1>7
<1> QED BY <1>6, <1>7, <1>8 DEF Between

\* What an instance commits is all of head, and it was begun at what is committed.
LEMMA CommitsHead ==
    ASSUME UpgradeInv, NEW i \in Instances, start_application(i)
    PROVE  /\ db'.at = HeadRevision
           /\ Writes(i) => /\ db.at # HeadRevision
                           /\ db' = [at |-> HeadRevision, schema |-> SchemaAt[HeadRevision]]
           /\ ~Writes(i) => db' = db
<1> USE TenRevisions DEF UpgradeInv, Versions
<1>1. DraftOK(i) /\ draft[i].at = 10
  BY DEF start_application, AtTarget
<1>2. CASE Writes(i)
  <2>1. db' = [at |-> 10, schema |-> draft[i].schema]
    BY <1>1, <1>2 DEF start_application
  <2>2. draft[i].schema = SchemaAt[10]
    BY <1>1, LeftoversAreInHead DEF DraftOK, Between
  <2> QED BY <1>1, <1>2, <2>1, <2>2 DEF DraftOK, Writes
<1>3. CASE ~Writes(i)
  BY <1>1, <1>3 DEF DraftOK, Writes, start_application
<1> QED BY <1>2, <1>3

\* An instance that has reached head commits, and serves.
LEMMA StartStep ==
    ASSUME UpgradeInv, NEW i \in Instances, start_application(i)
    PROVE  UpgradeInv'
<1> USE TenRevisions DEF UpgradeInv, Versions
<1>1. db'.at = 10 /\ Between(10, db'.schema) /\ db' = [at |-> db'.at, schema |-> db'.schema]
  BY CommitsHead DEF Between
<1>2. draft' = [draft EXCEPT ![i] = NoDraft] /\ pc' = [pc EXCEPT ![i] = "serving"]
  BY DEF start_application, Drop, Goto
<1>3. draft' = [k \in Instances |->
                   [from |-> draft'[k].from, at |-> draft'[k].at, schema |-> draft'[k].schema]]
  BY <1>2 DEF NoDraft
<1>4. pc' \in [Instances -> {"down", "upgrading", "serving"}] /\ pc'[i] = "serving"
  BY <1>2
<1>5. ~Writes(i)'
  BY <1>2 DEF Writes, NoDraft
<1>6. ASSUME NEW j \in Instances \ {i}
      PROVE  /\ pc'[j] = pc[j] /\ (Writes(j)' <=> Writes(j))
             /\ DraftOK(j) => DraftOK(j)'
  <2>1. draft'[j] = draft[j] /\ pc'[j] = pc[j] /\ (Writes(j)' <=> Writes(j))
    BY <1>2 DEF Writes
  <2>2. CASE Writes(i)
    <3>1. ~Writes(j)
      BY <2>2
    <3> QED BY <1>1, <2>1, <3>1 DEF DraftOK, Between
  <2>3. CASE ~Writes(i)
    BY <2>1, <2>3, CommitsHead DEF DraftOK, Between
  <2> QED BY <2>1, <2>2, <2>3
<1>7. downgrades' = downgrades
  BY DEF start_application
<1>8. /\ \A j \in Instances : pc'[j] = "upgrading" => DraftOK(j)'
      /\ \A j \in Instances : pc'[j] # "upgrading" => ~Writes(j)'
      /\ \A j, k \in Instances : Writes(j)' /\ Writes(k)' => j = k
  BY <1>4, <1>5, <1>6
<1> QED BY <1>1, <1>3, <1>4, <1>7, <1>8 DEF Between

\* A downgrade stops every instance.
LEMMA DowngradeStep ==
    ASSUME UpgradeInv, downgrade
    PROVE  UpgradeInv'
<1> USE TenRevisions DEF UpgradeInv, Versions
<1>1. PICK n \in 0 .. db.at - 1 : db' = [at |-> n, schema |-> SchemaBelow(n, db.at, db.schema)]
  BY DEF downgrade
<1>2. Between(n, SchemaBelow(n, db.at, db.schema))
  BY DowngradesKeepBetween
<1>3. db' = [at |-> db'.at, schema |-> db'.schema] /\ db'.at = n /\ Between(n, db'.schema)
  BY <1>1, <1>2
<1>4. /\ pc' = [i \in Instances |-> "down"]
      /\ draft' = [i \in Instances |-> [from |-> 0, at |-> 0, schema |-> {}]]
      /\ downgrades' = downgrades + 1
  BY DEF downgrade, NoDraft
<1>5. \A i \in Instances : pc'[i] = "down" /\ ~Writes(i)'
  BY <1>4 DEF Writes
<1>6. draft' = [k \in Instances |->
                   [from |-> draft'[k].from, at |-> draft'[k].at, schema |-> draft'[k].schema]]
  BY <1>4
<1>7. /\ db'.at \in Versions /\ Between(db'.at, db'.schema)
      /\ downgrades' \in Nat
      /\ pc' \in [Instances -> {"down", "upgrading", "serving"}]
  <2>1. n \in Versions
    OBVIOUS
  <2> QED BY <1>3, <1>4, <2>1 DEF Between
<1> QED BY <1>3, <1>5, <1>6, <1>7 DEF Between

\* A database is deployed at some revision, with every container down.
LEMMA UpgradeInvInit == Init => UpgradeInv
<1> SUFFICES ASSUME Init PROVE UpgradeInv
  OBVIOUS
<1> USE DEF UpgradeInv, Versions
<1>1. PICK n \in Deployed : db = [at |-> n, schema |-> SchemaAt[n]]
  BY DEF Init
<1>2. n \in 0 .. HeadRevision
  BY DeployedAreRevisions
<1> QED BY <1>1, <1>2 DEF Init, NoDraft, Writes, Between

\* Every step of a container that starts, and of an operator, keeps the invariant.
LEMMA UpgradeInvStep == UpgradeInv /\ [Next]_vars => UpgradeInv'
<1> SUFFICES ASSUME UpgradeInv, [Next]_vars PROVE UpgradeInv'
  OBVIOUS
<1>1. ASSUME NEW i \in Instances, run_async_migrations(i) PROVE UpgradeInv'
  BY <1>1, DraftStep DEF run_async_migrations, Goto
<1>2. ASSUME NEW i \in Instances, run_migrations(i) PROVE UpgradeInv'
  BY <1>2, RevisionStep
<1>3. ASSUME NEW i \in Instances, upgrade_fails(i) PROVE UpgradeInv'
  BY <1>3, DraftStep DEF upgrade_fails, Exit, Goto
<1>4. ASSUME NEW i \in Instances, start_application(i) PROVE UpgradeInv'
  BY <1>4, StartStep
<1>5. ASSUME NEW i \in Instances, crash(i) PROVE UpgradeInv'
  BY <1>5, DraftStep DEF crash, Goto
<1>6. CASE downgrade
  BY <1>6, DowngradeStep
<1>7. CASE UNCHANGED vars
  BY <1>7 DEF vars, UpgradeInv, DraftOK, Between, Writes
<1> QED BY <1>1, <1>2, <1>3, <1>4, <1>5, <1>6, <1>7 DEF Next, Start

(***************************************************************************)
(* The theorems                                                            *)
(***************************************************************************)
\* The invariant holds of every instance and database.
THEOREM UpgradeIsInvariant == Spec => []UpgradeInv
BY UpgradeInvInit, UpgradeInvStep, PTL DEF Spec

\* An instance that serves has a schema its models declare, but for the one
\* label: it serves only at head, and at head nothing is left over.
THEOREM ServedSchema == Spec => []ServesTheModels
<1>1. UpgradeInv => ServesTheModels
  <2> SUFFICES ASSUME UpgradeInv, NEW i \in Instances, pc[i] = "serving"
               PROVE  db.schema \ {"transfer_in"} = Metadata \ {"TRANSFER_IN"}
    BY DEF ServesTheModels
  <2>1. db.schema = SchemaAt[10]
    BY TenRevisions, LeftoversAreInHead DEF UpgradeInv, Between
  <2> QED BY <2>1, HeadIsMetadata
<1> QED BY <1>1, UpgradeIsInvariant, PTL

\* The database goes to head in one step, or down by an operator.
THEOREM AtomicUpgrade == Spec => UpgradeIsAtomic
<1>1. UpgradeInv /\ [Next]_vars =>
        [db' # db /\ downgrades' = downgrades =>
            /\ db.at # HeadRevision
            /\ db' = [at |-> HeadRevision, schema |-> SchemaAt[HeadRevision]]]_vars
  <2> SUFFICES ASSUME UpgradeInv, Next, db' # db, downgrades' = downgrades
               PROVE  /\ db.at # HeadRevision
                      /\ db' = [at |-> HeadRevision, schema |-> SchemaAt[HeadRevision]]
    OBVIOUS
  <2>1. ~downgrade
    BY DEF downgrade, UpgradeInv
  <2>2. PICK i \in Instances : Start(i) \/ crash(i)
    BY <2>1 DEF Next
  <2>3. start_application(i)
    BY <2>2 DEF Start, run_async_migrations, run_migrations, upgrade_fails, crash
  <2> QED BY <2>3, CommitsHead
<1> QED BY <1>1, UpgradeIsInvariant, PTL DEF Spec, UpgradeIsAtomic
=============================================================================
