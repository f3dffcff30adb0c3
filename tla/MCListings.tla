----------------------------- MODULE MCListings -----------------------------
(***************************************************************************)
(* An instance of Listings for TLC: the account of an administrator and of *)
(* a customer, three transactions.                                  *)
(***************************************************************************)
EXTENDS Listings

CONSTANTS admin, customer, t1, t2, t3

BothAccounts == {admin, customer}
OnlyAdmin == {admin}
ThreeTransactions == {t1, t2, t3}
TwoOfTheCustomer == t1 :> customer @@ t2 :> customer @@ t3 :> admin
\* The customer's transactions are alike.
TransactionSymmetry == Permutations({t1, t2})
=============================================================================
