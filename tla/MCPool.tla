------------------------------- MODULE MCPool -------------------------------
(***************************************************************************)
(* An instance of Pool for TLC: two opposite payments, a deposit, a notice *)
(* about an earlier payment, and the job that purges their keys.           *)
(***************************************************************************)
EXTENDS Pool, TLC

CONSTANTS there, back, deposit, notice, job, balance

Handlers ==
    there   :> create_payment("a", "b", "k1") @@
    back    :> create_payment("b", "a", "k2") @@
    deposit :> create_deposit("a") @@
    notice  :> payment_confirmation("e1", "p", "b", "a") @@
    job     :> run_cleanup_job("k0", "e0", "p", "a") @@
    balance :> get_my_balance
=============================================================================
