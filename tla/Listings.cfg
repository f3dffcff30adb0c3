SPECIFICATION Spec
CONSTANTS
    admin = admin
    customer = customer
    t1 = t1
    t2 = t2
    t3 = t3
    AccountRows <- BothAccounts
    TransactionRows <- ThreeTransactions
    AccountOf <- TwoOfTheCustomer
    Admins <- OnlyAdmin
    Limits = {1, 2, 3}
    MaxLimit = 2
    MaxTime = 2
INVARIANTS NoRowIsSkipped RepeatsAreArrivals
SYMMETRY TransactionSymmetry
CHECK_DEADLOCK FALSE
