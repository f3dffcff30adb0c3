SPECIFICATION Spec
CONSTANTS
    there = there
    back = back
    deposit = deposit
    notice = notice
    job = job
    balance = balance
    Sessions = {there, back, deposit, notice, job}
    Plan <- Handlers
    Recovering = {notice}
    PoolSize = 2
INVARIANT NoSessionIsStuck
PROPERTY EverySessionEnds
CHECK_DEADLOCK FALSE
