\* Nothing fails: charging, scans, receipts and mining in any order.
SPECIFICATION FairSpec
CONSTANTS
    w1 = w1
    w2 = w2
    s1 = s1
    s2 = s2
    Wallets <- MCWallets
    Slots <- MCSlots
    MaxDebt = 2
    MaxMail = 3
    PermanentDebtAllowed = 0
    Circumstances <- FairScenes
INVARIANTS
    DebtsPaidOnce
PROPERTIES
    ConfirmationCreditsItsPayee
    ScansEnd
\* Every bound is reached at last: nothing is left to charge, to pay or to restart.
CHECK_DEADLOCK FALSE
