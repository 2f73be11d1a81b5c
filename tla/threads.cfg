CONSTANTS
    Timeslice = 1
    FibArgs <- MCFibArgs
    FactArgs <- MCFactArgs
    BankArgs <- MCBankArgs
    IntMax = 1023
SPECIFICATION FairSpec
INVARIANTS TypeOK SignalsBlocked QueuesExact OwnerCanRun LockProtects Solvent TimerAlive Results
PROPERTY AllFinish
