CONSTANTS
    Addr = {a1, a2, a3}
    Val = {0, 1}
    MaxLogEntries = 2
    InitVal = 0
SPECIFICATION Spec
INVARIANTS TypeOK CommitDurable LogInv
PROPERTY ImplementsDurableTx
