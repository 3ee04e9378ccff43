CONSTANTS
    RunA = RunA
    RunB = RunB
    Tables = {1, 2}
    Selected = {1, 2}
    LastKey = 2
    Values = {row, bad}
    Unreadable = {bad}
    Bootstraps = {RunA, RunB, RunC}
    ClientOf <- Clients
    BatchSize = 1
    MaxChanges = 1
SPECIFICATION Spec
SYMMETRY Symmetry
CHECK_DEADLOCK FALSE
INVARIANTS BootstrapInv QuietBootstrapExact InsertionNeverSkips
