\* Exit-tunnel billing across recreations and failed Watches.
CONSTANTS
    Width = 3
    MaxBytes = 4
    DebtValues <- MC_DebtValues
    MaxQueries = 2
    KernelFaults = TRUE
SPECIFICATION Spec
INVARIANT TypeOK NeverOverbilled
