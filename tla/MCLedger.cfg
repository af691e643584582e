SPECIFICATION Spec
CONSTANTS
    alice = alice
    bob = bob
    zero = zero
    Accounts <- MCAccounts
    Zero = zero
    EpochSeconds = 2
    MaxEpoch = 2
    Histories <- MCHistories
    Exclusions <- MCExclusions
INVARIANTS
    TypeOK
    LedgerAgrees
    IntegralExact
    RefusalJustified
