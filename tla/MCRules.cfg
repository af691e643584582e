SPECIFICATION Spec
CONSTANTS
    Accounts <- MCAccounts
    DevWallet <- MCDev
    Tokens <- MCTokens
    End <- MCEnd
    Holdings <- MCHoldings
    Fundings <- MCFundings
    LeafHash <- MCLeafHash
    Keccak <- MCKeccak
    Less <- MCLess
INVARIANTS
    TypeOK
    Conserves
    HoldingPays
    ProofsVerify
