\* Two requests, two accounts, two wallets: enough to swap names and wallets.
\* No symmetry: AccountsEnd is a liveness property.
CONSTANTS
    Workers = {w1, w2}
    Ids = {u1, u2}
    Names <- MCNames
    Wallets = {x1, x2}
    Fold <- MCFold
    None = None
SPECIFICATION FairSpec
INVARIANTS
    TypeOK
PROPERTIES
    IsDirectory
    ConfirmedByName
    AccountsEnd
