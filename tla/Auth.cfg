SPECIFICATION AuthFairSpec
CONSTANTS
    r1 = r1
    r2 = r2
    r3 = r3
    d1 = d1
    m1 = m1
    Members <- MCMembers
    None = None
    Requests = {r1, r2, r3}
    Accounts <- MCAccounts
    Devices = {d1}
INVARIANTS
    AuthTypeOK
    AuthInv
    RegisteredOwnsEmail
    WalletForEveryUser
PROPERTIES
    DeviceKeepsUser
    AuthAnswered
    AuthImplementsDirectory
