SPECIFICATION MobileSpec
CONSTANTS
    aman = aman
    cafe = cafe
    guest = guest
    Presets = {aman, cafe}
    FirstUser = aman
    Merchant = cafe
    Newcomer = guest
    Welcome = 2
    Opening <- MCOpening
    LocalStart = 3
    Entered = {1, 20}
    TopUps = {2}
    None = None
    NaN = NaN
    MaxEntries = 3
    MaxMoney = 4
    MaxJobs = 2
INVARIANT
    SessionResumes
