CONSTANTS
    w1 = w1  w2 = w2
    s1 = s1  s2 = s2  s3 = s3
    Requests = {r1, r2}
    Keys = {k1}
    Wallets = {w1, w2}
    Gateways = {g1, g2}
    NoGateway = NoGateway
    Stores = {s1, s2, s3}
    NoStore = NoStore
    WalletOf <- Files
    NoKey = NoKey
SPECIFICATION FairSpec
INVARIANTS TypeOK ServingIsReachable TunnelFollowsGateway
PROPERTIES RevocationBlocks MuReturned
