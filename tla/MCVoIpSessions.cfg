CONSTANTS
    c1 = c1
    c2 = c2
    k1 = k1
    h1 = h1
    h2 = h2
    a1 = a1
    a2 = a2
    NoCall = NoCall
    NoHost = NoHost
    NoAddress = NoAddress
    SipCall = {c1, c2}
    SkinnyCall = {k1}
    Host = {h1, h2}
    Address = {a1, a2}
    HostOf <- MCHostOf
    EndpointOf <- MCEndpointOf
    RtpMinAmountOfPacketsBeforeStart = 3
    MaxPackets = 3
    MaxSessions = 3
    Deployments <- MCDeployments
SPECIFICATION FairSpec
INVARIANTS
    RegistryIsTrue
    RecordingIsTracked
PROPERTIES
    EveryPacketFindsAHome
    SignalledCallsSurviveTransfers
    SilentRecordingsEnd
