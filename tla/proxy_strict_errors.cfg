CONSTANTS
    c1 = c1
    c2 = c2
    k1 = k1
    Clients <- MCClients
    Keys <- MCKeys
    MaxCalls = 2
    Protocols = {"grpc"}
    EngineCodes <- MCEngineCodes
    ClientVersion <- MCClientVersion
    ServerVersions <- MCServerVersions
SPECIFICATION Spec
PROPERTY StrictSearchClientSpec
