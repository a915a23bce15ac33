CONSTANTS
    Protocols = {"grpc"}
    ExistsCode <- MCExistsCode
    MissingCode <- MCMissingCode
SPECIFICATION Spec
INVARIANT FatalOnlyOnTransportError
