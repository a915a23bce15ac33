CONSTANTS
    Protocols = {"grpc", "http"}
    ExistsCode <- MCExistsCode
    MissingCode <- MCMissingCode
SPECIFICATION Spec
INVARIANT TypeOK
INVARIANT StaleOnlyIgnoredCalls
