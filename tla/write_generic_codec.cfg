CONSTANTS
    Requests <- MCRequests
SPECIFICATION Spec
INVARIANTS
    GenericCodecAsSpecified
