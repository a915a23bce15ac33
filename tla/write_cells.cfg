CONSTANTS
    Requests <- MCRequests
SPECIFICATION Spec
INVARIANTS
    CellsRoundTrip
