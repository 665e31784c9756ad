SPECIFICATION Spec
CONSTANTS
    p1 = p1
    p2 = p2
    c1 = c1
    c2 = c2
    r1 = r1
    r2 = r2
    None = None
    Processes = {p1, p2}
    Calls = {c1, c2, r1, r2}
    RunCalls = {r1, r2}
    ProcessOf <- MCProcessOf
    FirstName <- MCFirstName
    SecondName <- MCSecondName
INVARIANTS
    StoreInv
    SchemaGate
    ClaimsAreWhole
PROPERTIES
    ImplementsClaimService
