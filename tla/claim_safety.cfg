SPECIFICATION Spec
CONSTANTS
    u1 = u1
    u2 = u2
    r1 = r1
    r2 = r2
    r3 = r3
    r4 = r4
    q1 = q1
    NoClaim = NoClaim
    Sentinel = Sentinel
    Users <- MCUsers
    Requests <- MCRequests
    UserOf <- MCUserOf
    Readers <- MCReaders
    ReaderUser <- MCReaderUser
INVARIANTS
    TypeOK
    AtMostOneGrant
    GrantIsRecorded
    RefusalHasCause
PROPERTIES
    ClaimNeverRewritten
    ImplementsClaimOnce
