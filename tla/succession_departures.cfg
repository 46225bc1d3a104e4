SPECIFICATION Spec
CONSTANTS
    Hosts = {h1}
    Members = {m1, m2}
    Nobody = Nobody
    MaxConns <- Once
    MaxJoins <- Once
    Leavers = {h1}
    Approval = {FALSE}
    Faults <- AllFaults
SYMMETRY AnyMember
INVARIANT NoHeadlessMeeting
