SPECIFICATION Spec
CONSTANTS
    Hosts = {h1}
    Members = {m1, m2}
    Nobody = Nobody
    MaxConns <- HostTwice
    MaxJoins <- HostTwice
    Leavers = {}
    Approval = {FALSE}
    Faults <- NoFaults
SYMMETRY AnyMember
INVARIANT ActingHostYields
