SPECIFICATION Spec
CONSTANTS
    Hosts = {h1}
    Members = {m1}
    Nobody = Nobody
    MaxConns <- MemberTwice
    MaxJoins <- Twice
    Leavers = {m1}
    Approval = {FALSE, TRUE}
    Faults <- AnsweredFaults
INVARIANT TypeOK
PROPERTY AdmissionSpec
