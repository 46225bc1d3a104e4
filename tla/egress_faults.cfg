SPECIFICATION Spec
CONSTANTS
    Starts = {r1, r2}
    Stops = {t1}
    NoEgress = NoEgress
    Faults <- AllFaults
INVARIANTS TypeOK OneEgressMode
PROPERTIES TrackedUntilStopped NoCollateralStop SlotSpec
SYMMETRY Symmetry
CHECK_DEADLOCK FALSE
