SPECIFICATION Spec
CONSTANTS
    c1 = c1
    c2 = c2
    i1 = i1
    i2 = i2
    Items = {i1, i2}
    Clients = {c1, c2}
    MaxReservations = 4
    NoId = NoId
INVARIANTS
    LiveReservationsDiffer
    DraftProposedOnce
PROPERTY
    CreationConsumesReservation
SYMMETRY MCSymmetry
CHECK_DEADLOCK FALSE
