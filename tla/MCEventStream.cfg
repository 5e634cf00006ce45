SPECIFICATION Spec
CONSTANTS
    Clients = {c1, c2}
INVARIANTS
    TypeOK
    WholeEvents
    LateWritesAreUnread
PROPERTIES
    EveryEventArrives
    NothingOutlivesTheClient
\* Clients leave, and a late write ends the model.
CHECK_DEADLOCK FALSE
