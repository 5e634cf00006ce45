SPECIFICATION Spec
CONSTANTS
    c1 = c1
    c2 = c2
    k1 = k1
    k2 = k2
    k3 = k3
    k4 = k4
    i1 = i1
    i2 = i2
    i3 = i3
    i4 = i4
    i5 = i5
    Worker = Worker
    Free = Free
    Clients <- MCClients
    Requests <- MCReusedID
    maxDepth = 2
    MaxAttempts = 4
INVARIANTS
    KeyResolvesToItsTask
\* After MaxAttempts submissions the queue runs empty and stops.
CHECK_DEADLOCK FALSE
