CONSTANTS
    c1 = c1
    c2 = c2
    n1 = n1
    n2 = n2
    v1 = v1
    v2 = v2
    v3 = v3
    Nil = Nil
    Clients <- MCClients
    Group <- MCGroup
    Values <- MCValues
    ValuesOf <- MCValuesOf
    LookupSets <- FullLookup
SPECIFICATION Spec
INVARIANTS QueueOrder NoLostOp ReadYourWrites
\* Once the three values are written and every handle has pushed, the
\* clients may stop calling: the program then waits for its user.
CHECK_DEADLOCK FALSE
