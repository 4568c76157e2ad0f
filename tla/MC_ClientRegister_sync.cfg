CONSTANTS
    c1 = c1
    c2 = c2
    n1 = n1
    n2 = n2
    v1 = v1
    v2 = v2
    v3 = v3
    Nil = Nil
    Clients <- MCClients
    Group <- MCGroup
    Values <- MCValues
    ValuesOf <- MCValuesOfOne
    LookupSets <- FullLookup
SPECIFICATION LiveSpec
PROPERTIES SyncDrains
\* Once the value is written and pushed, the clients may stop calling.
CHECK_DEADLOCK FALSE
