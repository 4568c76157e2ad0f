CONSTANTS
    n1 = n1
    n2 = n2
    n3 = n3
    n4 = n4
    G = G
    D = D
    E = E
    T0 = T0
    T1 = T1
    T2 = T2
    T3 = T3
    T4 = T4
    Nil = Nil
    Nodes <- MCNodes
    DbcIds <- MCDbcIds
    Txs <- MCTxs
    TxInputs <- MCTxInputs
    TxVerifies <- MCTxVerifies
    Spends <- MCSpends
    Submissions <- MCSubmissionsBranch
    CloseGroup <- MCCloseGroup
    CLOSE_GROUP_SIZE = 2
    ClientTimers <- MCTimedBranch
    Faults = {"loss", "lookup"}
SPECIFICATION Spec

PROPERTIES HandlerReturns
\* The event loops wait for requests forever once the finite workload is
\* handled: that final quiescence is not a deadlock.
CHECK_DEADLOCK FALSE
