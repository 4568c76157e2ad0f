CONSTANTS
    k1 = k1
    k2 = k2
    a1 = a1
    a2 = a2
    c1 = c1
    c2 = c2
    sip13 = sip13
    sip24 = sip24
    n1 = n1
    n2 = n2
    Nil = Nil
    Keys <- MCKeys
    Addresses <- MCAddresses
    Crdts <- MCCrdts
    Hashers <- MCHashers
    DefaultHash <- MCDefaultHash
    Nodes <- MCNodes
    BuildOf <- SameBuild
    SignerBuild <- LittleSip13
SPECIFICATION Spec
INVARIANTS SignedOpVerifies
\* Once the op is signed the client may keep re-signing it; the final
\* states, where no further signature changes it, are not a deadlock.
CHECK_DEADLOCK FALSE
