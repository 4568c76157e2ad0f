---------------------------- MODULE MC_RegisterOp ----------------------------
EXTENDS RegisterOp, TLC

CONSTANTS k1, k2, a1, a2, c1, c2, sip13, sip24, n1, n2

MCKeys == {k1, k2}
MCAddresses == {a1, a2}
MCCrdts == {c1, c2}
MCHashers == {sip13, sip24}
MCNodes == {n1, n2}

\* A stand-in for DefaultHasher that, like SipHash, gives the fields of
\* the model distinct 64-bit results (kept below 2^16 for TLC), and whose
\* two versions disagree.
Code == k1 :> 1 @@ k2 :> 2 @@ a1 :> 3 @@ a2 :> 4 @@ c1 :> 5 @@ c2 :> 6
        @@ "anyone" :> 7 @@ "key" :> 8 @@ sip13 :> 0 @@ sip24 :> 1
Word(x) == IF x \in Users
           THEN 11 * Code[x.kind] + (IF x.key = Nil THEN 0 ELSE Code[x.key])
           ELSE Code[x]
RECURSIVE Mix(_, _)
Mix(h, parts) == IF parts = <<>> THEN h
                 ELSE Mix((h * 97 + Word(Head(parts))) % 65521, Tail(parts))
MCDefaultHash(hv, parts) == 256 + Mix(Code[hv] * 4099 + 17, parts)

LittleSip13 == [endian |-> "little", hasher |-> sip13]
BigSip13 == [endian |-> "big", hasher |-> sip13]
LittleSip24 == [endian |-> "little", hasher |-> sip24]

\* One build everywhere.
SameBuild == n1 :> LittleSip13 @@ n2 :> LittleSip13
\* A big-endian replica and one built with another Rust release.
MixedBuild == n1 :> BigSip13 @@ n2 :> LittleSip24
=============================================================================
