------------------------- MODULE MC_ClientRegister -------------------------
(* Two client handles of one register, a close group of two peers, three  *)
(* writes between them.                                                    *)
EXTENDS ClientRegister, TLC

CONSTANTS c1, c2, n1, n2, v1, v2, v3

MCClients == {c1, c2}
MCGroup == {n1, n2}
MCValues == {v1, v2, v3}

\* c1 writes twice, c2 once.
MCValuesOf == (c1 :> {v1, v2} @@ c2 :> {v3})

\* One write, by c1 alone: enough for a Create and an Edit to fail apart.
MCValuesOfOne == (c1 :> {v1} @@ c2 :> {})

\* The overlay returns the whole close group.
FullLookup == {MCGroup}

\* The overlay returns "up to K" peers (spec.md 6): any non-empty subset
\* of the group.
PartialLookup == (SUBSET MCGroup) \ {{}}
=============================================================================
