---------------------------- MODULE MC_SpendNode ----------------------------
(* Four nodes, CLOSE_GROUP_SIZE 2.  A genesis id G (created by T0, which   *)
(* has no inputs) can be spent to T1 or, conflicting, to T2; T1 creates D *)
(* and T2 creates E, whose spends need G's spend to their src tx at every *)
(* node of G's close group.  T2 fails source_tx.verify.                    *)
EXTENDS SpendNode, TLC

CONSTANTS n1, n2, n3, n4, G, D, E, T0, T1, T2, T3, T4

MCNodes == {n1, n2, n3, n4}
MCDbcIds == {G, D, E}
MCTxs == {T0, T1, T2, T3, T4}
MCTxInputs == (T0 :> {} @@ T1 :> {G} @@ T2 :> {G} @@ T3 :> {D, E} @@ T4 :> {E})
MCTxVerifies == {T0, T1, T3}

\* Every transaction verifies: for the double spend of E, whose src is T2.
MCTxVerifiesAll == MCTxs

sG1 == [id |-> G, src |-> T0, dst |-> T1]
sG2 == [id |-> G, src |-> T0, dst |-> T2]
sD  == [id |-> D, src |-> T1, dst |-> T3]
sE  == [id |-> E, src |-> T2, dst |-> T3]
sE4 == [id |-> E, src |-> T2, dst |-> T4]
MCSpends == {sG1, sG2, sD, sE, sE4}

\* The K-bucket keys (4 bits): the peers' PeerId bytes and the ids' xornames
\* (the model values stand for both) hashed by Key::new.
MCKBucketKey == (n1 :> 0 @@ n2 :> 4 @@ n3 :> 6 @@ n4 :> 8 @@ G :> 1 @@ D :> 14 @@ E :> 5)

Addr == INSTANCE AddressSpace WITH KeyBits <- 4, KBucketKeyOf <- MCKBucketKey

\* G's group is {n1, n2}; D's group {n3, n4} is disjoint from it; E's
\* group {n2, n3} contains n2, whose query for G cannot reach itself.
MCCloseGroup == (G :> {n1, n2} @@ D :> {n3, n4} @@ E :> {n2, n3})

\* These are the groups node_get_closest_peers gives for
\* NetworkAddress::from_dbc_address(dbc_address(id)): the CLOSE_GROUP_SIZE
\* peers nearest by XOR distance.
ASSUME \A d \in MCDbcIds :
           MCCloseGroup[d] = Addr!ClosestPeers(Addr!FromDbcAddress(d), MCNodes, 2)

\* Workloads: each spend sent with its own source tx.
Honest(S) == {[spend |-> s, tx |-> s.src] : s \in S}

\* The conflicting genesis spends and the child of the first.
MCSubmissionsLineage == Honest({sG1, sG2, sD})

\* The second branch: G to T2, its child E (whose group holds n2 of G's
\* group, and whose T2 fails verify), and sD sent with T2 instead of the
\* source tx it was signed over.
MCSubmissionsBranch == Honest({sG2, sE}) \cup {[spend |-> sD, tx |-> T2]}

\* Double spend: the two conflicting genesis spends alone, for the
\* liveness of the DoubleSpendAttempted broadcast.
MCSubmissionsDouble == Honest({sG1, sG2})

\* The clients' timers: none, or that of the branch workload's mismatched sD.
MCNoTimers == {}
MCTimedBranch == {[spend |-> sD, tx |-> T2]}

\* Double spend of a child: G spent to T2, then two spends of E out of T2.
\* E's group {n2, n3} shares n2 with G's group, so only n3 can fetch G.
MCSubmissionsChildDouble == Honest({sG2, sE, sE4})
=============================================================================
