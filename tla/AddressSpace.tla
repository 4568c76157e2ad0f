----------------------------- MODULE AddressSpace -----------------------------
(***************************************************************************)
(* NetworkAddress (src/sn_protocol/src/lib.rs) and the XOR metric the     *)
(* close groups are chosen by.                                            *)
(*                                                                         *)
(* An address is its variant and the bytes it wraps: a PeerId's or a      *)
(* RecordKey's bytes, or the xorname of a chunk, DBC or register address. *)
(* Bytes are model values.  KBucketKeyOf stands for libp2p's Key::new,     *)
(* the SHA-256 of the bytes, as a KeyBits-bit number: a hash TLC cannot   *)
(* compute, given as an injective table.                                  *)
(***************************************************************************)
EXTENDS Naturals, FiniteSets, Bitwise

CONSTANTS
    KeyBits,       \* width of the K-bucket keys (256 in the code)
    KBucketKeyOf   \* [bytes -> 0 .. 2^KeyBits - 1]: Key::new(bytes)

ASSUME KBucketKeyOf \in [DOMAIN KBucketKeyOf -> 0 .. 2^KeyBits - 1]

\* The variants of NetworkAddress.
Kinds == {"PeerId", "ChunkAddress", "DbcAddress", "RegisterAddress", "RecordKey"}

\* NetworkAddress::from_peer, from_dbc_address: the variant and its bytes.
FromPeer(peerBytes) == [kind |-> "PeerId", val |-> peerBytes]
FromDbcAddress(xorname) == [kind |-> "DbcAddress", val |-> xorname]

\* as_bytes: every variant yields the bytes it wraps (the xorname for the
\* chunk, DBC and register variants), without the variant.
AsBytes(a) == a.val

\* as_kbucket_key: Key::new hashes the bytes.
AsKbucketKey(a) == KBucketKeyOf[AsBytes(a)]

\* distance: XOR of the K-bucket keys.
Distance(a, b) == AsKbucketKey(a) ^^ AsKbucketKey(b)

\* The overlay's node_get_closest_peers(target) (spec.md 6): the k peers
\* nearest the target.  Keys are distinct, so distances to one target are.
ClosestPeers(target, peers, k) ==
    {p \in peers :
        Cardinality({q \in peers : Distance(FromPeer(q), target) < Distance(FromPeer(p), target)}) < k}

=============================================================================
