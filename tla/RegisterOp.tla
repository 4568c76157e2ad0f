------------------------------ MODULE RegisterOp ------------------------------
(***************************************************************************)
(* Signing of a register op (src/sn_registers/src/register_op.rs).        *)
(*                                                                         *)
(* An op is [address, crdt, source, signature].  bytes_for_signing feeds  *)
(* address, the crdt node's hash and source to std's DefaultHasher and    *)
(* returns the 64-bit result as to_ne_bytes: its 8 bytes in the byte order *)
(* of the machine running it.  DefaultHasher's algorithm is not fixed      *)
(* across Rust releases, so a build is a pair [endian, hasher] and         *)
(* DefaultHash(hasher, parts) the hash a given hasher yields.              *)
(*                                                                         *)
(* A BLS signature is modelled by what it does: Sig(k, bytes) is the       *)
(* signature of the secret key of k over bytes, and pk.verify(sig, bytes)  *)
(* holds exactly when sig.key = pk and sig.bytes = bytes.  The field       *)
(* "over" of a signature is not seen by the code: it records the op       *)
(* content the key holder meant to sign, so properties can compare intent *)
(* with what verification accepts.                                        *)
(***************************************************************************)
EXTENDS Naturals, Sequences, SequencesExt

CONSTANTS
    Keys,            \* BLS key pairs; a key stands for its public key
    Addresses,       \* RegisterAddress values
    Crdts,           \* crdt_op Merkle-DAG nodes (by their hash)
    Hashers,         \* DefaultHasher algorithms of the Rust releases in use
    DefaultHash(_, _), \* DefaultHash(h, parts): hasher.finish() over parts
    Nodes,           \* replicas that verify ops
    BuildOf,         \* [Nodes -> Builds]: the build each replica runs
    SignerBuild,     \* the build of the client that signs
    Nil

Endians == {"little", "big"}
Builds == [endian : Endians, hasher : Hashers]

ASSUME
    /\ BuildOf \in [Nodes -> Builds]
    /\ SignerBuild \in Builds

\* User::Anyone and User::Key(pk).
Anyone == [kind |-> "anyone", key |-> Nil]
Key(pk) == [kind |-> "key", key |-> pk]
Users == {Anyone} \cup {Key(k) : k \in Keys}

VARIABLES
    op,        \* the RegisterOp the client holds, or Nil before RegisterOp::new
    external   \* a signature an external signer made over bytes_for_signing, or Nil

vars == <<op, external>>

-----------------------------------------------------------------------------
(* Conversions *)

\* u64::to_le_bytes: n bytes, least significant first.
RECURSIVE LeBytes(_, _)
LeBytes(x, n) == IF n = 0 THEN <<>> ELSE <<x % 256>> \o LeBytes(x \div 256, n - 1)

\* Mutant: the hash is taken as a u32 before the conversion.
ToNeBytesU32(x, endian) ==
    IF endian = "little" THEN LeBytes(x, 4) ELSE Reverse(LeBytes(x, 4))

\* u64::to_ne_bytes on a machine of the given byte order.
ToNeBytes(x, endian) ==
    IF endian = "little" THEN LeBytes(x, 8) ELSE Reverse(LeBytes(x, 8))

\* The fields a signature covers, in the order they are hashed.
Content(o) == <<o.address, o.crdt, o.source>>

Sig(k, bytes, over) == [key |-> k, bytes |-> bytes, over |-> over]

-----------------------------------------------------------------------------
(* RegisterOp's methods *)

\* bytes_for_signing, run on build b.
BytesForSigning(o, b) ==
    ToNeBytes(DefaultHash(b.hasher, Content(o)), b.endian)

\* verify_signature(pk) on build b.
VerifySignature(o, pk, b) ==
    IF o.signature = Nil THEN "MissingSignature"
    ELSE IF o.signature.key = pk /\ o.signature.bytes = BytesForSigning(o, b)
    THEN "Ok"
    ELSE "InvalidSignature"

\* RegisterOp::new(address, crdt_op, source, None).
New(a, c, u) ==
    /\ op = Nil
    /\ op' = [address |-> a, crdt |-> c, source |-> u, signature |-> Nil]
    /\ UNCHANGED external

\* Mutant: the bytes are computed before source is set to the signer.
SignWithBytesFirst(k) ==
    /\ op # Nil
    /\ LET signed == [op EXCEPT !.source = Key(k)] IN
       op' = [signed EXCEPT !.signature =
                 Sig(k, BytesForSigning(op, SignerBuild), Content(signed))]
    /\ UNCHANGED external

\* sign_with(sk): source := Key(pk), then the signature over the new bytes.
SignWith(k) ==
    /\ op # Nil
    /\ LET signed == [op EXCEPT !.source = Key(k)] IN
       op' = [signed EXCEPT !.signature =
                 Sig(k, BytesForSigning(signed, SignerBuild), Content(signed))]
    /\ UNCHANGED external

\* The documented way to sign without handing over the secret key: the key
\* holder signs the op's bytes_for_signing as they are now.
SignExternally(k) ==
    /\ op # Nil
    /\ external' = Sig(k, BytesForSigning(op, SignerBuild), Content(op))
    /\ UNCHANGED op

\* add_signature(pk, sig): source := Key(pk) and the signature is attached.
AddSignature ==
    /\ op # Nil
    /\ external # Nil
    /\ op' = [op EXCEPT !.source = Key(external.key), !.signature = external]
    /\ external' = Nil

Init ==
    /\ op = Nil
    /\ external = Nil

Next ==
    \/ \E a \in Addresses, c \in Crdts, u \in Users : New(a, c, u)
    \/ \E k \in Keys : SignWith(k)
    \/ \E k \in Keys : SignExternally(k)
    \/ AddSignature

Spec == Init /\ [][Next]_vars

-----------------------------------------------------------------------------
(* Properties *)

SigType == [key : Keys, bytes : Seq(0 .. 255), over : Addresses \X Crdts \X Users]

\* Every variable has its type, and every signature is 8 bytes long.
TypeOK ==
    /\ op = Nil \/ op \in [address : Addresses, crdt : Crdts, source : Users,
                           signature : SigType \cup {Nil}]
    /\ external \in SigType \cup {Nil}
    /\ \A s \in {external} \cup IF op = Nil THEN {} ELSE {op.signature} :
          s # Nil => Len(s.bytes) = 8

\* The signing property of the register CRDT: at every replica and for every
\* key, verify_signature accepts the op exactly when its signature was made
\* by that key over the op's current address, crdt node and source, whether
\* it was made by sign_with or outside and attached with add_signature.
VerifyIffSigned ==
    op # Nil =>
        \A n \in Nodes, pk \in Keys :
            (VerifySignature(op, pk, BuildOf[n]) = "Ok")
                <=> (op.signature # Nil /\ op.signature.key = pk
                     /\ op.signature.over = Content(op))

\* The documented external-signing path works: an op carrying a signature
\* verifies against the source key it names (bytes_for_signing: "Use this
\* API when you want to sign a RegisterOp without providing a secret key").
SignedOpVerifies ==
    (op # Nil /\ op.signature # Nil) =>
        VerifySignature(op, op.source.key, SignerBuild) = "Ok"

=============================================================================
