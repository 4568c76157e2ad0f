# TLA+ models of safe_network: spend validation, client registers, op signing and node events

This directory holds TLA+ specifications of the parts of the repository whose
correctness depends on interleavings, partial failures and timeouts. It also
holds the TLC configurations that check those specifications. Everything else
the repository does is listed at the end, together with the reason it is not
modelled.

## The system

The system has the following parts:

- **Node (`src/safenode/src/node/api.rs`).**
  - `Node::run` takes `NetworkEvent`s off one channel.
  - For each event it *awaits* `handle_network_event` before taking the next
    one (api.rs:67-81). A node therefore handles one request at a time.
  - A `Cmd::Dbc` runs `add_if_valid`. This fetches every parent spend with
    `get_spend`, which queries the parent's close group.
  - While it does so, the node answers no `Query::GetDbcSpend`.
  - A request is not routed to self (the todo at api.rs:339), and the overlay
    cannot dial the local peer. So when the node is in the close group it
    queries or broadcasts to, its own request fails with a transport error.
  - `get_spend` accepts a parent only if at least `CLOSE_GROUP_SIZE` peers
    answer Ok and all the answers are equal. Otherwise it returns:
    - the first per-peer protocol error;
    - else a transport error (timeout or network);
    - else `UnexpectedResponses`.
  - When the spend is written and the store reports a `DoubleSpendAttempt`,
    the node broadcasts `Event::DoubleSpendAttempted` to the close group of
    the spend. Peers never respond to events, so every slot of the broadcast
    waits until it times out.
- **Storage (`DataStorage`, not under `src/`).**
  - The spend store keeps the first spend written for an id.
  - A different spend for the same id is a `DoubleSpendAttempt`, and the pair
    is logged.
  - The register store creates a register, merges edits into it and returns
    replicas.
- **Client register handle (`src/sn_client/src/register.rs`).**
  - A local replica plus a `LinkedList` of commands that have not been
    pushed.
  - `write*` apply an op locally and `push_front` its command.
  - `push` pops from the back and publishes the command to the close group:
    - on failure it `push_back`s the command and stops;
    - on success it continues with the next command.
  - `sync` does the following in order:
    1. It fetches a replica with `get_register`, which takes the first Ok
       answer.
    2. If no replica is found, it publishes a Create instead.
    3. It merges the replica into its own.
    4. It pushes.
- **Register op signing (`src/sn_registers/src/register_op.rs`).**
  - `bytes_for_signing` hashes the address, the crdt node and the source with
    std's `DefaultHasher`, and returns the `u64` as `to_ne_bytes`.
  - `sign_with` sets the source to the signer and then signs.
  - `add_signature` attaches a signature that was made elsewhere, and it also
    sets the source.
  - `verify_signature` recomputes the bytes and checks them.
- **Node events (`src/sn_node/src/event.rs`).**
  - `NodeEventsChannel` wraps a tokio broadcast channel.
  - `Node::run`'s `PeerAdded` arm broadcasts `ConnectedToNetwork` on it and
    spawns a closest-peers lookup (api.rs:91-102).
  - When the `NetworkEvent` channel is closed, the loop logs an error and
    `continue`s (api.rs:70-75).
- **Addresses (`src/sn_protocol/src/lib.rs`).**
  - A `NetworkAddress` wraps the bytes of a peer or the xorname of a piece of
    data.
  - Its K-bucket key is the SHA-256 of those bytes.
  - Distance is the XOR of two keys. Close groups are the peers nearest by
    this distance.

The components interact as follows:

- a client sends a spend to its close group;
- each node of the group queries the parent's close group, which may include
  the node itself (that request fails);
- a node may broadcast to its own group;
- register handles publish to the close group of the register.

## Modules

| module | models | state | actions |
|---|---|---|---|
| `SpendLedger` | the promise of the spend network: each DBC id is spent at most once, only by a transaction that verifies and whose inputs are all spent to it | `spent` | `Commit` |
| `SpendNode` | `Node::run`, `handle_request`, `add_if_valid`, `get_spend`, `send_to_closest`/`send_and_get_responses` on top of the `DataStorage` spend store | `store`, `doubles` (the double-spend log), `inbox` (per-node message bag), `handler` (the request being handled and its open fan-out), `nextFid`, `submitted`, `responses`, `gaveUp` (client requests that timed out) | `Submit`, `ReceiveDbc`, `ReceiveQuery`, `ReceiveEvent`, `Timeout`, `ResolveParent`, `ResolveEvent`, `ClientTimeout`, `Lose` |
| `ClientRegister` | `ClientRegister`'s `create`, `retrieve`, `write`, `write_merging_branches`, `write_atop` and their `*_online` variants, `sync`, `push`, `publish_register_*`, `get_register`, against replicas held by the close group | `reg`, `ops` (the command list, front first), `call` (the open fan-out), `replica` (each peer's register), `used`, `gen` (the order the handle created ops in) | `Create`, `Write`, `WriteMergingBranches`, `WriteAtop`, `WriteOnline`, `WriteMergingBranchesOnline`, `WriteAtopOnline`, `StartRetrieve`, `StartSync`, `StartPush`, `PeerHandle`, `Timeout`, `EndGet`, `EndCreate`, `EndEdit` |
| `RegisterOp` | `RegisterOp::new`, `sign_with`, `add_signature`, `bytes_for_signing`, `verify_signature`, and an external signer | `op`, `external` (a signature made outside, not yet attached) | `New`, `SignWith`, `SignExternally`, `AddSignature` |
| `NodeEvents` | `Node::run`'s loop on the `NetworkEvent` channel, its `PeerAdded` arm and its closed-channel branch; `NodeEventsChannel` and its subscribers | `net`, `netOpen`, `added`, `lookups`, `tail` (values sent on the bus), `rx` (each receiver's cursor and counts), `closedLogged` | `SwarmPeerAdded`, `SwarmStops`, `HandlePeerAdded`, `LoopRecvClosed`, `LookupDone`, `Subscribe`, `Recv`, `Drop` |
| `AddressSpace` | `NetworkAddress::from_peer`, `from_dbc_address`, `as_bytes`, `as_kbucket_key`, `distance`, and the overlay's closest peers | (operators only) | |
| `MC_SpendNode`, `MC_ClientRegister`, `MC_RegisterOp`, `MC_NodeEvents` | model values and workloads for TLC | | |

### How the models map to the code

**`SpendNode`**

- An awaited handler is split into steps at each `.await` on the network:
  - `ReceiveDbc` starts `add_if_valid`, up to its first fan-out.
  - `ResolveParent` resumes after `get_spend` has every slot filled.
  - `ResolveEvent` resumes after the double-spend broadcast.
- `handler[n] # Nil` is exactly the state in which the real loop is blocked
  inside `handle_network_event`. In that state `NodeStep` offers only
  `Timeout` and the resume actions.
- A fan-out has one slot per member of the target close group, and a slot is
  `Pending`, `Found(s)`, `NotFound` or `TimedOut` (any transport error).
  `Deliver` sends to the group without the sender, and the sender's own slot
  starts as `TimedOut`: the failed self-dial.
- Spends, transactions and DBC ids are model values. Signatures and hashes
  are not represented. `TxVerifies` is the set of transactions whose
  `verify` succeeds.

- The client's own timer is `ClientTimeout`, for the submissions in
  `ClientTimers`. For such a submission, a node whose handler is
  broadcasting the double-spend event can time out its slots only after
  the client has given up. This holds because:
  - every timeout in the code is the same 10 s;
  - the client's timer starts before the node's broadcast timers;
  - timers therefore fire in the order they started.
- The fault model is the constant `Faults`, a subset of the faults the
  code handles:
  - `"loss"` (`Lose`): the network loses a request or its answer. The
    waiting slot ends by its timeout or by the transport's error, and
    `get_spend` treats both alike.
  - `"lookup"` (`LookupFails`): `node_get_closest_peers` fails in
    `send_to_closest`. Its `?` ends `add_if_valid` with no response, both
    for a parent fetch and for the double-spend broadcast.
  - Requests are not duplicated, because libp2p's request-response
    delivers each request at most once.
  - Neither fault can break a safety property, so the safety runs leave
    them out. A lost query is the same as a `Timeout`, which may fire at
    any time already. A lost Dbc or event is a message never handled, and
    no safety property reads the inboxes. A failed lookup ends the
    handler having written nothing, like the transport-error path.
    Faults matter only for liveness, so the liveness runs include them.
- `MC_SpendNode`'s close groups are checked (by an `ASSUME`) to be those that
  `AddressSpace`'s XOR metric gives, with the keys in `MCKBucketKey`.

**`ClientRegister`**

- The Merkle-DAG is a set of entries `[v, parents]`, merged by union, and
  read as its frontier.
- Each fan-out (get, create, edit) is a record of per-peer slots, which the
  peers fill (`PeerHandle`) or which time out (`Timeout`).
- The `End*` actions are the code after the `await`. `SyncWith` is the
  code of `sync` after its `get_register`.
- A `*_online` write is one step: the write, then `push` up to its first
  publish. Nothing else runs on the handle in between (`&mut self`).
- `LiveSpec` adds the fairness of the client's calls (see Fairness) for
  `SyncDrains`, which reads spec.md §8 scenario 6 for a user who keeps
  calling `sync` once no peer times out any more.

**`RegisterOp`**

- The conversions are modelled by what they do:
  - `to_ne_bytes` is `LeBytes(x, 8)` on a little-endian build, and its
    reverse on a big-endian build;
  - `DefaultHasher` is a constant operator `DefaultHash(hasher, parts)`;
  - a build is a pair `[endian, hasher]`, and each replica has one
    (`BuildOf`).
- A BLS signature is `Sig(key, bytes, over)`. It verifies exactly when the
  key and the bytes match. The field `over` is a ghost: it records the
  content the key holder meant to sign.
- `SignExternally` is the signer outside the code. It signs the current
  `bytes_for_signing`, as the doc comment of `bytes_for_signing` describes.

**`NodeEvents`**

- The bus is tokio's broadcast ring (spec.md §5):
  - `tail` counts the values sent, and the ring holds the last `Cap` of them;
  - a send with no active receiver is dropped, and the code only traces the
    error;
  - a receiver that falls behind `Oldest` gets `Lagged(n)` and resumes at
    `Oldest`.
- `ConnectedToNetwork` is the only value ever sent, so only counts matter.
- No branch of the code ends the loop: on a closed channel it logs once
  (`closedLogged`) and spins (`LoopRecvClosed`).

**`AddressSpace`**

- An address is `[kind, val]`. `as_bytes` returns `val`.
- `KBucketKeyOf` stands for the SHA-256 in `Key::new`. It is an injective
  table of `KeyBits`-bit numbers, and distance is their XOR (`^^` of
  `Bitwise`).

## Runs

| run | cfg | expect | shows |
|---|---|---|---|
| `spend_lineage` | `MC_SpendNode_lineage.cfg` | pass | `TypeOK`; `LineageSound` (every spend a node stores has each parent unanimously held by the parent's group and spent to the child's source tx); `NoConflictingConfirmations` (no two different spends of one id are both answered Ok by every member of the id's close group, however their submissions interleave); `LedgerRefinement` (the set of spends held by a whole close group refines `SpendLedger`). |
| `spend_handler_returns` | `MC_SpendNode_live.cfg` | pass | `HandlerReturns`: a blocked node, even one waiting on another blocked node, always returns to its loop, also when requests and answers are lost and lookups fail. |
| `spend_unanswered` | `MC_SpendNode_unanswered.cfg` | violation | `EveryDbcAnswered` fails: see Findings. |
| `client_register` | `MC_ClientRegister.cfg` | pass | The following invariants hold: `QueueOrder` (the in-flight command followed by the queue, oldest first, is a suffix of the ops created, in order); `NoLostOp` (each op is in the queue, in flight, or held by every group member); `ReadYourWrites` (a handle's replica keeps all its own ops). |
| `client_register_partial_lookup` | `MC_ClientRegister_partial.cfg` | violation | `NoLostOp` fails when the lookup returns fewer peers than the group. |
| `client_register_sync_stuck` | `MC_ClientRegister_sync.cfg` | violation | `SyncDrains` fails: after a `Create` that reached only part of the group, no later sync drains the queue, although no peer times out any more. See Findings. |
| `spend_double_reported` | `MC_SpendNode_double.cfg` | violation | `DoubleSpendReported` (spec.md §8 scenario 4: every one of the K close-group peers logs the pair) fails with no fault at all, for a double spend of a child whose group overlaps its parent's: the only reporter never logs it. See Findings. |
| `spend_double_told` | `MC_SpendNode_told.cfg` | violation | `DoubleSpendToldToClient` fails: see Findings. |
| `spend_double_lost` | `MC_SpendNode_lost.cfg` | violation | `DoubleSpendReportedToPeers` (every member other than the reporter logs the pair) fails when an event request is lost: see Findings. |
| `register_op_signing` | `MC_RegisterOp.cfg` | pass | `TypeOK` (every signature is 8 bytes); `VerifyIffSigned` (on one build, every replica accepts an op for a key exactly when that key signed its current content, whether by `sign_with` or by an external signature). |
| `register_op_add_signature` | `MC_RegisterOp_addsig.cfg` | violation | `SignedOpVerifies` fails after `add_signature`. |
| `node_events` | `MC_NodeEvents.cfg` | pass | `PeerNoticed`: a subscriber listening while a `PeerAdded` still waits for the loop eventually reads a `ConnectedToNetwork` it had not read, however far it lagged, unless it is dropped. It rests on the loop broadcasting on every `PeerAdded`, which spec.md 9(a) questions. |

Each property of a passing run has a mutant in `PROJECT.json`. The mutant
replaces a definition of the code with a plausible bug, and TLC then finds the
property violated:

| property | mutant |
|---|---|
| `TypeOK` (`SpendNode`) | a parent fetch goes to the child's close group (`FanOutChildGroup`) |
| `LineageSound` | accepts one Ok answer |
| `LedgerRefinement` | lets the last write win |
| `HandlerReturns` | no timeouts |
| `QueueOrder` | re-queues a failed command at the front |
| `NoLostOp` | accepts any Ok |
| `ReadYourWrites` | `sync` (`SyncWith`) replaces instead of merging |
| `NoConflictingConfirmations` | after the double-spend broadcast the node answers Ok (`ResolveEventOk`) |
| `TypeOK` (`RegisterOp`) | the hash is taken as a `u32` (4 bytes) |
| `VerifyIffSigned` | `sign_with` computes the bytes before it sets the source |
| `PeerNoticed` | `ConnectedToNetwork` is broadcast for the first `PeerAdded` only (`HandlePeerAddedFirstOnly`) |

## Bounds and why they are enough

**`MC_SpendNode`**

- Four nodes, with `CLOSE_GROUP_SIZE = 2`.
- Close groups: G→{n1,n2}, D→{n3,n4}, E→{n2,n3}.
- The lineage workload (`spend_lineage`):
  - the two conflicting genesis spends sG1 (T0→T1) and sG2 (T0→T2);
  - sD, a spend of D whose source tx T1 has G as input.
- It covers these cases:
  - G split between group members;
  - the double-spend detection and broadcast;
  - D's parent fetch succeeding, being non-unanimous, or finding G spent to
    another tx.
- The branch workload (`spend_handler_returns`, `spend_unanswered`):
  - sG2;
  - sE, whose source tx T2 has input G but does not verify. Its parents
    are fetched before the verify check, so n2, in E's group {n2,n3},
    queries G's group {n1,n2}, and its request to itself fails;
  - sD, submitted with tx T2, which does not match its source.
- It covers the remaining cases:
  - `InvalidSourceTxProvided`;
  - the source-tx-hash mismatch;
  - a node whose own slot of a fan-out fails.
- The double workload (`spend_double_told`, `spend_double_lost`) is sG1 and
  sG2. In it, every member of G's group detects the double spend and
  broadcasts it; in `spend_double_told` the client timers are on, so clients
  time out meanwhile.
- The child double workload (`spend_double_reported`) is sG2 and two
  conflicting spends of E out of T2 (sE to T3, sE4 to T4), with every
  transaction verifying (`MCTxVerifiesAll`). It is the smallest case in
  which one member alone detects a double spend.
- Each submission is sent once to each member of the group. Fan-out ids are
  bounded by the finite number of submissions.
- Faults: `spend_handler_returns` runs with loss and lookup failure, so
  lost queries, Dbc commands and answers and a failed parent lookup all
  occur; `spend_double_reported` runs with no fault, so what it finds needs
  none; `spend_double_lost` runs with loss. The lineage
  workload under faults reaches millions of states, and by the argument
  under Modules the faults cannot change its safety properties.
- `spend_double_told` times every client (`ClientTimers <- MCSubmissionsDouble`).
  `spend_handler_returns` times only the client of the mismatched sD
  (`MCTimedBranch`): timing every client there multiplies the state space
  past what TLC finishes. The other runs time no client (`MCNoTimers`). The
  client's timer does not affect what the nodes do, except the order of the
  broadcast's timers, which only `spend_double_told` is about.

**`MC_ClientRegister`**

- Two handles of one register, with two group peers.
- Handle c1 can write v1 and v2, and c2 can write v3. With these values, the
  branch merge of `write_merging_branches` occurs (two heads), and so do
  writes on top of a single head.
- Each value is written at most once (`used`), so the op generation is
  bounded.
- `LookupSets` gives the sets of peers `send_to_closest` reaches:
  - the whole group in the passing run;
  - any non-empty subset in the partial-lookup run.
- `client_register_sync_stuck` uses one write, by c1 (`MCValuesOfOne`). A
  `Create` then an `Edit`, each failing at one peer, is all the bug needs.

**`MC_RegisterOp`**

- The model has two keys, two addresses, two crdt nodes, two hashers and two
  replicas.
- `MCDefaultHash` is a stand-in hash. It gives distinct 64-bit values
  (kept below 2^16) to distinct contents, and its two versions disagree.
- `SameBuild` puts both replicas on the signer's build. `MixedBuild` gives one
  replica a big-endian build and the other a different hasher. No run uses
  it: under it `VerifyIffSigned` fails, which only shows that
  `DefaultHasher` and `to_ne_bytes` are not portable (see the hazard at
  register_op.rs:94 in `PROJECT.json`).
- A hash above 255 makes the byte order visible.

**`MC_NodeEvents`**

- Two receivers, `Cap = 1` and `MaxPeers = 3`.
- With a ring of one value and three sends, a receiver can lag, and both
  receivers can subscribe before, between and after sends. Sends can also
  find no receiver. A receiver can subscribe after the first `PeerAdded` was
  handled and before a second one is, the case `PeerNoticed`'s mutant fails.

Together, the passing runs fire every action and every disjunct of each
next-state relation.

The `SpendNode`, `ClientRegister` and `RegisterOp` runs use
`CHECK_DEADLOCK FALSE`. Each of these systems stops in a state that is not a
deadlock:
- when every submission or write has been handled, the system is quiescent;
- when a register op has been signed, there is nothing more to do.

The `NodeEvents` run checks deadlock. The loop never stops there: on a
closed channel it spins (`LoopRecvClosed`).

## Fairness

- `SpendNode` assumes weak fairness of every node action and of `Timeout`.
  - The loop in `Node::run` keeps taking events while the channel is open.
  - `send_and_get_responses` bounds every slot by `tokio::time::timeout`
    (api.rs:362-385).
  - `Submit` is not fair: clients need not send anything.
  - `Lose` is not fair: the network need not lose anything.
  - `ClientTimeout` is fair: the client's timer fires.
- `ClientRegister`'s `LiveSpec` assumes weak fairness of each slot's end
  (`PeerHandle` or `Timeout`: every request of `Client::send_to_closest`
  ends by its 10 s timeout) and of `EndGet`, `EndCreate` and `EndEdit`
  (tokio resumes the client's task). The user owes no call: `SyncDrains`
  takes the user's repeated `sync` calls as a hypothesis.
- `RegisterOp` checks only safety, so it has no fairness.
- `NodeEvents` assumes weak fairness of `HandlePeerAdded`, `LoopRecvClosed`,
  `LookupDone` and each `Recv(r)`:
  - tokio runs the loop task and the spawned lookups;
  - a subscriber that is not dropped keeps awaiting `recv`.
  - The overlay (`SwarmPeerAdded`, `SwarmStops`) and the users (`Subscribe`,
    `Drop`) owe nothing.

## Findings

1. **A spend can get no response (`spend_unanswered`).**
   - A parent fetch with a transport error in one slot (a timeout, or the
     failed request to itself) and no protocol error in any other makes
     `get_spend` return a transport error.
   - The comment at api.rs:191 says the arm is unreachable. In fact,
     `add_if_valid` propagates the error with `other?` (api.rs:192) and
     never responds.
   - With the overlay contract of spec.md, the closest peers include the
     node itself, and that request fails (api.rs:339). So a node in both a
     spend's group and its parent's group reaches this arm with no fault at
     all, unless another member answers `NotFound`. In TLC's trace, n2 never
     answers sE: n1 holds G's spend, and n2's own slot fails.
2. **A failed push can count as success (`client_register_partial_lookup`).**
   - `publish_register_edit` counts a push as successful when all the
     *received* responses are Ok (register.rs:274-279), and
     `publish_register_create` does the same.
   - spec.md §4.4 requires all K responses to be Ok.
   - A lookup that returns fewer peers therefore drops an op from the queue
     that part of the group never stored.

3. **`add_signature` breaks the signature it attaches
   (`register_op_add_signature`).**
   - The external signer signs `bytes_for_signing`, which cover the current
     source.
   - `add_signature` then sets the source to `Key(pk)` (register_op.rs:81).
     When the source was anything else, the bytes change and the op no longer
     verifies.
4. **`DoubleSpendAttempt` comes too late (`spend_double_told`).**
   - The node responds with `DoubleSpendAttempt` only after its broadcast of
     the event returns (api.rs:208).
   - Peers never respond to events, so the broadcast lasts one full timeout.
   - The client's timer, started earlier with the same length, has fired by
     then. The client never sees the answer.

5. **A lost event is never noticed (`spend_double_lost`).**
   - `add_if_valid` sends `Event::DoubleSpendAttempted` once and ignores the
     results (`_resp`, api.rs:208).
   - Receivers never respond to an event, so the sender cannot tell a
     delivered event from a lost one.
   - So even the weaker `DoubleSpendReportedToPeers`, which leaves the
     reporter out (see finding 7), holds only on a lossless network.

6. **A partly created register never syncs (`client_register_sync_stuck`).**
   - `sync` publishes `Create` only when `get_register` fails
     (register.rs:136-151). `get_register` succeeds on the first Ok
     replica.
   - A `Create` that reached one member and timed out at the other leaves
     the register missing at the second. Every later sync gets the
     register from the first member and skips `Create`. Its `Edit` then
     fails at the second member, which holds no register.
   - `push` puts the op back and returns the error, on every sync, with no
     timeout involved. spec.md §8 scenario 6 says the next sync completes
     and the queue drains.
   - TLC's counterexample creates the register with one peer timing out,
     then repeats a loop with no `Timeout` in it: `StartSync`, both peers
     answer the get (`EndGet` takes the Ok), `StartPush`, both answer the
     edit, and `EndEdit` re-queues the op.

7. **The reporter of a double spend never logs it (`spend_double_reported`).**
   - `add_if_valid` publishes `Event::DoubleSpendAttempted` with
     `send_to_closest` (api.rs:207-208). The reporter is in the spend's
     close group, but its request to itself is not routed to self
     (api.rs:339) and fails.
   - The reporter writes nothing to its own double-spend log either: only
     the `Event` arm of `handle_request` calls `try_add_double`
     (api.rs:134-139).
   - spec.md §8 scenario 4 says the event is observed by all K close-group
     peers and their logs contain the pair. On a network that loses nothing,
     the reporter learns of the double spend only when another member reports
     it too.
   - That fails when the reporter is the only member that validates the
     spend. E's group {n2,n3} shares n2 with G's group {n1,n2}, and n2's
     fetch of G always has its own slot failed (finding 1). In TLC's trace,
     G is spent to T2, n3 accepts sE, then detects sE4 and reports it. n2
     logs the pair, n3 never does, and n2 answers neither E spend.

## Not modelled

- `lib.rs`: the conversions that the modelled code does not use are left out.
  These are `from_chunk_address`, `from_register_address`, `from_record_key`,
  `as_peer_id`, `as_record_key`, `to_record_key` and the `Debug`/`Display`
  formatting. SHA-256 is a table.
- `RegisterCmd::dst` (`messages/register.rs`) is data. The models carry the
  command kind in the fan-out record.
- The Merkle-DAG's permission checks are outside `src/`.
- Subscribe race:
  - `NodeEventsChannel::default` drops its first receiver (event.rs:24).
  - Until a user subscribes, every broadcast is dropped.
  - `NodeEvents` lets `Subscribe` happen at any time, so it includes this
    case. But no property states what a late subscriber should have seen,
    because the code makes no promise about it.
- The closed event channel: when `recv` yields `None`, the loop logs and
  `continue`s (api.rs:74), spinning for ever. spec.md §9(c) records this,
  so `NodeEvents` models the spin (`LoopRecvClosed`) without a run against
  it.
- A failed lookup during the double-spend broadcast returns through the
  `?` at api.rs:208 before `send_response`, so the client gets no answer.
  `LookupFails` models it; the run budget goes to `spend_unanswered`,
  whose property a timed-out parent fetch already breaks.
- A failing `try_add_double` in a receiver (api.rs:138) only logs, and the
  pair is not recorded. Its effect is that of a lost event, which
  `spend_double_lost` covers; the store itself is outside `src/`.
- A crash or restart of a node is not modelled. `Node` has no recovery
  code of its own, and `DataStorage`, which would persist the stores, is
  outside `src/`.
- The client side (`ClientRegister`) has no lost-message fault of its own.
  A lost request there is the same as a `Timeout`, which is modelled.
- A transaction with two spent inputs, and an overlay in which a node
  excludes itself from its closest peers, are not modelled.
- The chunk store, and the register commands at the node, go straight to
  `DataStorage`, which is outside `src/`.
