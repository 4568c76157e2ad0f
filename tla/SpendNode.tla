------------------------------ MODULE SpendNode ------------------------------
(***************************************************************************)
(* The node-side spend pipeline of safenode (src/safenode/src/node/api.rs)  *)
(* with the spend store it writes to.                                      *)
(*                                                                         *)
(* Every node runs ONE event loop (Node::run) that awaits                  *)
(* handle_network_event inline, so while a node is inside add_if_valid,    *)
(* waiting for the GetDbcSpend answers of a parent's close group, it       *)
(* handles no other request, its own queries and other nodes' queries      *)
(* included.  A fan-out (send_and_get_responses) sends one request per     *)
(* close-group peer and gives each a 10 s timeout.                         *)
(*                                                                         *)
(* Data is abstracted: a transaction is a model value with a set of input  *)
(* ids, a signed spend is a record [id, src, dst] of its consumed id and   *)
(* the hashes of its source and destination transactions, and the          *)
(* blinded-amount check source_tx.verify is the set TxVerifies.            *)
(***************************************************************************)
EXTENDS Naturals, FiniteSets

CONSTANTS
    Nodes,            \* the peers of the overlay
    DbcIds,           \* one-time identifiers; a spend lives at dbc_address(id)
    Txs,              \* transactions, standing for their hashes
    TxInputs,         \* [Txs -> SUBSET DbcIds]: source_tx.inputs
    TxVerifies,       \* the txs whose source_tx.verify(parent amounts) succeeds
    Spends,           \* the signed spends clients can build
    Submissions,      \* the Cmd::Dbc{signed_spend, source_tx} clients can send
    CloseGroup,       \* [DbcIds -> SUBSET Nodes]: node_get_closest_peers(address)
    CLOSE_GROUP_SIZE, \* network::CLOSE_GROUP_SIZE
    ClientTimers,     \* the submissions whose clients' own request timeouts are modelled
    Faults,           \* the faults of the run: "loss", "lookup"
    Nil

ASSUME
    /\ Spends \subseteq [id : DbcIds, src : Txs, dst : Txs]
    /\ Submissions \subseteq [spend : Spends, tx : Txs]
    /\ TxInputs \in [Txs -> SUBSET DbcIds]
    /\ CloseGroup \in [DbcIds -> (SUBSET Nodes) \ {{}}]
    /\ CLOSE_GROUP_SIZE \in Nat \ {0}
    /\ ClientTimers \subseteq Submissions
    /\ Faults \subseteq {"loss", "lookup"}

VARIABLES
    store,      \* store[n][d]: the spend n's spend store holds at address d, or Nil
    doubles,    \* doubles[n]: the double-spend pairs n recorded with try_add_double
    inbox,      \* inbox[n]: requests delivered to n's network event channel
    handler,    \* handler[n]: Nil when n's event loop is idle, else the fan-out it awaits
    nextFid,    \* nextFid[n]: id of n's next fan-out (the libp2p request ids)
    submitted,  \* the Cmd::Dbc submissions clients have sent
    responses,  \* what nodes sent back on response channels: [node, sub, result]
    gaveUp      \* <<n, sub>>: the client's request to n timed out before n answered

vars == <<store, doubles, inbox, handler, nextFid, submitted, responses, gaveUp>>

-----------------------------------------------------------------------------
(* Requests on the wire (Request::Cmd(Cmd::Dbc), Query::GetDbcSpend and     *)
(* Event::DoubleSpendAttempted) and the per-peer slots of a fan-out.       *)

DbcMsg(sub) == [type |-> "Dbc", sub |-> sub]
QueryMsg(from, fid, d) == [type |-> "GetSpend", from |-> from, fid |-> fid, addr |-> d]
EventMsg(new, existing) == [type |-> "DoubleSpend", new |-> new, existing |-> existing]

\* TimedOut is any transport error: the 10 s timeout, or the dial failure of
\* a request a node addresses to itself.
Pending  == [st |-> "pending", spend |-> Nil]
TimedOut == [st |-> "timeout", spend |-> Nil]
NotFound == [st |-> "notfound", spend |-> Nil]
Found(s) == [st |-> "ok", spend |-> s]
Slots == {Pending, TimedOut, NotFound} \cup {Found(s) : s \in Spends}

\* Mutant: the parent query goes to the close group of the spend being
\* validated instead of the parent's.
FanOutChildGroup(n, sub, phase, todo, d, fid, existing) ==
    [sub |-> sub, phase |-> phase, todo |-> todo, addr |-> d, fid |-> fid,
     slots |-> [p \in CloseGroup[sub.spend.id] |-> IF p = n THEN TimedOut ELSE Pending],
     existing |-> existing]

\* A fan-out in progress: phase "parents" is get_spend(addr) inside
\* validate_spend_parents with the inputs todo still to fetch, phase
\* "event" is the DoubleSpendAttempted broadcast before the response.  n
\* is in its own close group, but a request is not routed to self (the
\* todo at api.rs:339) and the overlay cannot dial the local peer: n's own
\* slot is a transport error from the start.
FanOut(n, sub, phase, todo, d, fid, existing) ==
    [sub |-> sub, phase |-> phase, todo |-> todo, addr |-> d, fid |-> fid,
     slots |-> [p \in CloseGroup[d] |-> IF p = n THEN TimedOut ELSE Pending],
     existing |-> existing]

\* The request m added to the inbox of every peer in ps; a node's fan-out
\* passes its close group without itself.
Deliver(ib, ps, m) == [p \in Nodes |-> IF p \in ps THEN ib[p] \cup {m} ELSE ib[p]]

Respond(n, sub, result) ==
    responses' = responses \cup {[node |-> n, sub |-> sub, result |-> result]}

-----------------------------------------------------------------------------
(* Storage facade (DataStorage, not under src/): per-address spend store,  *)
(* first write wins; the double-spend log.                                 *)

\* Mutant: the store keeps the last write instead of the first.
WriteSpendLastWins(n, s) ==
    store' = [store EXCEPT ![n][s.id] = s]

WriteSpend(n, s) ==
    /\ store[n][s.id] \in {Nil, s}
    /\ store' = [store EXCEPT ![n][s.id] = s]

ReadSpend(p, d) == IF store[p][d] = Nil THEN NotFound ELSE Found(store[p][d])

-----------------------------------------------------------------------------
\* Mutant: one Ok answer is taken as the parent (spends.len() >= 1).
GetSpendOutcomeAnyOk(slots) ==
    LET oks == {p \in DOMAIN slots : slots[p].st = "ok"}
        got == {slots[p].spend : p \in oks}
    IN  IF Cardinality(oks) >= 1 /\ Cardinality(got) = 1
        THEN [kind |-> "ok", spend |-> CHOOSE s \in got : TRUE]
        ELSE IF \E p \in DOMAIN slots : slots[p].st = "notfound"
        THEN [kind |-> "protocol", spend |-> Nil]
        ELSE IF \E p \in DOMAIN slots : slots[p].st = "timeout"
        THEN [kind |-> "transport", spend |-> Nil]
        ELSE [kind |-> "protocol", spend |-> Nil]

(* Node::get_spend: the reduction of the close group's answers.  Success   *)
(* needs CLOSE_GROUP_SIZE Ok answers that are all equal; otherwise the     *)
(* first per-peer protocol error, else the first transport error (NOT a    *)
(* protocol error), else UnexpectedResponses.                              *)
GetSpendOutcome(slots) ==
    LET oks == {p \in DOMAIN slots : slots[p].st = "ok"}
        got == {slots[p].spend : p \in oks}
    IN  IF Cardinality(oks) >= CLOSE_GROUP_SIZE /\ Cardinality(got) = 1
        THEN [kind |-> "ok", spend |-> CHOOSE s \in got : TRUE]
        ELSE IF \E p \in DOMAIN slots : slots[p].st = "notfound"
        THEN [kind |-> "protocol", spend |-> Nil]
        ELSE IF \E p \in DOMAIN slots : slots[p].st = "timeout"
        THEN [kind |-> "transport", spend |-> Nil]
        ELSE [kind |-> "protocol", spend |-> Nil]

\* send_to_closest: node_get_closest_peers fails and `?` returns the error
\* before any request is sent; add_if_valid passes it up (`other?` for a
\* parent fetch, `?` for the event), the loop logs it, and nothing is sent
\* back on the response channel.
LookupFails(n, ib) ==
    /\ "lookup" \in Faults
    /\ handler' = [handler EXCEPT ![n] = Nil]
    /\ inbox' = ib
    /\ UNCHANGED <<store, doubles, nextFid, submitted, gaveUp, responses>>

-----------------------------------------------------------------------------
(* Node::add_if_valid from the parent loop on: fetch the next parent, or,  *)
(* with every parent fetched, verify source_tx and write the spend; a     *)
(* DoubleSpendAttempt from the store starts the event broadcast.  ib is    *)
(* the inbox this step leaves, before its own sends.                      *)
ContinueValidation(n, sub, todo, ib) ==
    LET s == sub.spend IN
    \/ \E d \in todo :
          \/ /\ handler' = [handler EXCEPT ![n] = FanOut(n, sub, "parents", todo \ {d}, d, nextFid[n], Nil)]
             /\ nextFid' = [nextFid EXCEPT ![n] = @ + 1]
             /\ inbox' = Deliver(ib, CloseGroup[d] \ {n}, QueryMsg(n, nextFid[n], d))
             /\ UNCHANGED <<store, doubles, submitted, gaveUp, responses>>
          \/ LookupFails(n, ib)
    \/ /\ todo = {}
       /\ sub.tx \notin TxVerifies
       /\ Respond(n, sub, "InvalidSourceTxProvided")
       /\ handler' = [handler EXCEPT ![n] = Nil]
       /\ inbox' = ib
       /\ UNCHANGED <<store, doubles, nextFid, submitted, gaveUp>>
    \/ /\ todo = {}
       /\ sub.tx \in TxVerifies
       /\ WriteSpend(n, s)
       /\ Respond(n, sub, "Ok")
       /\ handler' = [handler EXCEPT ![n] = Nil]
       /\ inbox' = ib
       /\ UNCHANGED <<doubles, nextFid, submitted, gaveUp>>
    \/ /\ todo = {}
       /\ sub.tx \in TxVerifies
       /\ store[n][s.id] \notin {Nil, s}
       /\ \/ /\ handler' = [handler EXCEPT ![n] = FanOut(n, sub, "event", {}, s.id, nextFid[n], store[n][s.id])]
             /\ nextFid' = [nextFid EXCEPT ![n] = @ + 1]
             /\ inbox' = Deliver(ib, CloseGroup[s.id] \ {n}, EventMsg(s, store[n][s.id]))
             /\ UNCHANGED <<store, doubles, submitted, gaveUp, responses>>
          \/ LookupFails(n, ib)

-----------------------------------------------------------------------------
(* Actions *)

\* A client sends Cmd::Dbc to the close group of the spend's address.
Submit(sub) ==
    /\ sub \notin submitted
    /\ submitted' = submitted \cup {sub}
    /\ inbox' = Deliver(inbox, CloseGroup[sub.spend.id], DbcMsg(sub))
    /\ UNCHANGED <<store, doubles, handler, nextFid, responses, gaveUp>>

\* The idle event loop of n takes a Cmd::Dbc: add_if_valid compares the
\* provided source tx with the signed one, then starts on the parents.
ReceiveDbc(n) ==
    /\ handler[n] = Nil
    /\ \E m \in inbox[n] :
          /\ m.type = "Dbc"
          /\ LET ib == [inbox EXCEPT ![n] = @ \ {m}] IN
             \/ /\ m.sub.tx # m.sub.spend.src
                /\ Respond(n, m.sub, "SignedSrcTxHashDoesNotMatchProvidedSrcTxHash")
                /\ inbox' = ib
                /\ UNCHANGED <<store, doubles, handler, nextFid, submitted, gaveUp>>
             \/ /\ m.sub.tx = m.sub.spend.src
                /\ ContinueValidation(n, m.sub, TxInputs[m.sub.tx], ib)

\* The idle event loop of p answers a GetDbcSpend from its store.  The
\* answer fills the requester's slot only if that fan-out still waits for it.
ReceiveQuery(p) ==
    /\ handler[p] = Nil
    /\ \E m \in inbox[p] :
          /\ m.type = "GetSpend"
          /\ inbox' = [inbox EXCEPT ![p] = @ \ {m}]
          /\ LET n == m.from IN
             handler' = IF /\ handler[n] # Nil
                           /\ handler[n].fid = m.fid
                           /\ p \in DOMAIN handler[n].slots
                           /\ handler[n].slots[p] = Pending
                        THEN [handler EXCEPT ![n].slots[p] = ReadSpend(p, m.addr)]
                        ELSE handler
          /\ UNCHANGED <<store, doubles, nextFid, submitted, gaveUp, responses>>

\* The idle event loop of p records a reported double spend with
\* try_add_double; no response is sent.
ReceiveEvent(p) ==
    /\ handler[p] = Nil
    /\ \E m \in inbox[p] :
          /\ m.type = "DoubleSpend"
          /\ inbox' = [inbox EXCEPT ![p] = @ \ {m}]
          /\ doubles' = [doubles EXCEPT ![p] = @ \cup {<<m.new, m.existing>>}]
          /\ UNCHANGED <<store, handler, nextFid, submitted, gaveUp, responses>>

\* Mutant: send_request awaited without tokio::time::timeout.
TimeoutNever(n, p) ==
    /\ FALSE
    /\ UNCHANGED vars

\* The 10 s tokio timeout of one peer's request fires before its answer.
\* All these timers last 10 s, so they fire in the order they were
\* started: the client's timer on the Cmd::Dbc being handled started
\* before the double-spend broadcast's, and fires first.  Runs without
\* ClientTimers leave the other clients' timers, and this order, out.
Timeout(n, p) ==
    /\ handler[n] # Nil
    /\ p \in DOMAIN handler[n].slots
    /\ handler[n].slots[p] = Pending
    /\ (handler[n].sub \in ClientTimers /\ handler[n].phase = "event") => <<n, handler[n].sub>> \in gaveUp
    /\ handler' = [handler EXCEPT ![n].slots[p] = TimedOut]
    /\ UNCHANGED <<store, doubles, inbox, nextFid, submitted, gaveUp, responses>>

\* The client's 10 s timeout on its Cmd::Dbc to n fires while n has not
\* answered; a later send_response on that channel reaches nobody.
ClientTimeout(n, sub) ==
    /\ sub \in ClientTimers
    /\ sub \in submitted
    /\ n \in CloseGroup[sub.spend.id]
    /\ <<n, sub>> \notin gaveUp
    /\ ~\E r \in responses : r.node = n /\ r.sub = sub
    /\ gaveUp' = gaveUp \cup {<<n, sub>>}
    /\ UNCHANGED <<store, doubles, inbox, handler, nextFid, submitted, responses>>

\* The network loses a request, or the answer to it, on its way: the
\* receiver never handles it, and a waiting slot ends by its timeout (or
\* the transport's error, which get_spend treats alike).
Lose(n) ==
    /\ "loss" \in Faults
    /\ \E m \in inbox[n] : inbox' = [inbox EXCEPT ![n] = @ \ {m}]
    /\ UNCHANGED <<store, doubles, handler, nextFid, submitted, gaveUp, responses>>

AllAnswered(n) == \A p \in DOMAIN handler[n].slots : handler[n].slots[p] # Pending

\* Every answer of a parent fetch is in: reduce it (get_spend), check the
\* parent's dst tx against the spend's src tx, and go on or reply.  A
\* transport error is not a ProtocolError: add_if_valid returns it with `?`
\* and sends no response.
ResolveParent(n) ==
    /\ handler[n] # Nil
    /\ handler[n].phase = "parents"
    /\ AllAnswered(n)
    /\ LET h   == handler[n]
           out == GetSpendOutcome(h.slots)
       IN
       \/ /\ out.kind = "ok"
          /\ out.spend.dst = h.sub.spend.src
          /\ ContinueValidation(n, h.sub, h.todo, inbox)
       \/ /\ out.kind = "ok"
          /\ out.spend.dst # h.sub.spend.src
          /\ Respond(n, h.sub, "SpendSrcTxHashParentTxHashMismatch")
          /\ handler' = [handler EXCEPT ![n] = Nil]
          /\ UNCHANGED <<store, doubles, inbox, nextFid, submitted, gaveUp>>
       \/ /\ out.kind = "protocol"
          /\ Respond(n, h.sub, "ParentNotValid")
          /\ handler' = [handler EXCEPT ![n] = Nil]
          /\ UNCHANGED <<store, doubles, inbox, nextFid, submitted, gaveUp>>
       \/ /\ out.kind = "transport"
          /\ handler' = [handler EXCEPT ![n] = Nil]
          /\ UNCHANGED <<store, doubles, inbox, nextFid, submitted, gaveUp, responses>>

\* Mutant: after the broadcast the node answers Ok, as if reporting the
\* double spend had handled it.
ResolveEventOk(n) ==
    /\ handler[n] # Nil
    /\ handler[n].phase = "event"
    /\ AllAnswered(n)
    /\ Respond(n, handler[n].sub, "Ok")
    /\ handler' = [handler EXCEPT ![n] = Nil]
    /\ UNCHANGED <<store, doubles, inbox, nextFid, submitted, gaveUp>>

\* The double-spend broadcast is over (nobody answers an Event, so its
\* slots end by timeout): echo DoubleSpendAttempt to the client.
ResolveEvent(n) ==
    /\ handler[n] # Nil
    /\ handler[n].phase = "event"
    /\ AllAnswered(n)
    /\ Respond(n, handler[n].sub, "DoubleSpendAttempt")
    /\ handler' = [handler EXCEPT ![n] = Nil]
    /\ UNCHANGED <<store, doubles, inbox, nextFid, submitted, gaveUp>>

-----------------------------------------------------------------------------

Init ==
    /\ store = [n \in Nodes |-> [d \in DbcIds |-> Nil]]
    /\ doubles = [n \in Nodes |-> {}]
    /\ inbox = [n \in Nodes |-> {}]
    /\ handler = [n \in Nodes |-> Nil]
    /\ nextFid = [n \in Nodes |-> 0]
    /\ submitted = {}
    /\ responses = {}
    /\ gaveUp = {}

NodeStep(n) ==
    \/ ReceiveDbc(n)
    \/ ReceiveQuery(n)
    \/ ReceiveEvent(n)
    \/ ResolveParent(n)
    \/ ResolveEvent(n)
    \/ \E p \in Nodes : Timeout(n, p)

Next ==
    \/ \E sub \in Submissions : Submit(sub)
    \/ \E n \in Nodes : NodeStep(n)
    \/ \E n \in Nodes, sub \in Submissions : ClientTimeout(n, sub)
    \/ \E n \in Nodes : Lose(n)

\* The event loop and the timers are never starved (tokio runs every task);
\* clients owe nothing, so Submit carries no fairness, and nor does the
\* network's loss of a request.
Fairness ==
    /\ \A n \in Nodes :
          /\ WF_vars(ReceiveDbc(n))
          /\ WF_vars(ReceiveQuery(n))
          /\ WF_vars(ReceiveEvent(n))
          /\ WF_vars(ResolveParent(n))
          /\ WF_vars(ResolveEvent(n))
          /\ \A p \in Nodes : WF_vars(Timeout(n, p))
          /\ \A sub \in Submissions : WF_vars(ClientTimeout(n, sub))

Spec == Init /\ [][Next]_vars /\ Fairness

-----------------------------------------------------------------------------
(* Properties *)

\* Every variable has its type; a fan-out waits exactly on the close group
\* of the address it queries.
TypeOK ==
    /\ store \in [Nodes -> [DbcIds -> Spends \cup {Nil}]]
    /\ \A n \in Nodes, d \in DbcIds : store[n][d] # Nil => store[n][d].id = d
    /\ doubles \in [Nodes -> SUBSET (Spends \X Spends)]
    /\ nextFid \in [Nodes -> Nat]
    /\ submitted \subseteq Submissions
    /\ gaveUp \subseteq Nodes \X submitted
    /\ \A n \in Nodes :
          \/ handler[n] = Nil
          \/ /\ handler[n].sub \in submitted
             /\ handler[n].phase \in {"parents", "event"}
             /\ DOMAIN handler[n].slots = CloseGroup[handler[n].addr]
             /\ \A p \in DOMAIN handler[n].slots : handler[n].slots[p] \in Slots

\* Lineage (validate_spend_parents with get_spend's unanimity): whenever a
\* node holds a spend, every input of its source tx has a parent spend
\* whose dst tx is that source tx, held by EVERY node of the parent's close
\* group.  It spans the writer, the parent group's stores and time: the
\* parent answers were read in earlier steps, by other nodes.
LineageSound ==
    \A n \in Nodes, d \in DbcIds :
        store[n][d] # Nil =>
            \A pd \in TxInputs[store[n][d].src] :
                \E ps \in Spends :
                    /\ ps.id = pd
                    /\ ps.dst = store[n][d].src
                    /\ \A q \in CloseGroup[pd] : store[q][pd] = ps

\* A Cmd::Dbc that reached a node is eventually answered on its response
\* channel (add_if_valid, api.rs:191: "This should be unreachable, as we
\* only return protocol errors").
EveryDbcAnswered ==
    \A sub \in Submissions, n \in Nodes :
        (sub \in submitted /\ n \in CloseGroup[sub.spend.id])
            ~> (\E r \in responses : r.node = n /\ r.sub = sub)

\* No event loop stays blocked in a fan-out forever, although nodes wait on
\* each other: the per-request timeout frees them.
HandlerReturns == \A n \in Nodes : handler[n] # Nil ~> handler[n] = Nil

\* spec.md 8, scenario 4: a node that answers DoubleSpendAttempt has
\* published Event::DoubleSpendAttempted(new, existing) to the spend's
\* close group (add_if_valid, api.rs:203-211), and every one of the K
\* close-group peers, the reporting node included, eventually has the pair
\* in its double-spend log.
Reported(n, sub) ==
    \E r \in responses : r.node = n /\ r.sub = sub /\ r.result = "DoubleSpendAttempt"

\* q's log holds a pair of sub's spend and a conflicting one, in either order.
Logged(q, sub) == \E pr \in doubles[q] : sub.spend \in {pr[1], pr[2]}

DoubleSpendReported ==
    \A n \in Nodes, sub \in Submissions :
        Reported(n, sub) ~> \A q \in CloseGroup[sub.spend.id] : Logged(q, sub)

\* The same for the peers the event is actually sent to: every member of
\* the close group other than the reporter, members that rejected both
\* spends included, eventually logs the pair.
DoubleSpendReportedToPeers ==
    \A n \in Nodes, sub \in Submissions :
        Reported(n, sub) ~> \A q \in CloseGroup[sub.spend.id] \ {n} : Logged(q, sub)

\* spec.md 8, scenario 4: a node that detects a double spend returns
\* DoubleSpendAttempt to the client; add_if_valid sends it only after the
\* DoubleSpendAttempted broadcast, whose slots all end by timeout.  Every
\* DoubleSpendAttempt is sent while its client still waits for it.
DoubleSpendToldToClient ==
    \A r \in responses :
        r.result = "DoubleSpendAttempt" => <<r.node, r.sub>> \notin gaveUp

\* The client takes a spend as done when every member of the spend's close
\* group answered Ok (spec.md 4.4: all K must be Ok).  However submissions
\* of conflicting spends interleave across the group, and whatever each
\* node was asked before, no two different spends of one id are both
\* confirmed that way (first write wins in every store; add_if_valid,
\* api.rs:195-216, answers Ok only after its own write succeeded).
ConfirmedByGroup(s) ==
    \A q \in CloseGroup[s.id] :
        \E r \in responses : r.node = q /\ r.sub.spend = s /\ r.result = "Ok"

NoConflictingConfirmations ==
    \A s1, s2 \in Spends :
        (s1.id = s2.id /\ s1 # s2) => ~(ConfirmedByGroup(s1) /\ ConfirmedByGroup(s2))

\* Refinement: the id's entry in the abstract ledger is the spend that
\* every node of its close group holds (first write wins, unanimous reads).
Committed(d) ==
    IF \E s \in Spends : \A q \in CloseGroup[d] : store[q][d] = s
    THEN CHOOSE s \in Spends : \A q \in CloseGroup[d] : store[q][d] = s
    ELSE Nil

Ledger == INSTANCE SpendLedger WITH spent <- [d \in DbcIds |-> Committed(d)]

\* The network behaves as a single-spend ledger: a unanimous spend never
\* changes or disappears, and it becomes unanimous only once its parents
\* are unanimous with dst = its src tx and its src tx verifies.  Broken by
\* any store that lets a later write replace a spend, or by any accepted
\* parent read that is not the group's unanimous value.
LedgerRefinement == Ledger!Spec

=============================================================================
