------------------------------ MODULE NodeEvents ------------------------------
(***************************************************************************)
(* The event loop of Node::run (src/safenode/src/node/api.rs) on the      *)
(* NetworkEvent channel, its PeerAdded arm, and the NodeEventsChannel     *)
(* (src/sn_node/src/event.rs) it broadcasts on, with its subscribers.     *)
(*                                                                         *)
(* In this code the only event ever broadcast on the NodeEventsChannel is  *)
(* ConnectedToNetwork (api.rs:92), so the bus is a count of sends.  The   *)
(* channel is tokio's broadcast channel (not under src/), as spec.md 5    *)
(* describes it: a ring of Cap values that overwrites the oldest; send    *)
(* fails, and the value is dropped, when nobody is subscribed; a new      *)
(* receiver starts after the last value sent; a receiver that fell more   *)
(* than Cap values behind gets Lagged(n) and resumes at the oldest value  *)
(* still held.                                                             *)
(*                                                                         *)
(* RequestReceived, the other arm of handle_network_event, is the request *)
(* handling of SpendNode and ClientRegister; it does not touch the bus.   *)
(***************************************************************************)
EXTENDS Naturals, Sequences

CONSTANTS
    Receivers,   \* NodeEventsReceivers the node's users may subscribe
    Cap,         \* NODE_EVENT_CHANNEL_SIZE
    MaxPeers     \* bound on the PeerAdded events the overlay reports

ASSUME Cap \in Nat \ {0} /\ MaxPeers \in Nat

VARIABLES
    net,       \* NetworkEvents queued in the mpsc channel to the event loop
    netOpen,   \* the SwarmDriver still holds the channel's sender
    added,     \* PeerAdded events the overlay has reported
    lookups,   \* spawned node_get_closest_peers tasks still running
    tail,      \* ConnectedToNetwork values written to the bus
    rx,        \* rx[r]: the receiver's state
    closedLogged  \* the loop has logged "The `NetworkEvent` channel has been closed"

vars == <<net, netOpen, added, lookups, tail, rx, closedLogged>>

\* The oldest value the ring still holds.
Oldest == IF tail > Cap THEN tail - Cap ELSE 0

Active == {r \in Receivers : rx[r].st = "active"}

RxInit == [st |-> "none", next |-> 0, got |-> 0, lagged |-> 0]

-----------------------------------------------------------------------------
(* The overlay (SwarmDriver::run, not under src/) *)

SwarmPeerAdded ==
    /\ netOpen
    /\ added < MaxPeers
    /\ net' = Append(net, "PeerAdded")
    /\ added' = added + 1
    /\ UNCHANGED <<netOpen, lookups, tail, rx, closedLogged>>

\* The swarm driver task ends and drops the sender.
SwarmStops ==
    /\ netOpen
    /\ netOpen' = FALSE
    /\ UNCHANGED <<net, added, lookups, tail, rx, closedLogged>>

-----------------------------------------------------------------------------
(* NodeEventsChannel::broadcast: send, and only trace the error when no    *)
(* receiver exists.                                                        *)
Broadcast ==
    /\ tail' = IF Active = {} THEN tail ELSE tail + 1
    /\ UNCHANGED rx

\* Mutant: ConnectedToNetwork is broadcast for the first PeerAdded only, the
\* "once at first connection" spec.md 9(a) asks about.
HandlePeerAddedFirstOnly ==
    /\ net # <<>>
    /\ net' = Tail(net)
    /\ IF added - Len(net) = 1 THEN Broadcast ELSE UNCHANGED <<tail, rx>>
    /\ lookups' = lookups + 1
    /\ UNCHANGED <<netOpen, added, closedLogged>>

\* The loop takes NetworkEvent::PeerAdded: broadcast ConnectedToNetwork and
\* spawn a closest-peers lookup of a random target.
HandlePeerAdded ==
    /\ net # <<>>
    /\ net' = Tail(net)
    /\ Broadcast
    /\ lookups' = lookups + 1
    /\ UNCHANGED <<netOpen, added, closedLogged>>

\* recv() yields None on the closed, drained channel: the loop logs the
\* error and continues, to receive None again: the task never ends.
LoopRecvClosed ==
    /\ net = <<>>
    /\ ~netOpen
    /\ closedLogged' = TRUE
    /\ UNCHANGED <<net, netOpen, added, lookups, tail, rx>>

\* A spawned lookup finishes; its result is only traced.
LookupDone ==
    /\ lookups > 0
    /\ lookups' = lookups - 1
    /\ UNCHANGED <<net, netOpen, added, tail, rx, closedLogged>>

-----------------------------------------------------------------------------
(* Subscribers *)

\* NodeEventsChannel::subscribe: a receiver that sees only later values.
Subscribe(r) ==
    /\ rx[r].st = "none"
    /\ rx' = [rx EXCEPT ![r] = [RxInit EXCEPT !.st = "active", !.next = tail]]
    /\ UNCHANGED <<net, netOpen, added, lookups, tail, closedLogged>>

\* Receiver::recv with a value ready: Err(Lagged(n)) if the ring overwrote
\* values it had not read, else Ok(ConnectedToNetwork).
Recv(r) ==
    /\ rx[r].st = "active"
    /\ rx[r].next < tail
    /\ rx' = [rx EXCEPT ![r] =
                IF @.next < Oldest
                THEN [@ EXCEPT !.lagged = @ + (Oldest - rx[r].next), !.next = Oldest]
                ELSE [@ EXCEPT !.got = @ + 1, !.next = @ + 1]]
    /\ UNCHANGED <<net, netOpen, added, lookups, tail, closedLogged>>

\* The receiver is dropped.
Drop(r) ==
    /\ rx[r].st = "active"
    /\ rx' = [rx EXCEPT ![r].st = "dropped"]
    /\ UNCHANGED <<net, netOpen, added, lookups, tail, closedLogged>>

-----------------------------------------------------------------------------

Init ==
    /\ net = <<>>
    /\ netOpen = TRUE
    /\ added = 0
    /\ lookups = 0
    /\ tail = 0
    /\ rx = [r \in Receivers |-> RxInit]
    /\ closedLogged = FALSE

Next ==
    \/ SwarmPeerAdded
    \/ SwarmStops
    \/ HandlePeerAdded
    \/ LoopRecvClosed
    \/ LookupDone
    \/ \E r \in Receivers : Subscribe(r) \/ Recv(r) \/ Drop(r)

\* tokio runs the node's loop and the spawned lookups; a subscriber that
\* is not dropped keeps awaiting recv.  The overlay and the users owe
\* nothing.
Fairness ==
    /\ WF_vars(HandlePeerAdded)
    /\ WF_vars(LoopRecvClosed)
    /\ WF_vars(LookupDone)
    /\ \A r \in Receivers : WF_vars(Recv(r))

Spec == Init /\ [][Next]_vars /\ Fairness

-----------------------------------------------------------------------------
(* Properties *)

\* A subscriber that is listening while a PeerAdded still waits for the
\* loop learns of it: it eventually reads a ConnectedToNetwork it had not
\* read before, unless it is dropped first, however far the ring of Cap
\* values overwrote its backlog in between (Lagged).  This rests on the
\* loop broadcasting on EVERY PeerAdded (api.rs:91-92), which spec.md 9(a)
\* questions: a subscriber that joins after the first connection would
\* otherwise never hear of it.
PeerNoticed ==
    \A r \in Receivers, k \in 0 .. MaxPeers :
        (rx[r].st = "active" /\ net # <<>> /\ rx[r].got = k)
            ~> (rx[r].got > k \/ rx[r].st = "dropped")

=============================================================================
