---------------------------- MODULE ClientRegister ----------------------------
(***************************************************************************)
(* The client's offline register handle (src/sn_client/src/register.rs)    *)
(* against the register replicas of the register's close group.            *)
(*                                                                         *)
(* A ClientRegister holds a local replica and a LinkedList of Edit cmds    *)
(* not yet pushed: writes push_front, push pops from the back, sends each  *)
(* cmd to the close group and, when not every response is Ok, puts it back *)
(* with push_back and stops.  sync fetches a replica (first Ok answer),    *)
(* publishes Create when none is found, merges and pushes.  Each handle    *)
(* is used by one task at a time (&mut self), so one handle runs one of   *)
(* these calls at a time; handles of different clients interleave.        *)
(*                                                                         *)
(* An entry is [v, parents]: a value from Values (each write uses a fresh  *)
(* one, standing for the entry's hash) and the hashes it is written atop.  *)
(* A replica is the set of its entries (the Merkle-DAG; merge is union).   *)
(***************************************************************************)
EXTENDS Naturals, FiniteSets, Sequences, SequencesExt

CONSTANTS
    Clients,      \* client handles of one register address (name, tag)
    Group,        \* the register's close group
    LookupSets,   \* the peer sets Client::send_to_closest may address
    Values,       \* entry values; one per write
    ValuesOf,     \* [Clients -> SUBSET Values]: the values each client writes (workload bound)
    Nil

ASSUME LookupSets \subseteq SUBSET Group

VARIABLES
    reg,      \* reg[c]: the entries of c's local replica, or Nil before create/retrieve
    ops,      \* ops[c]: c's cached RegisterCmd::Edit ops, front = newest
    call,     \* call[c]: Nil, or the fan-out c's current async call awaits
    replica,  \* replica[n]: the register n stores (its entries), or Nil
    used,     \* values already written
    gen       \* gen[c]: c's ops in the order it generated them (history)

vars == <<reg, ops, call, replica, used, gen>>

Entries == [v : Values, parents : SUBSET Values]

\* The Merkle-DAG frontier: entries no other entry is written atop.
Frontier(R) == {e \in R : ~\E f \in R : e.v \in f.parents}
Hashes(R) == {e.v : e \in R}

Pending == [st |-> "pending", val |-> Nil]
TimedOut == [st |-> "timeout", val |-> Nil]
Failed == [st |-> "err", val |-> Nil]
Answer(r) == [st |-> "ok", val |-> r]

\* A fan-out to the peers ps: kind "retrieve"/"sync" is get_register,
\* "create" publish_register_create, "edit" publish_register_edit of op.
FanOut(kind, ps, op) == [kind |-> kind, op |-> op, slots |-> [p \in ps |-> Pending]]

\* The in-flight op of c, as a sequence of at most one element.
InFlight(c) == IF call[c] # Nil /\ call[c].kind = "edit" THEN <<call[c].op>> ELSE <<>>

AllAnswered(c) == \A p \in DOMAIN call[c].slots : call[c].slots[p] # Pending

\* Mutant: any Ok response is enough (Iterator::any).
AnyOk(slots) == \E p \in DOMAIN slots : slots[p].st = "ok"

\* publish_register_edit / publish_register_create succeed iff every
\* response received is Ok (Iterator::all over the responses).
AllOk(slots) == \A p \in DOMAIN slots : slots[p].st = "ok"

\* push: pop the oldest cached op and publish it, or finish.
PushNext(c, q) ==
    IF q = <<>>
    THEN /\ call' = [call EXCEPT ![c] = Nil]
         /\ ops' = [ops EXCEPT ![c] = q]
    ELSE \E ps \in LookupSets :
         /\ call' = [call EXCEPT ![c] = FanOut("edit", ps, Last(q))]
         /\ ops' = [ops EXCEPT ![c] = Front(q)]

-----------------------------------------------------------------------------
(* Local operations of a handle *)

\* ClientRegister::create: a new local register, owner = the signer,
\* permissions Anyone -> write; nothing is sent.
Create(c) ==
    /\ reg[c] = Nil
    /\ reg' = [reg EXCEPT ![c] = {}]
    /\ UNCHANGED <<ops, call, replica, used, gen>>

\* write_atop: the permission check passes (Anyone may write), the
\* register's write adds the entry, and the Edit op goes to the front.
\* With online, the *_online variant goes on into push, whose first
\* publish starts before anything else can run on the handle.
WriteAtop(c, v, children, online) ==
    LET e == [v |-> v, parents |-> children] IN
    /\ reg[c] # Nil
    /\ call[c] = Nil
    /\ v \notin used
    /\ reg' = [reg EXCEPT ![c] = @ \cup {e}]
    /\ IF online
       THEN PushNext(c, Cons(e, ops[c]))
       ELSE /\ ops' = [ops EXCEPT ![c] = Cons(e, @)]
            /\ UNCHANGED call
    /\ gen' = [gen EXCEPT ![c] = Append(@, e)]
    /\ used' = used \cup {v}
    /\ UNCHANGED replica

\* write: atop the latest entry; refused (ContentBranchDetected, nothing
\* changes) when the frontier has branches.
Write(c, v, online) ==
    /\ reg[c] # Nil
    /\ Cardinality(Frontier(reg[c])) <= 1
    /\ WriteAtop(c, v, Hashes(Frontier(reg[c])), online)

\* write_merging_branches: atop the whole frontier.
WriteMergingBranches(c, v, online) ==
    /\ reg[c] # Nil
    /\ WriteAtop(c, v, Hashes(Frontier(reg[c])), online)

\* write_online, write_merging_branches_online, write_atop_online: the
\* write (whose error returns first), then push.
WriteOnline(c, v) == Write(c, v, TRUE)
WriteMergingBranchesOnline(c, v) == WriteMergingBranches(c, v, TRUE)
WriteAtopOnline(c, v, children) == WriteAtop(c, v, children, TRUE)

-----------------------------------------------------------------------------
(* Async calls: their start, the close group's handling, their end *)

\* retrieve: get_register for a handle this client does not have yet.
StartRetrieve(c) ==
    /\ reg[c] = Nil
    /\ call[c] = Nil
    /\ \E ps \in LookupSets : call' = [call EXCEPT ![c] = FanOut("retrieve", ps, Nil)]
    /\ UNCHANGED <<reg, ops, replica, used, gen>>

\* sync: first get_register.
StartSync(c) ==
    /\ reg[c] # Nil
    /\ call[c] = Nil
    /\ \E ps \in LookupSets : call' = [call EXCEPT ![c] = FanOut("sync", ps, Nil)]
    /\ UNCHANGED <<reg, ops, replica, used, gen>>

\* push (also the tail of write_online and friends).
StartPush(c) ==
    /\ reg[c] # Nil
    /\ call[c] = Nil
    /\ ops[c] # <<>>
    /\ PushNext(c, ops[c])
    /\ UNCHANGED <<reg, replica, used, gen>>

\* Peer n handles the request of c's call (DataStorage, not under src/):
\* a Get answers its replica or an error; a Create makes an empty
\* register where there is none and is Ok where one exists; an Edit
\* merges the op into an existing register, or fails where there is none.
PeerHandle(c, n) ==
    /\ call[c] # Nil
    /\ n \in DOMAIN call[c].slots
    /\ call[c].slots[n] = Pending
    /\ LET k == call[c].kind
           ans == CASE k \in {"retrieve", "sync"} ->
                          IF replica[n] = Nil THEN Failed ELSE Answer(replica[n])
                    [] k = "create" -> Answer(Nil)
                    [] k = "edit" -> IF replica[n] = Nil THEN Failed ELSE Answer(Nil)
       IN /\ replica' = CASE k = "create" /\ replica[n] = Nil -> [replica EXCEPT ![n] = {}]
                          [] k = "edit" /\ replica[n] # Nil -> [replica EXCEPT ![n] = @ \cup {call[c].op}]
                          [] OTHER -> replica
          /\ call' = [call EXCEPT ![c].slots[n] = ans]
    /\ UNCHANGED <<reg, ops, used, gen>>

\* The 10 s timeout of one peer's request fires first (or the request fails).
Timeout(c, n) ==
    /\ call[c] # Nil
    /\ n \in DOMAIN call[c].slots
    /\ call[c].slots[n] = Pending
    /\ call' = [call EXCEPT ![c].slots[n] = TimedOut]
    /\ UNCHANGED <<reg, ops, replica, used, gen>>

\* Mutant: sync replaces the local replica by the fetched one.
SyncWithReplace(c, fetched) ==
    IF fetched # Nil
    THEN /\ reg' = [reg EXCEPT ![c] = fetched]
         /\ PushNext(c, ops[c])
    ELSE /\ \E ps \in LookupSets : call' = [call EXCEPT ![c] = FanOut("create", ps, Nil)]
         /\ UNCHANGED <<reg, ops>>

\* sync after get_register: merge the fetched replica and push; when the
\* fetch failed (Nil), publish Create first.
SyncWith(c, fetched) ==
    IF fetched # Nil
    THEN /\ reg' = [reg EXCEPT ![c] = @ \cup fetched]
         /\ PushNext(c, ops[c])
    ELSE /\ \E ps \in LookupSets : call' = [call EXCEPT ![c] = FanOut("create", ps, Nil)]
         /\ UNCHANGED <<reg, ops>>

\* get_register is over: the first Ok replica wins (completion order is
\* any order), else an error (Nil).  retrieve makes a handle from it or
\* fails; sync goes on with it.
EndGet(c) ==
    /\ call[c] # Nil
    /\ call[c].kind \in {"retrieve", "sync"}
    /\ AllAnswered(c)
    /\ LET sl == call[c].slots
           oks == {p \in DOMAIN sl : sl[p].st = "ok"}
       IN  \E fetched \in IF oks = {} THEN {Nil} ELSE {sl[p].val : p \in oks} :
              IF call[c].kind = "retrieve"
              THEN /\ reg' = IF fetched = Nil THEN reg ELSE [reg EXCEPT ![c] = fetched]
                   /\ call' = [call EXCEPT ![c] = Nil]
                   /\ UNCHANGED ops
              ELSE SyncWith(c, fetched)
    /\ UNCHANGED <<replica, used, gen>>

\* publish_register_create is over: on all Ok, sync merges its own clone
\* and pushes; otherwise sync returns the error.
EndCreate(c) ==
    /\ call[c] # Nil
    /\ call[c].kind = "create"
    /\ AllAnswered(c)
    /\ \/ /\ AllOk(call[c].slots)
          /\ PushNext(c, ops[c])
       \/ /\ ~AllOk(call[c].slots)
          /\ call' = [call EXCEPT ![c] = Nil]
          /\ UNCHANGED ops
    /\ UNCHANGED <<reg, replica, used, gen>>

\* Mutant: the failed op is put back at the front.
EndEditPushFront(c) ==
    /\ call[c] # Nil
    /\ call[c].kind = "edit"
    /\ AllAnswered(c)
    /\ \/ /\ AllOk(call[c].slots)
          /\ PushNext(c, ops[c])
       \/ /\ ~AllOk(call[c].slots)
          /\ ops' = [ops EXCEPT ![c] = Cons(call[c].op, @)]
          /\ call' = [call EXCEPT ![c] = Nil]
    /\ UNCHANGED <<reg, replica, used, gen>>

\* publish_register_edit is over: on all Ok push goes on with the next
\* op; otherwise the op is put back at the back and push returns.
EndEdit(c) ==
    /\ call[c] # Nil
    /\ call[c].kind = "edit"
    /\ AllAnswered(c)
    /\ \/ /\ AllOk(call[c].slots)
          /\ PushNext(c, ops[c])
       \/ /\ ~AllOk(call[c].slots)
          /\ ops' = [ops EXCEPT ![c] = Append(@, call[c].op)]
          /\ call' = [call EXCEPT ![c] = Nil]
    /\ UNCHANGED <<reg, replica, used, gen>>

-----------------------------------------------------------------------------

Init ==
    /\ reg = [c \in Clients |-> Nil]
    /\ ops = [c \in Clients |-> <<>>]
    /\ call = [c \in Clients |-> Nil]
    /\ replica = [n \in Group |-> Nil]
    /\ used = {}
    /\ gen = [c \in Clients |-> <<>>]

Next ==
    \E c \in Clients :
        \/ Create(c)
        \/ \E v \in ValuesOf[c] : Write(c, v, FALSE) \/ WriteMergingBranches(c, v, FALSE)
        \/ \E v \in ValuesOf[c] : WriteOnline(c, v) \/ WriteMergingBranchesOnline(c, v)
        \/ \E v \in ValuesOf[c] : \E ch \in SUBSET Hashes(IF reg[c] = Nil THEN {} ELSE reg[c]) :
              WriteAtop(c, v, ch, FALSE) \/ WriteAtopOnline(c, v, ch)
        \/ StartRetrieve(c)
        \/ StartSync(c)
        \/ StartPush(c)
        \/ \E n \in Group : PeerHandle(c, n) \/ Timeout(c, n)
        \/ EndGet(c)
        \/ EndCreate(c)
        \/ EndEdit(c)

Spec == Init /\ [][Next]_vars

\* Every request of a fan-out ends, answered or at its 10 s timeout, and the
\* client's task resumes after each await; the user owes no call.
Fairness ==
    \A c \in Clients :
        /\ WF_vars(EndGet(c)) /\ WF_vars(EndCreate(c)) /\ WF_vars(EndEdit(c))
        /\ \A n \in Group : WF_vars(PeerHandle(c, n) \/ Timeout(c, n))

LiveSpec == Spec /\ Fairness

-----------------------------------------------------------------------------
(* Properties *)

\* The cached ops, after the one being published, are exactly the newest
\* ops the handle generated, oldest at the back: writes push_front, push
\* pops the back and a failed op goes back to the back (spec.md 3: "the
\* queue holds ops in generation order; on push failure the failing op is
\* re-enqueued at its original position").
QueueOrder == \A c \in Clients : IsSuffix(InFlight(c) \o Reverse(ops[c]), gen[c])

\* No write is lost: every op a handle generated is still cached, being
\* published, or held by every register of the close group (spec.md 4.4:
\* a register edit succeeds only when all CLOSE_GROUP_SIZE peers say Ok).
NoLostOp ==
    \A c \in Clients : \A i \in 1..Len(gen[c]) :
        LET e == gen[c][i] IN
        \/ e \in ToSet(InFlight(c) \o ops[c])
        \/ \A n \in Group : replica[n] # Nil /\ e \in replica[n]

\* Read your writes: a handle's local replica holds every entry it wrote,
\* across syncs that merge in replicas fetched from single peers
\* (get_register takes the first Ok answer, which may lack them).
ReadYourWrites == \A c \in Clients : reg[c] # Nil => ToSet(gen[c]) \subseteq reg[c]

\* spec.md 8, scenario 6: after a push failed at one peer, "the next sync
\* completes successfully and the queue drains".  For a user who keeps
\* calling sync once no peer times out any more, a handle's cached ops are
\* eventually all pushed and the handle is idle.  sync publishes Create only
\* when get_register fails (register.rs:136-151), and an Edit fails at a
\* peer that holds no register.
SyncDrains ==
    \A c \in Clients :
        ([]<><<StartSync(c)>>_vars /\ ~[]<><<\E d \in Clients, n \in Group : Timeout(d, n)>>_vars)
            => (ops[c] # <<>> ~> (ops[c] = <<>> /\ call[c] = Nil))

=============================================================================
