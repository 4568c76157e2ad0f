----------------------------- MODULE SpendLedger -----------------------------
(***************************************************************************)
(* What the spend network promises (spec.md 4.3 and 5): each one-time id   *)
(* is committed at most once, never changes once committed, and a spend    *)
(* commits only if its source tx verifies and every input of that tx is    *)
(* already committed to it.  SpendNode implements it: the ledger's entry  *)
(* for an id is the spend every node of the id's close group holds.        *)
(***************************************************************************)
CONSTANTS DbcIds, Txs, TxInputs, TxVerifies, Spends, Nil

VARIABLE spent  \* spent[d]: the spend committed for id d, or Nil

Init == spent = [d \in DbcIds |-> Nil]

Commit(s) ==
    /\ spent[s.id] = Nil
    /\ s.src \in TxVerifies
    /\ \A d \in TxInputs[s.src] : spent[d] # Nil /\ spent[d].dst = s.src
    /\ spent' = [spent EXCEPT ![s.id] = s]

Next == \E s \in Spends : Commit(s)

Spec == Init /\ [][Next]_spent

=============================================================================
