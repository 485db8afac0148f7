---------------------------- MODULE MCNodeChain ----------------------------
(***************************************************************************)
(* Two accounts with two transactions each.  "a1" pays more than "a0" and  *)
(* is drained before it, out of nonce order; "b0" and "b1" are             *)
(* owned-object transactions on one object, of which a block holds one, so *)
(* a failed build of these leaves nothing behind.  A block holds "b1"      *)
(* alone or two others and is full then, which raises the base fee beyond  *)
(* what "a0" offers.                                                       *)
(***************************************************************************)
EXTENDS NodeChain

MCTxs       == {"a0", "a1", "b0", "b1"}
MCOwnedOnly == {"b0", "b1"}
MCOwned     == Txs \cap {"b0", "b1"}
MCObjectsOf == [t \in Txs |-> IF t \in MCOwned THEN {"b"} ELSE {}]
MCPriority  == [t \in Txs |-> IF t = "a1" THEN 2 ELSE 1]
MCMaxFee    == [t \in Txs |-> IF t = "a0" THEN 1 ELSE 9]
MCGas       == [t \in Txs |-> IF t = "b1" THEN 2 ELSE 1]
MCAccountOf == [t \in Txs |-> IF t \in {"a0", "a1"} THEN "a" ELSE "b"]
MCNonceOf   == [t \in Txs |-> IF t \in {"a0", "b0"} THEN 0 ELSE 1]
=============================================================================
