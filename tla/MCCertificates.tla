--------------------------- MODULE MCCertificates ---------------------------
(***************************************************************************)
(* The two kinds of certificates that validators sign.                     *)
(*                                                                         *)
(* "votes": blocks "a" and "b" compete at height 1; block "c" follows "a"  *)
(* at height 2 and makes the node prune.  A behaviour is about the rivals  *)
(* or about the block and its successor (blocks).                          *)
(*                                                                         *)
(* "objects": two transactions of one account compete for nonce 0:         *)
(* "update" also touches agent "a", "noop" only the nonce.  "later" has    *)
(* nonce 1 and also touches "a".  "transfer" is on the consensus path and  *)
(* takes nonce 0.                                                          *)
(*                                                                         *)
(* The components share no state but the validator set, so a behaviour is  *)
(* one of them while the other stays where it starts.                      *)
(***************************************************************************)
EXTENDS VotePool, OwnedObjects

CONSTANT MaxRestarted   \* bound: validators that resume from a snapshot

VARIABLES
  part,    \* the component that runs
  blocks   \* the two blocks the validators build and vote for

MCInit ==
  /\ Init /\ OwnedInit
  /\ \/ part = "votes" /\ blocks \in {{"a", "b"}, {"a", "c"}}
     \/ part = "objects" /\ blocks = {}

VotesNext ==
  /\ Next
  /\ \A v \in Honest : committed'[v] \subseteq blocks
  /\ Cardinality(restarted') <= MaxRestarted
  /\ {v.hash : v \in entries'} \subseteq blocks

MCNext ==
  /\ IF part = "votes" THEN VotesNext ELSE UNCHANGED vars
  /\ IF part = "objects" THEN OwnedNext ELSE UNCHANGED ownedVars
  /\ UNCHANGED <<part, blocks>>

MCSpec == MCInit /\ [][MCNext]_<<vars, ownedVars, part, blocks>>
-----------------------------------------------------------------------------
MCHeightOf == [hh \in Hashes |-> IF hh = "c" THEN 2 ELSE 1]
MCViewOf   == [hh \in Hashes |-> IF hh = "c" THEN 1 ELSE 0]
MCIndices  == 0 .. N

MCTxs         == {"update", "noop", "later", "transfer"}
MCOwnedTxs    == Txs \ {"transfer"}
MCObjects     == {"nonce", "a"}
MCObjectsOf   == [t \in Txs |-> IF t \in {"update", "later"} THEN {"nonce", "a"} ELSE {"nonce"}]
MCNonceObject == [t \in Txs |-> "nonce"]
MCNonceOf     == [t \in Txs |-> IF t = "later" THEN 1 ELSE 0]
=============================================================================
