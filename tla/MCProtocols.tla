---------------------------- MODULE MCProtocols ----------------------------
(***************************************************************************)
(* Instances of the components that order blocks, prove them and keep      *)
(* them: execution zones and the masterchain, its validators, the BFT wire *)
(* formats and the publisher of votes, HyperBFT, block payloads, validity  *)
(* proofs, checkpoints with the light client, and storage.                 *)
(*                                                                         *)
(* A behaviour is one of a single component (part) while the others stay   *)
(* where they start.  The masterchain owns the zone registry, so the two   *)
(* share it: "zones" is the registry on its own, with two zones.           *)
(***************************************************************************)
EXTENDS Masterchain, BlockProofs, BftWire, HyperBft, BlockPayload, CheckpointChain, ChainStore

CONSTANT Parts  \* the components that may run

VARIABLE part   \* the one that does

MCInit ==
  /\ part \in Parts
  /\ McInit /\ BftInit /\ ProofsInit /\ WireInit /\ PublisherInit /\ HyperInit /\ CheckpointInit
  /\ PayloadInit /\ (part # "payload" => payloadMode = (CHOOSE m \in Modes : TRUE) /\ ~rlvrActive)
  /\ StoreInit /\ (part # "store" => storeExam = UseRows)

\* Bounds: the registry on its own stays below height 3, the masterchain has
\* zone "a" only, stray votes are of view 0, proofs meet one fork and are of
\* one kind at a time, and the validators of the wire time out or restart.
ZonesBound == registry'.height < 3
ProofsBound ==
  /\ Cardinality(orphans') < 2
  /\ included' # <<>> \/ DOMAIN pool' # {} => metrics' = NoMetrics /\ unwritten' = {}
  /\ \A b \in DOMAIN finalized', c \in DOMAIN store' : finalized'[b].envelope.kind = store'[c].envelope.kind
WireBound == timeouts' = {} \/ rewound' = {}
StrayBound == \A s \in strays' : s.view = 0
McBound == DOMAIN registry'.zones \subseteq {"a"}

MCNext ==
  /\ UNCHANGED part
  /\ CASE part = "zones"       -> ZonesNext /\ ZonesBound /\ UNCHANGED <<ledgerStateVars, mcView, mcCalls>>
       [] part = "masterchain" -> McNext /\ McBound
       [] OTHER                -> UNCHANGED mcVars
  /\ IF part = "bft"        THEN BftNext /\ BftBound' /\ StrayBound ELSE UNCHANGED bftVars
  /\ IF part = "proofs"     THEN ProofsNext /\ ProofsBound ELSE UNCHANGED proofVars
  /\ IF part = "wire"       THEN WireNext /\ WireBound ELSE UNCHANGED wireVars
  /\ IF part = "publisher"  THEN PublisherNext  ELSE UNCHANGED publisherVars
  /\ IF part = "hyperbft"   THEN HyperNext      ELSE UNCHANGED hyperVars
  /\ IF part = "payload"    THEN PayloadNext    ELSE UNCHANGED payloadVars
  /\ IF part = "checkpoint" THEN CheckpointNext ELSE UNCHANGED checkpointVars
  /\ IF part = "store"      THEN StoreNext      ELSE UNCHANGED storeVars

MCVars == <<part, mcVars, bftVars, proofVars, wireVars, publisherVars, hyperVars, payloadVars, checkpointVars, storeVars>>

\* masterchain_bft_producer_loop tries a round every block time.
MCSpec == MCInit /\ [][MCNext]_MCVars /\ WF_mcVars(part = "masterchain" /\ SealRound)

-----------------------------------------------------------------------------
(* Masterchain *)

MCTimeoutOf == [a |-> 2, b |-> 1]
MCEvmCapable == [a |-> FALSE, b |-> TRUE]
MCTxs == {[zone |-> "a", tx |-> 1], [zone |-> "b", tx |-> 1]}
MCMessages == {[from |-> "a", to |-> "b", nonce |-> 1]}
Sub(s, a, b, p, d, l) == [shard |-> s, start |-> a, end |-> b, prover |-> p, digest |-> d, lag |-> l]
MCSubmissions == {Sub(0, 1, 1, "p", 1, 0), Sub(0, 1, 2, "q", 2, 2), Sub(1, 2, 1, "q", 1, 0), Sub(1, 1, 2, "p", 1, 0)}
MCStatements == {[shard |-> 0, start |-> 1, end |-> 1, digest |-> 1]}

-----------------------------------------------------------------------------
(* BlockProofs *)

MCBodies == {<<"shared">>, <<"owned", "dispatch">>}
MCUpdates == {[zone |-> 1, height |-> 1, root |-> 1, fee |-> 1], [zone |-> 1, height |-> 1, root |-> 2, fee |-> 1],
              [zone |-> 2, height |-> 1, root |-> 1, fee |-> 2]}

-----------------------------------------------------------------------------
(* BftWire *)

\* Four validators of unequal stake, whose thresholds by stake and by count differ.
MCStake == 0 :> 2 @@ 1 :> 1 @@ 2 :> 1 @@ 3 :> 1

\* Two blocks of one height.
MCHeights == "a" :> 1 @@ "b" :> 1

-----------------------------------------------------------------------------
(* BlockPayload *)

MCPayloadTxs == {"tc", "to", "ts", "tf"}
MCTxClass == [t \in MCPayloadTxs |-> CASE t = "tc" -> "commitment" [] t = "to" -> "owned"
                                [] t = "ts" -> "shared" [] t = "tf" -> "failing"]
MCUpdateLeaf == [u \in {"u1", "u2"} |-> "u"]
MCCertTx == "c1" :> "to" @@ "c2" :> "to" @@ "c3" :> "tc"
MCCertVersions == "c1" :> {"v1"} @@ "c2" :> {"v1"} @@ "c3" :> {"v2"}

-----------------------------------------------------------------------------
(* CheckpointChain *)

Block(h, parent, txs) == [height |-> h, parent |-> parent, txs |-> txs, txRoot |-> txs]
B1 == Block(1, <<>>, <<>>)
B2 == Block(2, BlockHash(B1), <<"t1">>)
C2 == Block(2, BlockHash(B1), <<"t2">>)
C3 == Block(3, BlockHash(C2), <<>>)
CheckForks == {<<B1, B2>>, <<B1, C2, C3>>}
CheckCopies == {B1, B2, C2, C3, [B2 EXCEPT !.txs = <<"t2">>], [C3 EXCEPT !.txs = <<"t1">>]}
CheckAnchors == {[s \in {0, 1} |-> [height |-> 2, root |-> "r"]],
                 [s \in {0, 1} |-> [height |-> 2, root |-> IF s = 0 THEN "q" ELSE "r"]]}
Claim(s, a, b, d) == [shard |-> s, start |-> a, end |-> b, digest |-> [kind |-> "stark", job |-> d]]
State(p) == [shard |-> p.shard, start |-> p.start, end |-> p.end, header |-> "h", parent |-> "g", digest |-> p.digest]
CheckSubs == {<<>>, <<Claim(0, 1, 1, "d1")>>, <<Claim(0, 1, 1, "d2")>>, <<Claim(1, 1, 2, "d1"), Claim(0, 2, 2, "d1")>>}
CheckProofs ==
  {[subs |-> s, verified |-> <<>>] : s \in CheckSubs} \cup {[subs |-> s, verified |-> [i \in DOMAIN s |-> State(s[i])]] : s \in CheckSubs}

-----------------------------------------------------------------------------
(* ChainStore *)

Tx(hash, eth, native) == [hash |-> hash, eth |-> eth, native |-> native]
StoreTxs ==
  [p \in {0, 1} \X (1 .. 3) |->
     CASE p[2] = 1 -> <<Tx(<<1, 0, 0>>, <<9, 0, 0>>, FALSE)>>
       [] p[2] = 2 -> <<Tx(<<1, 0, p[1] + 1>>, <<>>, TRUE)>>
       [] OTHER -> <<>>]
StoreHeights == (0 :> 2) @@ (1 :> 1)
StoreNodes == [p \in {0, 1} \X (1 .. 3) |-> {<<5, 0, 0>>, <<5, p[1], p[2]>>}]
Proved(s, a, b) == [shard |-> s, start |-> a, end |-> b]
StoreProofs == {{Proved(0, 1, 1)}, {Proved(0, 1, 2), Proved(1, 1, 1)}, {Proved(1, 1, 1)}}
StoreTries == (SUBSET [1 .. 2 -> 0 .. 2] \cup SUBSET [1 .. 3 -> {0, 2}]) \ {{}}
StoreStates == {<<>>, <<0, 1>>, <<1, 0, 1>>}

-----------------------------------------------------------------------------
\* The three ways of voting (masterchain/src/bft.rs, bft-wire,
\* hyperbft_tick.rs): a second block of a view takes a restart of its proposer
\* or a message whose vote does not verify, and there is no view without a
\* quorum behind it although gossip is lost and repeated and rounds fail;
\* conflicting certificates convict a faulty validator or one that restarted
\* from an older snapshot, and evidence convicts one that follows the code for
\* nothing else but two timeouts of a view; the pipeline commits a linked
\* chain of which only the tip lacks a certificate; and a node's own votes
\* (node/src/p2p.rs) go out in order under one identity.
VotingSafe ==
  /\ OneBlockPerView /\ ViewsBacked /\ HonestUnpunished /\ ConflictsConvict
  /\ TimeoutCertGenuine /\ OnlyTipUncertified /\ ChainLinked
  /\ NewestVoteKept /\ VotesGoOutInOrder /\ IdentityIsKept

=============================================================================
