----------------------------- MODULE MCLedgers -----------------------------
(***************************************************************************)
(* Instances of the components that keep money and authority: the native   *)
(* ledger, EVM transactions, stakes, Merkle proofs, the tool market, the   *)
(* wallet's capabilities and purses, agent policies and agent life.        *)
(*                                                                         *)
(* The components share no state, so a behaviour is chosen to be one of    *)
(* them (part) while the others stay where they start: every behaviour of  *)
(* each component is a behaviour of this specification, and the states of  *)
(* the components add up instead of multiplying.                           *)
(***************************************************************************)
EXTENDS NativeLedger, MerkleProofs, Stakes, ToolMarket, WalletAuthority, AgentPolicy, AgentLife, Evm

VARIABLE part   \* the component that runs

Parts == {"ledger", "merkle", "validators", "providers", "market", "wallet", "policy", "life", "evm"}

MCInit ==
  /\ part \in Parts
  /\ LedgerInit /\ (part # "ledger" => schedule = CHOOSE s \in GenesisSchedules : TRUE)
  /\ MerkleInit /\ StakeInit /\ ProviderInit /\ MarketInit /\ WalletInit
  /\ PolicyInit /\ LifeInit /\ EvmInit

MCNext ==
  /\ UNCHANGED part
  /\ IF part = "ledger"     THEN LedgerNext   ELSE UNCHANGED ledgerVars
  /\ IF part = "merkle"     THEN MerkleNext   ELSE UNCHANGED merkleVars
  /\ IF part = "validators" THEN StakeNext    ELSE UNCHANGED stakeVars
  /\ IF part = "providers"  THEN ProviderNext ELSE UNCHANGED providerVars
  /\ IF part = "market"     THEN MarketNext   ELSE UNCHANGED marketVars
  /\ IF part = "wallet"     THEN WalletNext   ELSE UNCHANGED walletVars
  /\ IF part = "policy"     THEN PolicyNext   ELSE UNCHANGED policyVars
  /\ IF part = "life"       THEN LifeNext     ELSE UNCHANGED lifeVars
  /\ IF part = "evm"        THEN EvmNext      ELSE UNCHANGED evmVars

MCVars == <<part, ledgerVars, merkleVars, stakeVars, providerVars, marketVars, walletVars,
            policyVars, lifeVars, evmVars>>

MCSpec == MCInit /\ [][MCNext]_MCVars

-----------------------------------------------------------------------------
(* NativeLedger *)

MCReceipts == {[id |-> "r", worker |-> 1, score |-> 0], [id |-> "s", worker |-> 2, score |-> 2]}
MCBatches  ==
  {[id |-> "x", operator |-> "g", sig |-> NoSig, receipts |-> <<[id |-> "r", worker |-> 1, score |-> 0], [id |-> "s", worker |-> 2, score |-> 2]>>,
    entries |-> <<[account |-> "a", amount |-> 1], [account |-> "g", amount |-> 2]>>],
   [id |-> "x", operator |-> "a", sig |-> "k", receipts |-> <<>>,
    entries |-> <<[account |-> "a", amount |-> 2], [account |-> "g", amount |-> 1]>>]}
MCLifeCommands ==
  {[id |-> 1, kind |-> "payout", soul |-> "u", other |-> "v", amount |-> 2, payload |-> 1],
   [id |-> 2, kind |-> "bond", soul |-> "u", other |-> NoOne, amount |-> 1, payload |-> 1],
   [id |-> 3, kind |-> "sale", soul |-> "u", other |-> NoOne, amount |-> 1, payload |-> 1],
   [id |-> 4, kind |-> "reaper", soul |-> "u", other |-> NoOne, amount |-> 0, payload |-> 1]}
MCSchedules ==
  {[total |-> 23, quarters |-> 2, decay |-> 94, blocks |-> 2, provider |-> 55, consensus |-> 20,
    intelligence |-> 25, storage |-> 40, compute |-> 40, txs |-> 20, royalty |-> 50, bond |-> 1],
   [total |-> 10, quarters |-> 3, decay |-> 50, blocks |-> 1, provider |-> 55, consensus |-> 20,
    intelligence |-> 25, storage |-> 40, compute |-> 40, txs |-> 20, royalty |-> 10, bond |-> 1],
   [total |-> 9, quarters |-> 1, decay |-> 100, blocks |-> 1, provider |-> 80, consensus |-> 60,
    intelligence |-> 0, storage |-> 40, compute |-> 40, txs |-> 20, royalty |-> 10, bond |-> 1]}

-----------------------------------------------------------------------------
(* MerkleProofs *)

MReceipts == {[number |-> 1, task |-> "t", cost |-> 1], [number |-> 1, task |-> "t", cost |-> 2], [number |-> 2, task |-> "t", cost |-> 2], [number |-> 2, task |-> "u", cost |-> 1]}

-----------------------------------------------------------------------------
(* ToolMarket *)

MCQuotes ==
  {[intent |-> "i", provider |-> "p", price |-> 1, expiry |-> 1],
   [intent |-> "i", provider |-> "q", price |-> 2, expiry |-> 2],
   [intent |-> "j", provider |-> "p", price |-> 2, expiry |-> 0],
   [intent |-> "j", provider |-> "p", price |-> 3, expiry |-> 2]}
MCTierOf == [i |-> "optimistic", j |-> "trusted", k |-> "optimistic"]
MCClassOf == [i |-> "web", j |-> "web"]
MCMaxPriceOf == [i |-> 2, j |-> 3]
MCClientOf == [i |-> "a", j |-> "a"]
MCStakeOf == [p |-> 8, q |-> 4]
MCRep == [success |-> 20, halfLife |-> 1, slash |-> 10, age |-> 15, day |-> 2, stakeLog |-> 15, diversity |-> 10,
          maxClients |-> 1, micro |-> 12, milli |-> 10, zeroStake |-> 30, fullTrust |-> 4, bps |-> 10]
MCCapOf == [web |-> 3]

-----------------------------------------------------------------------------
(* WalletAuthority *)

MCScopes ==
  {[ws |-> Anywhere, mask |-> {"t", "u"}, providers |-> Anywhere], [ws |-> "w", mask |-> {"t", "u"}, providers |-> {"b"}],
   [ws |-> "w", mask |-> {"t"}, providers |-> Anywhere], [ws |-> "w", mask |-> {"t"}, providers |-> {"b", "c"}]}
MCTokens ==
  {[id |-> i, parent |-> i - 1, issuer |-> IF i = 1 THEN "m" ELSE "n", scope |-> s, spend |-> n, norec |-> FALSE, from |-> 0,
    until |-> u] : i \in 1 .. 3, s \in MCScopes, n \in {1, 2}, u \in {1}}
MCReceiptOf == [r \in {"x", "y", "z"} |-> [cost |-> 1, provider |-> "b", class |-> "t", signed |-> r # "z"]]
MCToolBatches ==
  {[id |-> 1, receipts |-> <<"x", "y">>, cost |-> 2, class |-> "t", payer |-> "a", payee |-> "b"],
   [id |-> 2, receipts |-> <<"y">>, cost |-> 1, class |-> "t", payer |-> "a", payee |-> "b"],
   [id |-> 3, receipts |-> <<"x", "z">>, cost |-> 2, class |-> "t", payer |-> "a", payee |-> "b"],
   [id |-> 4, receipts |-> <<"x", "x">>, cost |-> 2, class |-> "t", payer |-> "a", payee |-> "b"]}
MCStops ==
  {[master |-> "m", ws |-> "w", mask |-> {"u"}, provider |-> "b"], [master |-> "n", ws |-> Anywhere, mask |-> {}, provider |-> Anywhere]}

-----------------------------------------------------------------------------
(* AgentPolicy *)

MCTemplates ==
  {[id |-> i, inherits |-> p, caveats |-> <<TotalSpend(i)>>, limits |-> l, attestations |-> a, budget |-> i] :
     i \in 4 .. 5, p \in {0, 1, 4, 5}, l \in {"web" :> 1, Empty}, a \in {{}, {"sgx"}}}
MCCandidates == [price: {1, 2}, latency: {1, 3}, reputation: {0, 1000}, stake: {1, 2}]
MCVerifiers == [weight: {0, 1, 2}, reputation: {0, 2}]
MCExpectations == {<<>>, <<"m">>}
MCAttempts == {<<"LlmInference", 1>>, <<"Browser", 1>>, <<"FileStorage", 1>>, <<"GpuJob", 1>>, <<"GpuJob", 2>>,
               <<"CodeExecution", 2>>, <<"GithubRead", 0>>}
MCRequired == {<<"CodeExecution", "AmdSevSnp">>}
MCGates == [latency |-> 2, product |-> 1]

-----------------------------------------------------------------------------
(* AgentLife *)

\* A parent and its two children.
MCSouls == 1 :> [balance |-> 3, parent |-> 0] @@ 2 :> [balance |-> 1, parent |-> 1] @@ 3 :> [balance |-> 2, parent |-> 1]

\* Wills for living heirs, for heirs of which one may be dead by then, and for one to be born.
MCWills == {<<1, {2, 3}, {}>>, <<1, {}, {4}>>, <<2, {1, 3}, {4}>>, <<3, {2}, {}>>}

-----------------------------------------------------------------------------
\* Money outside the native ledger is accounted for: in the estates of souls
\* (agent-life/src/lib.rs) and in the stakes of validators and providers
\* (consensus_stake.rs, block_finalize.rs, wallet_provider.rs), through deaths,
\* slashes, rewards and withdrawals in any order.  None is made; it is lost
\* only without an heir, by a burn, a slash or a reward taken for nobody.
MoneyConserved ==
  /\ EstatesSafe /\ StakesSafe

\* What no step may do: replace a first commitment (core/src/state.rs), mint
\* anything below a revoked capability (wallet_native.rs), end a soul that
\* was not found broke by an earlier call, the whole grace of epochs before
\* (agent-life/src/lib.rs), or move a nonce by anything but one for a
\* transaction of its signer (evm/src/engine.rs).
NeverUndone ==
  /\ FirstWriteStands /\ NothingBelowRevoked /\ GraceGranted
  /\ NonceOncePerTx

=============================================================================
