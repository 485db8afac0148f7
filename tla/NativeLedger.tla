---------------------------- MODULE NativeLedger ----------------------------
(***************************************************************************)
(* The native calls of crates/core/src/state.rs on the accounts and the    *)
(* records of the chain state: agents, receipts, settlement batches and    *)
(* the claims on them, disputes, stakes, delegations, anchors and life     *)
(* commands; and the protocol emission of crates/core/src/                 *)
(* chain_economics.rs with its pools.                                      *)
(*                                                                         *)
(* A call is one step.  A call that fails changes nothing, except where an *)
(* action says so: nothing undoes what a failing call already did.  Hashes *)
(* are collision free, so the Merkle proof of a payout exists exactly for  *)
(* the entries of the batch (module MerkleProofs).  Every signer has an    *)
(* account and uses its next nonce (module NodeChain has the nonces).      *)
(***************************************************************************)
EXTENDS Values, Functions

CONSTANTS
  Accounts,
  Governance,     \* the governance account, or NoOne: everybody governs
  NoOne,
  Grant,          \* the balance of every account at genesis
  Amounts,        \* amounts of stakes and transfers
  Batches,        \* SettleBatchPayloads: id, operator, entries, receipts, sig
  Receipts,       \* OnChainTaskReceipts: id, worker, pay, score
  Keys, NoSig,    \* keys of agents; NoSig is the all-zero operator_sig
  Hashes,         \* commitments to anchor
  LifeCommands,   \* LifeCommandV1s: id, kind, soul, other, amount, payload
  Schedules,      \* EmissionParams
  Bps,            \* 10_000 basis points
  WeightOne,      \* the weight of the first quarter
  MaxWei,         \* u128::MAX
  MaxSupply,      \* MAX_SUPPLY_WEI
  MaxCalls,       \* bound: native calls
  MaxBlocks       \* bound: blocks

ASSUME NativeLedgerAssumption ==
  /\ Governance \in Accounts \cup {NoOne} /\ NoOne \notin Accounts
  /\ Grant \in Nat /\ Amounts \subseteq Nat \ {0}
  /\ NoSig \notin Keys
  /\ Bps \in Nat \ {0} /\ WeightOne \in Nat \ {0} /\ MaxWei \in Nat /\ MaxSupply \in Nat
  /\ MaxCalls \in Nat /\ MaxBlocks \in Nat

VARIABLES
  balances, stakes, delegated,   \* accounts, stakes, delegations to a validator
  agents,                        \* agents[i] of address_to_agent and agents, by id
  nextAgent,                     \* next_agent_id
  settled,                       \* receipts: ids of settled receipts
  batches, claimed,              \* batches by id; claimed_payouts
  disputes,                      \* the status of every dispute
  anchors,                       \* wallet_task_receipt_anchors and proof_commitments,
                                 \* two maps: by <<"receipt", hash>> and <<"proof", hash>>
  lifeCommands, artifacts, bonds, payouts,  \* the life_* records
  pools,                         \* minted, the emission pools, rollover, subsidies
  schedule,                      \* chain_economics.emission
  amended,                       \* "never", or whether every change of it was valid
  height, calls

accountVars  == <<balances, stakes, delegated>>
recordVars   == <<agents, nextAgent, settled, batches, claimed, disputes, anchors>>
commandVars     == <<lifeCommands, artifacts, bonds, payouts>>
emissionVars == <<pools, schedule, amended, height>>
ledgerVars   == <<accountVars, recordVars, commandVars, emissionVars, calls>>

Saturate(x) == IF x > MaxWei THEN MaxWei ELSE x

\* EmissionParams::disabled
Disabled == [total |-> 0, quarters |-> 0, decay |-> 0, blocks |-> 0, provider |-> 0, consensus |-> 0,
             intelligence |-> 0, storage |-> 0, compute |-> 0, txs |-> 0, royalty |-> 0, bond |-> 0]

\* EmissionParams::validate
ScheduleValid(p) ==
  p = Disabled \/ /\ p.total # 0 /\ p.quarters # 0 /\ p.blocks # 0 /\ p.decay <= Bps
                  /\ p.provider + p.consensus + p.intelligence = Bps
                  /\ p.storage + p.compute + p.txs = Bps

\* load_emission_params_from_life_genesis: the genesis file has a valid
\* emission section or none.
GenesisSchedules == {p \in Schedules : ScheduleValid(p)} \cup {Disabled}

Governs(s) == Governance = NoOne \/ s = Governance   \* require_governance
-----------------------------------------------------------------------------
\* decay_weights
Weights(p) ==
  LET w[q \in 0 .. p.quarters] ==
        IF q = 0 THEN WeightOne ELSE Saturate(w[q - 1] * p.decay) \div Bps
  IN w

TotalWeight(p) == SumOver(0 .. p.quarters - 1, LAMBDA q : Weights(p)[q])

Allotted(p, q) == Saturate(p.total * Weights(p)[q]) \div TotalWeight(p)

\* Seeded defect: the last quarter gets its own allotment, not the rest.
BudgetRounded(p, q) == IF q >= p.quarters THEN 0 ELSE Allotted(p, q)

\* emission_budget_for_quarter: the last quarter gets what is left.
Budget(p, q) ==
  IF q >= p.quarters THEN 0
  ELSE IF q + 1 = p.quarters
       THEN Minus(p.total, SumOver(0 .. q - 1, LAMBDA r : Allotted(p, r)))
       ELSE Allotted(p, q)

\* emission_for_block: the first blocks of a quarter get the remainder.
EmissionFor(p, h) ==
  IF p.blocks = 0 THEN 0
  ELSE LET b == Budget(p, h \div p.blocks)
  IN b \div p.blocks + (IF h % p.blocks < b % p.blocks THEN 1 ELSE 0)

\* split_emission_block
Split(p, total) ==
  LET provider == Saturate(total * p.provider) \div Bps
      consensus == Saturate(total * p.consensus) \div Bps
  IN [provider |-> provider, consensus |-> consensus,
      intelligence |-> Minus(Minus(total, provider), consensus)]

\* distribute_provider_pool_for_receipts for the receipts rs: the budgets are
\* split by score and by count, and the last receipt gets what is left.
Subsidies(p, pool, rs) ==
  LET storage == Saturate(pool * p.storage) \div Bps
      compute == Saturate(pool * p.compute) \div Bps
      txs == Minus(Minus(pool, storage), compute)
      score(i) == Max({rs[i].score, 1})
      total == SumOver(DOMAIN rs, score)
      part(i) == <<Saturate(compute * score(i)) \div total, txs \div Len(rs)>>
      before == DOMAIN rs \ {Len(rs)}
      paid(k) == SumOver(before, LAMBDA i : part(i)[k])
  IN [rollover |-> storage,
      to |-> [i \in DOMAIN rs |->
                IF i < Len(rs) THEN part(i)[1] + part(i)[2]
                ELSE Minus(compute, paid(1)) + Minus(txs, paid(2))]]

Distribute(rs) ==
  IF rs = <<>> \/ pools.provider = 0 THEN pools
  ELSE LET s == Subsidies(schedule, pools.provider, rs)
       IN [pools EXCEPT !.provider = 0,
                        !.rollover = @ + s.rollover,
                        !.subsidy = @ + SumOver(DOMAIN rs, LAMBDA i : s.to[i])]
-----------------------------------------------------------------------------
LedgerInit ==
  /\ balances = [a \in Accounts |-> Grant]
  /\ stakes = [a \in Accounts |-> 0]
  /\ delegated = [p \in Accounts \X Accounts |-> 0]
  /\ agents = Empty /\ nextAgent = 1
  /\ settled = {}
  /\ batches = Empty /\ claimed = {}
  /\ disputes = <<>>
  /\ anchors = Empty
  /\ lifeCommands = Empty /\ artifacts = {} /\ payouts = <<>>
  /\ bonds = Empty
  /\ pools = [minted |-> 0, provider |-> 0, consensus |-> 0, intelligence |-> 0,
              rollover |-> 0, subsidy |-> 0]
  /\ schedule \in GenesisSchedules /\ amended = "never"
  /\ height = 0 /\ calls = 0

Call == calls < MaxCalls /\ calls' = calls + 1

\* apply_transfer
Transfer(s, to, n) ==
  /\ Call
  /\ balances[s] >= n
  /\ balances' = LET b == [balances EXCEPT ![s] = @ - n] IN [b EXCEPT ![to] = @ + n]
  /\ UNCHANGED <<stakes, delegated, recordVars, commandVars, emissionVars>>

\* RegisterAgent.  The id is taken also when the signer already has an agent.
RegisterAgent(s, key) ==
  /\ Call
  /\ nextAgent' = nextAgent + 1
  /\ agents' = IF \E i \in DOMAIN agents : agents[i].address = s THEN agents
               ELSE Put(agents, nextAgent, [address |-> s, key |-> key, suspended |-> FALSE])
  /\ UNCHANGED <<accountVars, settled, batches, claimed, disputes, anchors, commandVars, emissionVars>>

UpdateAgent(s, i, key) ==
  /\ Call
  /\ agents[i].address = s
  /\ agents' = [agents EXCEPT ![i].key = key]
  /\ UNCHANGED <<accountVars, nextAgent, settled, batches, claimed, disputes, anchors, commandVars,
                 emissionVars>>

SuspendAgent(s, i) ==
  /\ Call
  /\ Governs(s)
  /\ agents' = [agents EXCEPT ![i].suspended = TRUE]
  /\ UNCHANGED <<accountVars, nextAgent, settled, batches, claimed, disputes, anchors, commandVars,
                 emissionVars>>

SettleReceipt(r) ==
  /\ Call
  /\ r.id \notin settled
  /\ settled' = settled \cup {r.id}
  /\ pools' = Distribute(<<r>>)
  /\ UNCHANGED <<accountVars, agents, nextAgent, batches, claimed, disputes, anchors, commandVars,
                 schedule, amended, height>>

TotalOf(entries) == SumOver(DOMAIN entries, LAMBDA i : entries[i].amount)

\* The signature of the batch is checked only if the operator has an agent.
SignatureHolds(p) ==
  p.sig = NoSig \/ \A i \in DOMAIN agents : agents[i].address = p.operator => p.sig = agents[i].key

\* Seeded defect: the operator is not debited the payouts.
SettleBatchFree(p) ==
  /\ Call
  /\ \A i \in DOMAIN p.receipts : p.receipts[i].id \notin settled
  /\ balances[p.operator] >= TotalOf(p.entries)
  /\ SignatureHolds(p)
  /\ batches' = Put(batches, p.id, p)
  /\ settled' = settled \cup {p.receipts[i].id : i \in DOMAIN p.receipts}
  /\ pools' = Distribute(p.receipts)
  /\ UNCHANGED <<accountVars, agents, nextAgent, claimed, disputes, anchors, commandVars, schedule,
                 amended, height>>

\* apply_settle_batch.  A batch with the id of an earlier one replaces it.  The
\* operator is debited before the signature is checked.
SettleBatch(p) ==
  /\ Call
  /\ \A i \in DOMAIN p.receipts : p.receipts[i].id \notin settled
  /\ balances[p.operator] >= TotalOf(p.entries)
  /\ balances' = [balances EXCEPT ![p.operator] = @ - TotalOf(p.entries)]
  /\ IF SignatureHolds(p)
     THEN /\ batches' = Put(batches, p.id, p)
          /\ settled' = settled \cup {p.receipts[i].id : i \in DOMAIN p.receipts}
          /\ pools' = Distribute(p.receipts)
     ELSE UNCHANGED <<batches, settled, pools>>
  /\ UNCHANGED <<stakes, delegated, agents, nextAgent, claimed, disputes, anchors, commandVars,
                 schedule, amended, height>>

\* apply_claim_payout: anybody may claim the payout for its account.
ClaimPayout(b, i) ==
  /\ Call
  /\ <<b, i>> \notin claimed
  /\ claimed' = claimed \cup {<<b, i>>}
  /\ balances' = [balances EXCEPT ![batches[b].entries[i].account] = @ + batches[b].entries[i].amount]
  /\ UNCHANGED <<stakes, delegated, agents, nextAgent, settled, batches, disputes, anchors, commandVars,
                 emissionVars>>

\* FileDispute: of any receipt, settled or not, as often as one likes.
FileDispute ==
  /\ Call
  /\ disputes' = Append(disputes, "open")
  /\ UNCHANGED <<accountVars, agents, nextAgent, settled, batches, claimed, anchors, commandVars,
                 emissionVars>>

\* ResolveDispute: payouts_diff is ignored.
ResolveDispute(s, d) ==
  /\ Call
  /\ Governs(s)
  /\ disputes' = [disputes EXCEPT ![d] = "resolved"]
  /\ UNCHANGED <<accountVars, agents, nextAgent, settled, batches, claimed, anchors, commandVars,
                 emissionVars>>

Stake(s, n) ==
  /\ Call
  /\ balances[s] >= n
  /\ balances' = [balances EXCEPT ![s] = @ - n]
  /\ stakes' = [stakes EXCEPT ![s] = @ + n]
  /\ UNCHANGED <<delegated, recordVars, commandVars, emissionVars>>

Unstake(s, n) ==
  /\ Call
  /\ stakes[s] >= n
  /\ stakes' = [stakes EXCEPT ![s] = @ - n]
  /\ balances' = [balances EXCEPT ![s] = @ + n]
  /\ UNCHANGED <<delegated, recordVars, commandVars, emissionVars>>

\* Slash: the stake is gone, the delegations stay.
Slash(s, v) ==
  /\ Call
  /\ Governs(s)
  /\ stakes' = [stakes EXCEPT ![v] = 0]
  /\ UNCHANGED <<balances, delegated, recordVars, commandVars, emissionVars>>

\* Delegate: no call gives a delegation back.
Delegate(s, v, n) ==
  /\ Call
  /\ balances[s] >= n
  /\ balances' = [balances EXCEPT ![s] = @ - n]
  /\ delegated' = [delegated EXCEPT ![<<s, v>>] = @ + n]
  /\ UNCHANGED <<stakes, recordVars, commandVars, emissionVars>>

\* WalletTaskReceiptAnchorV1 and ProofCommitmentV1: each looks at its own map, so
\* one hash may be in both, from two signers.
Anchor(s, of, h) ==
  /\ Call
  /\ <<of, h>> \notin DOMAIN anchors
  /\ anchors' = Put(anchors, <<of, h>>, s)
  /\ UNCHANGED <<accountVars, agents, nextAgent, settled, batches, claimed, disputes, commandVars,
                 emissionVars>>

\* apply_intelligence_payout: the payouts of command c, with the first royalty.
PayoutsOf(c) ==
  LET royalty == IF c.other = NoOne THEN 0
                 ELSE Saturate(c.amount * schedule.royalty) \div Bps
  IN SelectSeq(<<[to |-> c.soul, amount |-> Minus(c.amount, royalty)],
                 [to |-> c.other, amount |-> royalty]>>, LAMBDA x : x.amount > 0)

\* apply_provenance_bond: one bond for an artifact
ProvenanceBond(s, c) ==
  /\ c.amount >= schedule.bond
  /\ balances[s] >= c.amount
  /\ c.soul \notin DOMAIN bonds
  /\ balances' = [balances EXCEPT ![s] = @ - c.amount]
  /\ bonds' = Put(bonds, c.soul, c.amount)
  /\ UNCHANGED <<pools, payouts, artifacts>>

Governed == {"payout", "reaper", "commit"}   \* the kinds only governance may send

\* apply_life_command
LifeCommand(s, c) ==
  /\ Call
  /\ c.id \notin DOMAIN lifeCommands
  /\ c.kind \in Governed => Governs(s)
  /\ \/ /\ c.kind = "payout"
        /\ c.amount <= pools.intelligence
        /\ pools' = [pools EXCEPT !.intelligence = @ - c.amount]
        /\ payouts' = payouts \o PayoutsOf(c)
        /\ UNCHANGED <<balances, bonds, artifacts>>
     \/ c.kind = "bond" /\ ProvenanceBond(s, c)
     \/ /\ c.kind \in {"feedback", "sale"}
        /\ <<c.kind, c.payload>> \notin artifacts
        /\ artifacts' = artifacts \cup {<<c.kind, c.payload>>}
        /\ UNCHANGED <<balances, bonds, pools, payouts>>
     \/ /\ c.kind \in {"reaper", "commit", "other"}
        /\ UNCHANGED <<balances, bonds, pools, payouts, artifacts>>
  /\ lifeCommands' = Put(lifeCommands, c.id, s)
  /\ UNCHANGED <<stakes, delegated, recordVars, schedule, amended, height>>

\* SetChainEconomics takes the parameters as they are: they are not validated.
SetChainEconomics(s, p) ==
  /\ Call
  /\ Governs(s)
  /\ schedule' = p
  /\ amended' = IF ScheduleValid(p) /\ amended # "unchecked" THEN "validly" ELSE "unchecked"
  /\ UNCHANGED <<accountVars, recordVars, commandVars, pools, height>>

\* mint_protocol_emission_for_block, once per block that is built.
MintForBlock ==
  /\ height < MaxBlocks
  /\ LET e == EmissionFor(schedule, height)
         s == Split(schedule, e)
     IN /\ pools.minted + e <= MaxSupply
        /\ pools' = [pools EXCEPT !.minted = @ + e, !.provider = @ + s.provider,
                                  !.consensus = @ + s.consensus,
                                  !.intelligence = @ + s.intelligence]
  /\ height' = height + 1
  /\ UNCHANGED <<accountVars, recordVars, commandVars, schedule, amended, calls>>

LedgerNext ==
  \/ \E s, v \in Accounts, n \in Amounts : Transfer(s, v, n) \/ Delegate(s, v, n)
  \/ \E s \in Accounts, n \in Amounts : Stake(s, n) \/ Unstake(s, n)
  \/ \E s, v \in Accounts : Slash(s, v)
  \/ \E s \in Accounts, k \in Keys : RegisterAgent(s, k)
  \/ \E s \in Accounts, i \in DOMAIN agents :
       SuspendAgent(s, i) \/ \E k \in Keys : UpdateAgent(s, i, k)
  \/ \E r \in Receipts : SettleReceipt(r)
  \/ \E p \in Batches : SettleBatch(p)
  \/ \E b \in DOMAIN batches : \E i \in DOMAIN batches[b].entries : ClaimPayout(b, i)
  \/ FileDispute
  \/ \E s \in Accounts, d \in DOMAIN disputes : ResolveDispute(s, d)
  \/ \E s \in Accounts, of \in {"receipt", "proof"}, h \in Hashes : Anchor(s, of, h)
  \/ \E s \in Accounts, c \in LifeCommands : LifeCommand(s, c)
  \/ \E s \in Accounts, p \in Schedules : SetChainEconomics(s, p)
  \/ MintForBlock

LedgerSpec == LedgerInit /\ [][LedgerNext]_ledgerVars
-----------------------------------------------------------------------------
\* Balances, claims, pools and stakes are of their types and never negative:
\* every checked_sub and saturating_sub of the calls is where it has to be.
LedgerTypeOK ==
  /\ balances \in [Accounts -> Nat] /\ stakes \in [Accounts -> Nat]
  /\ delegated \in [Accounts \X Accounts -> Nat]
  /\ \A i \in DOMAIN agents : agents[i] \in [address: Accounts, key: Keys, suspended: BOOLEAN]
  /\ nextAgent \in Nat /\ height \in Nat /\ amended \in {"never", "validly", "unchecked"}
  /\ \A b \in DOMAIN batches : batches[b] \in Batches
  /\ pools \in [{"minted", "provider", "consensus", "intelligence", "rollover", "subsidy"} -> Nat]
  /\ schedule \in Schedules \cup {Disabled}

\* What accounts own, wherever it is bonded.
Circulating ==
  SumOver(Accounts, LAMBDA a : balances[a] + stakes[a])
    + SumOver(Accounts \X Accounts, LAMBDA p : delegated[p])
    + SumOver(DOMAIN bonds, LAMBDA s : bonds[s])

\* What can still be claimed.
Claimable ==
  SumOver(UNION {{b} \X DOMAIN batches[b].entries : b \in DOMAIN batches} \ claimed,
          LAMBDA k : batches[k[1]].entries[k[2]].amount)

\* Nothing is created by settling and claiming: what accounts own and what they
\* can still claim never exceeds what genesis gave them, whatever batches
\* replace others and whoever claims.
Solvent == Circulating + Claimable <= Cardinality(Accounts) * Grant

\* Every wei the protocol minted is in one of its pools, was rolled over, or was
\* paid to a provider or a contributor, through every rounding of the splits, as
\* long as governance sets no schedule that the genesis loader would refuse.
EmissionAccounted ==
  amended # "unchecked" => pools.minted = pools.provider + pools.consensus + pools.intelligence + pools.rollover
                   + pools.subsidy + SumOver(DOMAIN payouts, LAMBDA i : payouts[i].amount)

\* A schedule that is not changed mints no more than its pool, and has minted
\* exactly that when its last quarter ends.
EmissionExact ==
  amended = "never" =>
    /\ pools.minted <= schedule.total
    /\ height >= schedule.quarters * schedule.blocks => pools.minted = schedule.total

\* No two agents have one address, and an id that was given is not given again.
AgentsDistinct ==
  /\ IsInjective([i \in DOMAIN agents |-> agents[i].address])
  /\ \A i \in DOMAIN agents : i < nextAgent

\* Who anchored a commitment, sent a life command or settled a receipt first
\* stays so.
FirstWriteStands ==
  [][/\ \A h \in DOMAIN anchors : anchors'[h] = anchors[h]
     /\ \A c \in DOMAIN lifeCommands : lifeCommands'[c] = lifeCommands[c]
     /\ settled \subseteq settled']_ledgerVars

\* The ledger as a whole (core/src/state.rs, chain_economics.rs): whatever
\* calls, claims, disputes, emissions and changes of schedule come in which
\* order, what is owed is covered, every unit minted under a valid schedule
\* is in a pool or was paid, a schedule that runs out has minted its total
\* exactly, and no id or address stands for two agents.
LedgerSafe ==
  /\ LedgerTypeOK /\ Solvent /\ EmissionAccounted /\ EmissionExact
  /\ AgentsDistinct

=============================================================================
