------------------------------- MODULE Stakes -------------------------------
(***************************************************************************)
(* The two books of stake of the execution core, which the build does not  *)
(* include.                                                                *)
(*                                                                         *)
(* Validators and their delegators, and what the end of a block does to    *)
(* their stake: fee burn, the epoch of the life reaper, and the split of   *)
(* the block reward (crates/core/src/consensus_stake.rs and                *)
(* block_finalize.rs).  A call that fails half way leaves what it did      *)
(* before.  Nothing in the repository starts an unbonding, so the hooks    *)
(* find no entry to pay out and the model has none.                        *)
(*                                                                         *)
(* Providers of tools and their stake per tool class: registration with a  *)
(* bond, staking, unstaking after a delay, and slashing, which reaches the *)
(* stake that is waiting to leave (crates/core/src/wallet_provider.rs).    *)
(***************************************************************************)
EXTENDS Values

-----------------------------------------------------------------------------
(* Validators and delegators.                                              *)
CONSTANTS
  Owners,          \* addresses, numbered in their order
  Treasury,        \* the treasury's address, one of Owners
  Fps,             \* validator fingerprints, numbered as in the validator set
  Outside,         \* indices of signers that are beyond the end of the validator set
  Burns,           \* bound: base fee times gas of a block, 0 when it is not burned
  StakeAmounts,    \* bound: amounts of a call and of a block reward
  CommissionScale, \* MAX_COMMISSION_BPS
  MinStake,        \* chain_economics.min_validator_stake_wei
  InitialBalance,
  MaxStakeSteps    \* bound: steps

ASSUME StakeAssumption ==
  /\ Owners \subseteq Nat /\ IsFiniteSet(Owners) /\ Treasury \in Owners
  /\ Fps \subseteq Nat /\ IsFiniteSet(Fps) /\ Burns \subseteq Nat
  /\ Outside \subseteq Nat /\ IsFiniteSet(Outside) /\ \A fp \in Fps, x \in Outside : fp < x
  /\ StakeAmounts \subseteq Nat \ {0} /\ CommissionScale \in Nat \ {0}
  /\ MinStake \in Nat /\ InitialBalance \in Nat

VARIABLES
  balance,     \* accounts
  validatorStakes,      \* consensus_stakes: fingerprint -> total
  shares,      \* consensus_stake_shares: <<owner, fingerprint>> -> share, 0 for none
  credits,     \* consensus_reward_credits
  commission,  \* consensus_commission_bps
  registered,  \* the keys of validator_registry
  reaped,      \* life_reaper_epochs, in the order of their commands
  unowned,     \* history: rewards given to a fingerprint without shareholders
  protocolBurned,   \* protocol_burned_wei
  unbacked,    \* history: what it counts that the treasury did not have
  destroyed,   \* history: what burns took, slashed stake, rewards given to nobody
  stakeSteps

burnVars == <<protocolBurned, unbacked>>
stakeVars == <<balance, validatorStakes, shares, credits, commission, registered, reaped, unowned, burnVars, destroyed, stakeSteps>>

StakeStep == stakeSteps < MaxStakeSteps /\ stakeSteps' = stakeSteps + 1

\* shareholders_for_fingerprint, and the last of them
Holders(fp) == {o \in Owners : shares[o, fp] > 0}
LastHolder(fp) == CHOOSE o \in Holders(fp) : \A p \in Holders(fp) : p <= o

\* validator_operator_address: the largest share, of equal ones the largest address
Operator(fp) ==
  CHOOSE o \in Holders(fp) : \A p \in Holders(fp) :
    shares[p, fp] < shares[o, fp] \/ (shares[p, fp] = shares[o, fp] /\ p <= o)
-----------------------------------------------------------------------------
\* deposit_consensus_stake
Deposit(o, fp, a) ==
  /\ StakeStep
  /\ balance[o] >= a
  /\ balance' = [balance EXCEPT ![o] = @ - a]
  /\ validatorStakes' = [validatorStakes EXCEPT ![fp] = @ + a]
  /\ shares' = [shares EXCEPT ![<<o, fp>>] = @ + a]
  /\ UNCHANGED <<credits, commission, registered, reaped, unowned, burnVars, destroyed>>

\* set_validator_commission
SetCommission(o, fp, bps) ==
  /\ StakeStep
  /\ Holders(fp) # {} /\ o = Operator(fp)
  /\ commission' = [commission EXCEPT ![fp] = bps]
  /\ UNCHANGED <<balance, validatorStakes, shares, credits, registered, reaped, unowned, burnVars, destroyed>>

\* withdraw_consensus_rewards
WithdrawRewards(o, fp) ==
  /\ StakeStep
  /\ credits[o, fp] > 0
  /\ balance' = [balance EXCEPT ![o] = @ + credits[o, fp]]
  /\ credits' = [credits EXCEPT ![<<o, fp>>] = 0]
  /\ UNCHANGED <<validatorStakes, shares, commission, registered, reaped, unowned, burnVars, destroyed>>

\* redelegate_consensus_stake.  The share is reduced before the total is checked.
Redelegate(o, from, to, a) ==
  /\ StakeStep
  /\ from # to /\ shares[o, from] >= a
  /\ IF validatorStakes[from] >= a
     THEN /\ shares' = [shares EXCEPT ![<<o, from>>] = @ - a, ![<<o, to>>] = @ + a]
          /\ validatorStakes' = [validatorStakes EXCEPT ![from] = @ - a, ![to] = @ + a]
     ELSE shares' = [shares EXCEPT ![<<o, from>>] = @ - a] /\ UNCHANGED validatorStakes
  /\ UNCHANGED <<balance, credits, commission, registered, reaped, unowned, burnVars, destroyed>>

\* register_validator
RegisterValidator(fp) ==
  /\ StakeStep
  /\ fp \notin registered /\ validatorStakes[fp] >= MinStake
  /\ registered' = registered \cup {fp}
  /\ UNCHANGED <<balance, validatorStakes, shares, credits, commission, reaped, unowned, burnVars, destroyed>>

\* slash_consensus_stake with clear_validator_delegation_metadata
SlashStake(fp) ==
  /\ StakeStep
  /\ validatorStakes' = [validatorStakes EXCEPT ![fp] = 0]
  /\ shares' = [k \in Owners \X Fps |-> IF k[2] = fp THEN 0 ELSE shares[k]]
  /\ credits' = [k \in Owners \X Fps |-> IF k[2] = fp THEN 0 ELSE credits[k]]
  /\ commission' = [commission EXCEPT ![fp] = 0]
  /\ registered' = registered \ {fp}
  /\ unowned' = [unowned EXCEPT ![fp] = 0]
  /\ destroyed' = destroyed + validatorStakes[fp] + Total([o \in Owners |-> credits[o, fp]])
  /\ UNCHANGED <<balance, reaped, burnVars>>

\* permissionless_validator_entries: the registered validators that still have the
\* minimum, in the order of their fingerprints
ActiveValidators == {fp \in registered : validatorStakes[fp] >= MinStake}
-----------------------------------------------------------------------------
\* The commission on a reward; nothing where no stake is
Cut(fp, reward) == IF validatorStakes[fp] = 0 THEN 0 ELSE (reward * commission[fp]) \div CommissionScale

\* The commission the operator is credited with: none when there is no shareholder
PaidCut(fp, reward) == IF Holders(fp) = {} THEN 0 ELSE Cut(fp, reward)

\* Seeded defect: the remainder of the division is given to nobody.
ShareOfRounded(o, fp, net) == (net * shares[o, fp]) \div validatorStakes[fp]

\* What a shareholder gets of a net reward: the last one takes the remainder
ShareOf(o, fp, net) ==
  LET part == [p \in Holders(fp) |-> (net * shares[p, fp]) \div validatorStakes[fp]]
  IN IF o # LastHolder(fp) THEN part[o]
     ELSE Minus(net, Total([p \in Holders(fp) \ {o} |-> part[p]]))

\* Who is paid: the signers of the parent QC and the proposer, or else the first
\* validator, if there is any.
PaidIndices(vals, idxs) == IF idxs # {} \/ vals = {} THEN idxs ELSE {Min(vals)}

\* The weights of the block reward: those paid have each at least one, an index
\* outside the set has one; the last one takes the remainder.
Portion(fp, paid, reward) ==
  LET weight == [f \in paid |-> IF f \in Fps /\ validatorStakes[f] > 1 THEN validatorStakes[f] ELSE 1]
      part == [f \in paid |-> (reward * weight[f]) \div Total(weight)]
      last == CHOOSE f \in paid : \A g \in paid : g <= f
  IN IF fp \notin paid THEN 0
     ELSE IF fp # last THEN part[fp]
     ELSE Minus(reward, Total([f \in paid \ {fp} |-> part[f]]))

\* distribute_fingerprint_block_reward, of every paid fingerprint at once
DistributeReward(paid, reward) ==
  LET got(fp) == Portion(fp, paid, reward)
      net(fp) == got(fp) - PaidCut(fp, got(fp))
  IN /\ validatorStakes' = [fp \in Fps |-> validatorStakes[fp] + net(fp)]
     /\ shares' = [k \in Owners \X Fps |->
          shares[k] + IF k[1] \in Holders(k[2]) /\ net(k[2]) > 0 THEN ShareOf(k[1], k[2], net(k[2])) ELSE 0]
     /\ credits' = [k \in Owners \X Fps |->
          credits[k] + IF Holders(k[2]) # {} /\ k[1] = Operator(k[2]) THEN PaidCut(k[2], got(k[2])) ELSE 0]
     /\ unowned' = [fp \in Fps |-> unowned[fp] + IF Holders(fp) = {} THEN net(fp) ELSE 0]

\* What of a reward goes to nobody: the portions from the first index outside the
\* validator set on, where the call fails, or all of it when there is no validator.
ToNobody(paid, reward) ==
  IF paid = {} THEN reward ELSE Total([x \in Outside |-> Portion(x, paid, reward)])

\* finalize_block_hooks: the burn, which is counted whole and taken as far as the
\* treasury has it, the reaper's epoch, and the block reward from what is left.  A
\* reward the treasury does not have makes the call fail after the first two.
FinalizeHooks(burn, epoch, paid, reward) ==
  /\ StakeStep
  /\ reaped' = IF epoch > 0 /\ \A i \in DOMAIN reaped : reaped[i] # epoch
               THEN Append(reaped, epoch) ELSE reaped
  /\ protocolBurned' = protocolBurned + burn
  /\ \E taken \in {IF burn < balance[Treasury] THEN burn ELSE balance[Treasury]} :
       /\ unbacked' = unbacked + (burn - taken)
       /\ IF reward = 0 \/ balance[Treasury] - taken < reward
          THEN /\ balance' = [balance EXCEPT ![Treasury] = @ - taken]
               /\ destroyed' = destroyed + taken
               /\ UNCHANGED <<validatorStakes, shares, credits, unowned>>
          ELSE /\ balance' = [balance EXCEPT ![Treasury] = @ - taken - reward]
               /\ destroyed' = destroyed + taken + ToNobody(paid, reward)
               /\ DistributeReward(paid, reward)
  /\ UNCHANGED <<commission, registered>>
-----------------------------------------------------------------------------
StakeInit ==
  /\ balance = [o \in Owners |-> InitialBalance]
  /\ validatorStakes = [fp \in Fps |-> 0] /\ shares = [k \in Owners \X Fps |-> 0]
  /\ credits = [k \in Owners \X Fps |-> 0] /\ commission = [fp \in Fps |-> 0]
  /\ registered = {} /\ reaped = <<>>
  /\ unowned = [fp \in Fps |-> 0] /\ protocolBurned = 0 /\ unbacked = 0 /\ destroyed = 0 /\ stakeSteps = 0

StakeNext ==
  \/ \E o \in Owners, fp \in Fps, a \in StakeAmounts : Deposit(o, fp, a)
  \/ \E o \in Owners, fp \in Fps, bps \in 0 .. CommissionScale : SetCommission(o, fp, bps)
  \/ \E o \in Owners, fp \in Fps : WithdrawRewards(o, fp)
  \/ \E o \in Owners, from, to \in Fps, a \in StakeAmounts : Redelegate(o, from, to, a)
  \/ \E fp \in Fps : RegisterValidator(fp) \/ SlashStake(fp)
  \/ \E burn \in Burns, epoch \in 0 .. 1, vals \in SUBSET Fps, reward \in StakeAmounts \cup {0} :
       \E idxs \in SUBSET (vals \cup Outside) : FinalizeHooks(burn, epoch, PaidIndices(vals, idxs), reward)

StakeSpec == StakeInit /\ [][StakeNext]_stakeVars
-----------------------------------------------------------------------------
\* Through deposits, rewards with their two roundings, commissions, redelegation and
\* slashing no wei is made, and one is lost only by a burn, a slash or a reward that
\* was taken from the treasury for nobody.  protocol_burned_wei may say more than was
\* destroyed, by as much as burns asked of a treasury that did not have it.
StakeConserved ==
  /\ Total(balance) + Total(validatorStakes) + Total(credits) + destroyed = InitialBalance * Cardinality(Owners)
  /\ protocolBurned <= destroyed + unbacked

\* The shares of a validator add up to its stake, but for the rewards that came when it
\* had no shareholder.  So redelegation never meets a total below a share, which it
\* would find only after it reduced the share.
SharesBacked ==
  \A fp \in Fps : validatorStakes[fp] = Total([o \in Owners |-> shares[o, fp]]) + unowned[fp]
-----------------------------------------------------------------------------
(* Providers of tools.                                                     *)
CONSTANTS
  StakedProviders,        \* provider ids; the owner of one is the one address in play
  Classes,          \* tool classes
  ProviderAmounts,  \* bound: amounts of a call
  Bond,             \* registration_bond
  UnstakeDelay,     \* WALLET_PROVIDER_UNSTAKE_DELAY_MS
  Funds,            \* the owner's balance at first
  MaxRequests,      \* bound: unstake requests made
  MaxProviderTime           \* bound: execution_timestamp_ms

ASSUME ProviderAssumption ==
  /\ ProviderAmounts \subseteq Nat /\ Bond \in Nat /\ UnstakeDelay \in Nat /\ Funds \in Nat
  /\ IsFiniteSet(StakedProviders) /\ IsFiniteSet(Classes)

VARIABLES
  wallet,      \* the owner's balance
  providers,   \* the registered ones
  rows,        \* wallet_provider_stakes: <<provider, class>> -> row
  requests,    \* wallet_provider_unstake_requests: id -> request
  nextRequest, \* next_wallet_provider_unstake_request_id
  burned,      \* protocol_burned_wei
  now

providerVars == <<wallet, providers, rows, requests, nextRequest, burned, now>>

EmptyRow == [total |-> 0, available |-> 0, pending |-> 0]
RowOf(key) == Get(rows, key, EmptyRow)

\* A row of zeros is removed.
WithRow(key, row) == IF row = EmptyRow THEN Without(rows, {key}) ELSE Put(rows, key, row)

StakeKeys == StakedProviders \X Classes
RequestsOf(key) == {id \in DOMAIN requests : requests[id].key = key}
RequestSum(key) == Total([id \in RequestsOf(key) |-> requests[id].amount])

\* register_provider
RegisterProvider(p) ==
  /\ p \notin providers /\ wallet >= Bond
  /\ providers' = providers \cup {p} /\ wallet' = wallet - Bond
  /\ UNCHANGED <<rows, requests, nextRequest, burned, now>>

\* stake_for_class.  The row is there afterwards, also for an amount of zero.
StakeForClass(key, a) ==
  /\ key[1] \in providers /\ wallet >= a
  /\ wallet' = wallet - a
  /\ rows' = Put(rows, key, [RowOf(key) EXCEPT !.total = @ + a, !.available = @ + a])
  /\ UNCHANGED <<providers, requests, nextRequest, burned, now>>

\* request_unstake
RequestUnstake(key, a) ==
  /\ nextRequest < MaxRequests
  /\ key[1] \in providers /\ key \in DOMAIN rows /\ rows[key].available >= a
  /\ rows' = Put(rows, key, [rows[key] EXCEPT !.available = @ - a, !.pending = @ + a])
  /\ requests' = Put(requests, nextRequest, [key |-> key, amount |-> a, release |-> now + UnstakeDelay])
  /\ nextRequest' = nextRequest + 1
  /\ UNCHANGED <<wallet, providers, burned, now>>

\* finalize_unstake
FinalizeUnstake(id) ==
  /\ id \in DOMAIN requests /\ now >= requests[id].release
  /\ requests[id].key \in DOMAIN rows
  /\ LET req == requests[id]
         row == rows[req.key]
     IN \E a \in {Min({req.amount, row.pending, row.total})} :
          /\ rows' = WithRow(req.key, [row EXCEPT !.pending = @ - a, !.total = @ - a])
          /\ wallet' = wallet + a
  /\ requests' = Without(requests, {id})
  /\ UNCHANGED <<providers, nextRequest, burned, now>>

\* reduce_pending_unstake_requests: the oldest request first; what is left of none is
\* removed
Reduced(key, amount) ==
  LET before(id) == Total([k \in {j \in RequestsOf(key) : j < id} |-> requests[k].amount])
      left(id) == Minus(requests[id].amount, Minus(amount, before(id)))
      gone == {id \in RequestsOf(key) : before(id) < amount /\ left(id) = 0}
  IN [id \in DOMAIN requests \ gone |->
        IF id \in RequestsOf(key) THEN [requests[id] EXCEPT !.amount = left(id)] ELSE requests[id]]

\* The row after a slash: what is available goes first, then what is pending
SlashedRow(row, amount) ==
  LET cut == Min({amount, row.total})
  IN [row EXCEPT !.available = Minus(@, cut), !.pending = Minus(@, Minus(cut, row.available)), !.total = @ - cut]

\* slash_provider, with evidence on record
SlashProvider(key, amount) ==
  /\ key[1] \in providers /\ key \in DOMAIN rows
  /\ rows[key].total > 0 /\ amount > 0
  /\ rows' = WithRow(key, SlashedRow(rows[key], amount))
  /\ requests' = LET rest == Minus(Min({amount, rows[key].total}), rows[key].available)
                 IN IF rest > 0 THEN Reduced(key, rest) ELSE requests
  /\ burned' = burned + Min({amount, rows[key].total})
  /\ UNCHANGED <<wallet, providers, nextRequest, now>>

\* deregister_provider
DeregisterProvider(p) ==
  /\ p \in providers
  /\ \A key \in DOMAIN rows : key[1] = p => rows[key].total = 0
  /\ \A id \in DOMAIN requests : requests[id].key[1] = p => requests[id].amount = 0
  /\ providers' = providers \ {p} /\ wallet' = wallet + Bond
  /\ UNCHANGED <<rows, requests, nextRequest, burned, now>>

\* Time between blocks
PassTime == now < MaxProviderTime /\ now' = now + 1 /\ UNCHANGED <<wallet, providers, rows, requests, nextRequest, burned>>

ProviderInit ==
  /\ wallet = Funds /\ providers = {} /\ rows = Empty /\ requests = Empty
  /\ nextRequest = 0 /\ burned = 0 /\ now = 0

ProviderNext ==
  \/ \E p \in StakedProviders : RegisterProvider(p) \/ DeregisterProvider(p)
  \/ \E key \in StakeKeys, a \in ProviderAmounts : StakeForClass(key, a) \/ RequestUnstake(key, a) \/ SlashProvider(key, a)
  \/ \E id \in DOMAIN requests : FinalizeUnstake(id)
  \/ PassTime

ProviderSpec == ProviderInit /\ [][ProviderNext]_providerVars
-----------------------------------------------------------------------------
\* A row's total is what is available and what is leaving, and the open requests of a
\* row add up to what is leaving: a slash that reaches into the requests keeps the two
\* books together, and a mature request pays all that was left of it (the minimum that
\* finalize_unstake takes of three numbers never bites).
RowsBalance ==
  \A key \in DOMAIN rows :
    /\ rows[key].total = rows[key].available + rows[key].pending
    /\ rows[key].pending = RequestSum(key)

\* Balance, bonds, stakes and the burned amount add up to what there was.
ProviderConserved ==
  wallet + Bond * Cardinality(providers) + Total([k \in DOMAIN rows |-> rows[k].total]) + burned = Funds

\* Stakes (consensus_stake.rs, block_finalize.rs, wallet_provider.rs): deposits,
\* rewards, slashes and withdrawals account for every wei, a validator's stake
\* backs its shares, and the three books of a provider agree.
StakesSafe ==
  /\ StakeConserved /\ SharesBacked /\ ProviderConserved /\ RowsBalance

=============================================================================
