-------------------------- MODULE WalletAuthority --------------------------
(***************************************************************************)
(* Capabilities of agents and the budgets behind them: attenuation,        *)
(* revocation and emergency stops of crates/wallet (capability.rs,         *)
(* caveat.rs, types.rs, revocation.rs, emergency.rs, delegation.rs and its *)
(* session), the native calls of crates/core/src/wallet_native.rs that     *)
(* mint and revoke capabilities and create, fund and close budgets, and    *)
(* wallet_batch_settle.rs.  wallet_native.rs, wallet_batch_settle.rs and   *)
(* delegation.rs are written against these types and not yet declared as   *)
(* modules of their crates.                                                *)
(*                                                                         *)
(* Signatures hold.  A scope is a workspace, a set of tool classes and a   *)
(* set of providers; project_id and task_id are further optional ids that  *)
(* are treated as workspace_id is.  The stops that mint_capability reads   *)
(* (wallet_scoped_emergency_stops) are written by no code of the           *)
(* repository; the registry of emergency.rs is another one, which it never *)
(* reads.                                                                  *)
(***************************************************************************)
EXTENDS Values

CONSTANTS
  Signers, Wealth,     \* accounts and their balance
  Tokens,              \* bodies: id, parent, issuer, scope, spend, norec, from, until
  NoCap,               \* no parent
  Anywhere,                 \* None: every workspace, every provider
  VerifierClass,       \* ToolClass::TestRunner
  VerifierSpend, VerifierLifetime,   \* SubAgentRole::Verifier
  ToolBatches,         \* id, receipts (a list), cost, payer, payee
  ToolReceiptOf,       \* receipt -> cost, provider and class, and whether its two signatures hold
  Rules,               \* EmergencyLevels: "global" or a workspace
  Stops,               \* WalletEmergencyScopeV1 and its master: master, ws, mask, provider
  MaxWalletCalls,      \* bound: calls
  MaxWalletTime        \* bound: the clock

\* A rule names a workspace and a token has an id of its own; the parties of a
\* batch have accounts.
ASSUME WalletAssumption ==
  /\ IsFiniteSet(Signers) /\ Wealth \in Nat /\ Anywhere \notin Rules
  /\ VerifierSpend \in Nat /\ VerifierLifetime \in Nat
  /\ \A t \in Tokens :
       /\ t = [id |-> t.id, parent |-> t.parent, issuer |-> t.issuer, scope |-> t.scope, spend |-> t.spend,
               norec |-> t.norec, from |-> t.from, until |-> t.until]
       /\ t.id # NoCap /\ t.spend \in Nat /\ t.from \in Nat /\ t.until \in Nat
  /\ \A r \in Stops : r = [master |-> r.master, ws |-> r.ws, mask |-> r.mask, provider |-> r.provider]
  /\ \A p \in ToolBatches : p.cost \in Nat /\ p.payer \in Signers /\ p.payee \in Signers

VARIABLES
  caps,        \* wallet_capabilities and wallet_cap_holders; master: the issuer of its root
  revoked,     \* wallet_revocation_entries: id -> cascade
  rules,       \* EmergencyRegistry.rules
  stops,       \* wallet_scoped_emergency_stops
  purses,      \* wallet_budgets: id -> owner, parent, deposited
  nextPurse,
  cash,        \* accounts
  lost,        \* what budgets held that a failed close removed
  paidReceipts,   \* wallet_settled_tool_receipt_ids: id -> batch
  toolBatches,    \* wallet_tool_batches
  walletNow, walletCalls

walletVars ==
  <<caps, revoked, rules, stops, purses, nextPurse, cash, lost, paidReceipts, toolBatches, walletNow, walletCalls>>
-----------------------------------------------------------------------------
\* opt_id_subset and providers_subset
Narrows(child, parent) == parent = Anywhere \/ child = parent

ProvidersNarrow(child, parent) == parent # Anywhere => child # Anywhere /\ child \subseteq parent

\* Scope::is_subset_of
ScopeWithin(c, p) ==
  c.mask \subseteq p.mask /\ Narrows(c.ws, p.ws) /\ ProvidersNarrow(c.providers, p.providers)

\* Seeded defect: a child may spend more than its parent.
CaveatsWithinRecursion(c, p) == p.norec => c.norec

\* caveats_attenuate_parent: every caveat of the parent has a stricter one.
CaveatsWithin(c, p) == c.spend <= p.spend /\ (p.norec => c.norec)

\* verify_attenuation_from_parent
Attenuates(c, p) ==
  /\ c.parent = p.id
  /\ c.from >= p.from /\ c.until <= p.until
  /\ ScopeWithin(c.scope, p.scope)
  /\ CaveatsWithin(c, p)

\* verify_time and verify_autonomous_tool_mask; verify_capability_with_revocation
\* checks no more than that.
ValidNow(c) == c.from <= walletNow /\ walletNow <= c.until /\ c.scope.mask # {}

\* capability_ancestor_chain, nearest first
Ancestors(id) ==
  LET up[n \in 0 .. Cardinality(DOMAIN caps)] ==
        IF n = 0 THEN {id}
        ELSE up[n - 1] \cup {caps[a].parent : a \in up[n - 1] \cap DOMAIN caps}
  IN up[Cardinality(DOMAIN caps)] \ {id, NoCap}

\* Seeded defect: only the capability's own entry counts.
IsRevokedSelf(id) == id \in DOMAIN revoked

\* is_capability_revoked and RevocationSet::is_revoked
IsRevoked(id) ==
  id \in DOMAIN revoked \/ \E a \in Ancestors(id) \cap DOMAIN revoked : revoked[a]

\* rule_covers and EmergencyRegistry::blocks
Blocked(scope) == \E r \in rules : r = "global" \/ scope.ws = r

\* emergency_scope_covers_capability.  A capability for any workspace is not
\* covered by a rule that names one; a capability for any provider is.
StopCovers(r, scope) ==
  /\ r.ws = Anywhere \/ scope.ws = r.ws
  /\ r.mask = {} \/ r.mask \cap scope.mask # {}
  /\ r.provider = Anywhere \/ scope.providers = Anywhere \/ r.provider \in scope.providers

\* is_scope_stopped_for_master
StoppedFor(master, scope) == \E r \in stops : r.master = master /\ StopCovers(r, scope)

\* root_issuer_for_mint.  A capability is never replaced, so that each keeps what
\* the walk to its root finds.
RootIssuer(t) == IF t.parent = NoCap THEN t.issuer ELSE caps[t.parent].master

\* A token as it is registered.
Registered(t, s) == Put(Put(t, "holder", s), "master", RootIssuer(t))

WalletInit ==
  /\ caps = Empty /\ revoked = Empty /\ rules = {} /\ stops = {}
  /\ purses = Empty /\ nextPurse = 1
  /\ cash = [s \in Signers |-> Wealth] /\ lost = 0
  /\ paidReceipts = Empty /\ toolBatches = Empty
  /\ walletNow = 0 /\ walletCalls = 0

WalletCall == walletCalls < MaxWalletCalls /\ walletCalls' = walletCalls + 1

authorityVars == <<caps, revoked, rules, stops>>
purseVars == <<purses, nextPurse, cash, lost>>
batchVars == <<paidReceipts, toolBatches>>
-----------------------------------------------------------------------------
\* mint_capability without a budget seed (FundFrom moves the seed's amount).
MintCapability(s, t) ==
  /\ WalletCall
  /\ ValidNow(t)
  /\ ~IsRevoked(t.id)
  /\ t.id \notin DOMAIN caps
  /\ t.parent # NoCap => t.parent \in DOMAIN caps
  /\ ~StoppedFor(RootIssuer(t), t.scope)
  /\ t.parent # NoCap =>
       /\ ~IsRevoked(t.parent)
       /\ caps[t.parent].holder = s
       /\ Attenuates(t, caps[t.parent])
  /\ caps' = Put(caps, t.id, Registered(t, s))
  /\ UNCHANGED <<revoked, rules, stops, purseVars, batchVars, walletNow>>

\* child_params_for_role: the body of a verifier's capability under p.
VerifierBody(p, id) ==
  [id |-> id, parent |-> p.id, issuer |-> p.issuer,
   scope |-> [p.scope EXCEPT !.mask = {VerifierClass}],
   spend |-> Min({p.spend, VerifierSpend}), norec |-> TRUE,
   from |-> p.from, until |-> Min({p.from + VerifierLifetime, p.until})]

\* delegate_sub_agent_production: the child's budget is a new one under the
\* parent's, and holds n of it.
DelegateVerifier(s, pid, b, n, id) ==
  LET p == caps[pid]
      c == VerifierBody(p, id)
  IN /\ WalletCall
     /\ id \notin DOMAIN caps
     /\ p.holder = s /\ ~p.norec
     /\ VerifierClass \in p.scope.mask /\ c.until > p.from
     /\ c.spend <= n
     /\ Attenuates(c, p)
     /\ purses[b].owner = s /\ n <= purses[b].deposited
     /\ purses' = Put([purses EXCEPT ![b].deposited = @ - n], nextPurse,
                      [owner |-> s, parent |-> b, deposited |-> n])
     /\ nextPurse' = nextPurse + 1
     /\ caps' = Put(caps, id, Registered(c, s))
     /\ UNCHANGED <<revoked, rules, stops, cash, lost, batchVars, walletNow>>

\* revoke_capability: signed by the issuer of the token.
RevokeCapability(id, cascade) ==
  /\ WalletCall
  /\ id \notin DOMAIN revoked
  /\ revoked' = Put(revoked, id, cascade)
  /\ UNCHANGED <<caps, rules, stops, purseVars, batchVars, walletNow>>

ActivateEmergency(r) ==
  /\ WalletCall /\ rules' = rules \cup {r}
  /\ UNCHANGED <<caps, revoked, stops, purseVars, batchVars, walletNow>>

ClearEmergency ==
  /\ WalletCall /\ rules # {} /\ rules' = {}
  /\ UNCHANGED <<caps, revoked, stops, purseVars, batchVars, walletNow>>

\* A stop is recorded or lifted.
SetStop(r) ==
  /\ WalletCall /\ stops' = stops \cup {r}
  /\ UNCHANGED <<caps, revoked, rules, purseVars, batchVars, walletNow>>

LiftStop(r) ==
  /\ WalletCall /\ r \in stops /\ stops' = stops \ {r}
  /\ UNCHANGED <<caps, revoked, rules, purseVars, batchVars, walletNow>>

\* create_budget_account.  A budget under another one is paid from the account.
CreatePurse(s, parent, n) ==
  /\ WalletCall
  /\ parent # 0 => purses[parent].owner = s
  /\ n <= cash[s]
  /\ cash' = [cash EXCEPT ![s] = @ - n]
  /\ purses' = Put(purses, nextPurse, [owner |-> s, parent |-> parent, deposited |-> n])
  /\ nextPurse' = nextPurse + 1
  /\ UNCHANGED <<authorityVars, lost, batchVars, walletNow>>

\* fund_budget_account from the account of the signer
FundPurse(s, b, n) ==
  /\ WalletCall
  /\ purses[b].owner = s /\ n <= cash[s]
  /\ cash' = [cash EXCEPT ![s] = @ - n]
  /\ purses' = [purses EXCEPT ![b].deposited = @ + n]
  /\ UNCHANGED <<authorityVars, nextPurse, lost, batchVars, walletNow>>

\* fund_budget_account from another budget, and the seed of mint_capability
FundFrom(s, from, to, n) ==
  /\ WalletCall
  /\ purses[from].owner = s /\ purses[to].owner = s
  /\ purses[to].parent = from
  /\ n <= purses[from].deposited
  /\ purses' = [purses EXCEPT ![from].deposited = @ - n, ![to].deposited = @ + n]
  /\ UNCHANGED <<authorityVars, nextPurse, cash, lost, batchVars, walletNow>>

\* close_budget_account.  The budget is removed first: if its parent is gone the
\* call fails and the money with it.
ClosePurse(s, b) ==
  /\ WalletCall
  /\ purses[b].owner = s
  /\ LET up == purses[b].parent
         n == purses[b].deposited
         rest == Without(purses, {b})
     IN \/ /\ up = 0
           /\ purses' = rest /\ cash' = [cash EXCEPT ![s] = @ + n] /\ lost' = lost
        \/ /\ up \in DOMAIN rest
           /\ purses' = [rest EXCEPT ![up].deposited = @ + n] /\ UNCHANGED <<cash, lost>>
        \/ /\ up # 0 /\ up \notin DOMAIN rest
           /\ purses' = rest /\ lost' = lost + n /\ cash' = cash
  /\ UNCHANGED <<authorityVars, nextPurse, batchVars, walletNow>>

\* The receipts of a batch.
Listed(p) == {p.receipts[i] : i \in DOMAIN p.receipts}

\* verify_wallet_batch_receipts: all of one provider and class, signed by it and
\* acknowledged by its agent, and the costs of the list add up to the batch's.  A
\* receipt may be listed twice, and is then paid twice.
BatchSound(p) ==
  /\ p.receipts # <<>>
  /\ \A r \in Listed(p) :
       ToolReceiptOf[r].provider = p.payee /\ ToolReceiptOf[r].class = p.class /\ ToolReceiptOf[r].signed
  /\ SumSeq(p.receipts, LAMBDA r : ToolReceiptOf[r].cost) = p.cost

\* apply_wallet_batch_settle_v1, after verify_wallet_batch_receipts
SettleToolBatch(p) ==
  /\ WalletCall
  /\ p.id \notin DOMAIN toolBatches
  /\ BatchSound(p)
  /\ Listed(p) \cap DOMAIN paidReceipts = {}
  /\ cash[p.payer] >= p.cost
  /\ cash' = LET c == [cash EXCEPT ![p.payer] = @ - p.cost] IN [c EXCEPT ![p.payee] = @ + p.cost]
  /\ paidReceipts' = Over([r \in Listed(p) |-> p.id], paidReceipts)
  /\ toolBatches' = Put(toolBatches, p.id, p)
  /\ UNCHANGED <<authorityVars, purses, nextPurse, lost, walletNow>>

WalletTick ==
  walletNow < MaxWalletTime /\ walletNow' = walletNow + 1
    /\ UNCHANGED <<authorityVars, purseVars, batchVars, walletCalls>>

WalletNext ==
  \/ \E s \in Signers, t \in Tokens : MintCapability(s, t)
  \/ \E s \in Signers, p \in DOMAIN caps, b \in DOMAIN purses, n \in 1 .. Wealth, t \in Tokens :
       DelegateVerifier(s, p, b, n, t.id)
  \/ \E id \in DOMAIN caps, cascade \in BOOLEAN : RevokeCapability(id, cascade)
  \/ \E r \in Rules : ActivateEmergency(r)
  \/ ClearEmergency
  \/ \E r \in Stops : SetStop(r) \/ LiftStop(r)
  \/ \E s \in Signers, b \in DOMAIN purses \cup {0}, n \in 0 .. Wealth : CreatePurse(s, b, n)
  \/ \E s \in Signers, b \in DOMAIN purses, n \in 1 .. Wealth :
       FundPurse(s, b, n) \/ \E from \in DOMAIN purses : FundFrom(s, from, b, n)
  \/ \E s \in Signers, b \in DOMAIN purses : ClosePurse(s, b)
  \/ \E p \in ToolBatches : SettleToolBatch(p)
  \/ WalletTick

WalletSpec == WalletInit /\ [][WalletNext]_walletVars
-----------------------------------------------------------------------------
\* A capability grants nothing that any of its ancestors does not: over any chain
\* of mints and delegations its scope, its lifetime and its spending limit lie
\* within those of every ancestor, although only the parent is compared.
ChainAttenuated ==
  \A id \in DOMAIN caps : \A a \in Ancestors(id) :
    /\ a \in DOMAIN caps
    /\ ScopeWithin(caps[id].scope, caps[a].scope)
    /\ caps[a].from <= caps[id].from /\ caps[id].until <= caps[a].until
    /\ caps[id].spend <= caps[a].spend

\* A stop reaches everything below what it covers.  A level of the registry that
\* blocks a capability blocks its descendants.  A stop of a master that covers one
\* covers each descendant that can use a class and a provider it names, and under
\* the same master, whoever issued the descendant.
StopsReachDescendants ==
  \A id \in DOMAIN caps : \A a \in Ancestors(id) \cap DOMAIN caps :
    /\ Blocked(caps[a].scope) => Blocked(caps[id].scope)
    /\ caps[id].master = caps[a].master
    /\ \A r \in stops :
         StopCovers(r, caps[a].scope) /\ StopCovers([r EXCEPT !.ws = Anywhere], caps[id].scope)
           => StopCovers(r, caps[id].scope)

\* Nothing is minted below a capability that was revoked with cascade, at any
\* distance, and a revoked id is never minted.  (A verifier's capability, which
\* has norec, is handed out off chain and presents its ancestors when it is used.)
NothingBelowRevoked ==
  [][\A id \in DOMAIN caps' \ DOMAIN caps :
       caps'[id].norec \/ \A a \in DOMAIN revoked :
         revoked[a] => a # id /\ a \notin Ancestors(caps'[id].parent) \cup {caps'[id].parent}]_walletVars

\* Budgets and tool batches move money and create none; it is lost only when a
\* budget is closed after its parent.
PursesConserve ==
  SumOver(Signers, LAMBDA s : cash[s]) + SumOver(DOMAIN purses, LAMBDA b : purses[b].deposited) + lost
    = Cardinality(Signers) * Wealth

\* A tool receipt is paid by one batch, the one recorded for it, whatever batches
\* are submitted with it.  (Within a batch it is paid as often as it is listed.)
PaidByOneBatch ==
  \A x \in DOMAIN toolBatches : \A r \in Listed(toolBatches[x]) :
    r \in DOMAIN paidReceipts /\ paidReceipts[r] = x

\* Authority and purses (wallet_native.rs, emergency.rs,
\* wallet_batch_settle.rs): a capability stays within every ancestor and is
\* reached by the stops of each of them, purses neither make nor lose funds,
\* and no two batches pay for one receipt.
AuthoritySafe ==
  /\ StopsReachDescendants /\ ChainAttenuated /\ PursesConserve
  /\ PaidByOneBatch

=============================================================================
