-------------------------------- MODULE Evm --------------------------------
(***************************************************************************)
(* Ethereum transactions: from the signed envelope (eth-wire) through the  *)
(* state transition of fractal-core to the revm adapter of fractal-evm.    *)
(*                                                                         *)
(* revm itself is external: it is modelled by the change set it hands to   *)
(* StateDb::commit.  A contract is one of five behaviours; gas and logs    *)
(* are left out.  An address is the path of nonces that created it: the    *)
(* account k is <<k>>, its contract at nonce n is <<k, n>>.                *)
(***************************************************************************)
EXTENDS Values, Sequences

CONSTANTS EvmOwners,      \* the keys with a funded account, numbers from 2 up
          GenesisFunds,       \* the balance of each at genesis
          MaxNonce     \* bound: the largest nonce a key signs

ASSUME EvmAssumption ==
  /\ EvmOwners \subseteq Nat \ {0, 1} /\ EvmOwners # {} /\ IsFiniteSet(EvmOwners)
  /\ GenesisFunds \in Nat /\ MaxNonce \in Nat

Precompile == <<0>>    \* the address of the native syscalls
Nobody == <<1>>        \* the account a signature over other bytes recovers to
Codes == {"store", "pay", "spawn", "syscall", "fail"}
NoAccount == [nonce |-> 0, balance |-> 0]

VARIABLES world,       \* State: accounts, evm_code, evm_storage, native rows
          forged,      \* a key's account moved by an envelope it did not sign
          dropped      \* an envelope a key signed for its turn was refused
evmVars == <<world, forged, dropped>>

Known(w, a) == a \in DOMAIN w.accounts
AccountAt(w, a) == Get(w.accounts, a, NoAccount)
CodeAt(w, a) == Get(w.code, a, "none")

-----------------------------------------------------------------------------
(* eth-wire.                                                               *)

\* The recipients: the accounts there are, the precompile, and an address
\* that may hold money before a contract is created there.
Recipients == DOMAIN world.accounts \cup {Precompile} \cup {<<k, 0>> : k \in EvmOwners}

Envelopes ==
  [chain : {"ours"}, nonce : 0..MaxNonce, value : 0..1,
   to : Recipients, data : {"empty", "native"}]
  \cup [chain : {"ours"}, nonce : 0..MaxNonce, value : 0..1,
        to : {<<>>}, data : Codes \cup {"empty"}]
  \cup [chain : {"other"}, nonce : 0..MaxNonce, value : {1},
        to : {<<k>> : k \in EvmOwners}, data : {"empty"}]

\* eip1559_sighash covers every field of the envelope.
Sighash(env) == env

RecoverSender(key, signed, env) ==
  IF Sighash(signed) = Sighash(env) THEN <<key>> ELSE Nobody

\* to_core_tx: no recipient is a create, empty data a transfer.
Body(env) ==
  CASE env.to = <<>> -> "create"
    [] env.to # <<>> /\ env.data = "empty" -> "transfer"
    [] OTHER -> "call"

-----------------------------------------------------------------------------
(* revm, as the adapter uses it.  A change set maps each touched account   *)
(* to what it holds after the transaction.                                 *)

TouchedAccount(w, a) ==
  [nonce |-> AccountAt(w, a).nonce, balance |-> AccountAt(w, a).balance,
   code |-> CodeAt(w, a), slot |-> Get(w.storage, a, 0)]

\* create_contract_address.
Child(a, nonce) == Append(a, nonce)

\* What the code at `self` does when it is called by `caller`.
Effects(w, caller, self) ==
  LET me == TouchedAccount(w, self)
      you == [TouchedAccount(w, caller) EXCEPT !.nonce = @ + 1]
      kid == Child(self, me.nonce)
      base == Put([a \in {self} |-> me], caller, you)
  IN CASE CodeAt(w, self) = "store" ->
            [base EXCEPT ![self].slot = 1 - @]
       [] CodeAt(w, self) = "pay" ->
            [base EXCEPT ![self].balance = 0, ![caller].balance = @ + me.balance]
       [] CodeAt(w, self) = "spawn" ->
            Put([base EXCEPT ![self].nonce = @ + 1, ![self].balance = 0], kid,
                [nonce |-> 1, balance |-> me.balance + AccountAt(w, kid).balance,
                 code |-> "store", slot |-> 0])
       [] CodeAt(w, self) = "syscall" ->
            Put(base, Precompile, TouchedAccount(w, Precompile))
       [] OTHER -> base

\* A create at an address that has code or a nonce collides and fails.
Collides(w, a) == AccountAt(w, a).nonce # 0 \/ CodeAt(w, a) # "none"

Creation(w, caller, init) ==
  LET me == TouchedAccount(w, caller)
      new == Child(caller, me.nonce)
      made == [nonce |-> 1, balance |-> AccountAt(w, new).balance, slot |-> 0,
               code |-> IF init \in Codes THEN init ELSE "none"]
  IN Put([a \in {new} |-> made], caller, [me EXCEPT !.nonce = @ + 1])

-----------------------------------------------------------------------------
(* The adapter.                                                            *)

CommitKnown(w, changes) ==
  LET known == {a \in DOMAIN changes : Known(w, a)}
      coded == {a \in DOMAIN changes : changes[a].code # "none"}
  IN [w EXCEPT !.accounts = Over([a \in known |->
                                    [nonce |-> changes[a].nonce, balance |-> changes[a].balance]], @),
               !.code = Over([a \in coded |-> changes[a].code], @)]

\* StateDb::commit writes every touched account, code only when it has some.
Commit(w, changes) ==
  LET coded == {a \in DOMAIN changes : changes[a].code # "none"}
  IN [w EXCEPT !.accounts = Over([a \in DOMAIN changes |->
                                    [nonce |-> changes[a].nonce, balance |-> changes[a].balance]], @),
               !.code = Over([a \in coded |-> changes[a].code], @),
               !.storage = Over([a \in coded |-> changes[a].slot], @)]

\* bump_nonce.
Bumped(w, a) == [w EXCEPT !.accounts[a].nonce = @ + 1]

ExecuteCallCounted(w, caller, to, data) ==
  IF to = Precompile
  THEN [w EXCEPT !.native = @ \cup {caller}]
  ELSE Commit(w, Effects(w, caller, to))

\* execute_call: the precompile address runs a native call; otherwise the
\* nonce revm has already moved is put back, for bump_nonce to move it.
ExecuteCall(w, caller, to, data) ==
  IF to = Precompile
  THEN [w EXCEPT !.native = @ \cup {caller}]
  ELSE [Commit(w, Effects(w, caller, to)) EXCEPT
          !.accounts[caller].nonce = AccountAt(w, caller).nonce]

CallRuns(w, to, data) ==
  IF to = Precompile THEN data = "native" ELSE CodeAt(w, to) # "fail"

ExecuteCreate(w, caller, init) == Commit(w, Creation(w, caller, init))

CreateRuns(w, caller, init) ==
  init # "fail" /\ ~Collides(w, Child(caller, AccountAt(w, caller).nonce))

-----------------------------------------------------------------------------
(* apply_transaction_with_evm.                                             *)

Transfers(w, from, to, amount) ==
  LET paid == [w EXCEPT !.accounts[from].balance = @ - amount]
  IN [paid EXCEPT !.accounts =
        Put(@, to, [AccountAt(paid, to) EXCEPT !.balance = @ + amount])]

Applies(w, sender, env) ==
  /\ env.chain = "ours"
  /\ Known(w, sender)
  /\ AccountAt(w, sender).nonce = env.nonce
  /\ CASE Body(env) = "transfer" -> AccountAt(w, sender).balance >= env.value
       [] Body(env) = "call" -> env.value = 0 /\ CallRuns(w, env.to, env.data)
       [] Body(env) = "create" -> env.value = 0 /\ CreateRuns(w, sender, env.data)

Applied(w, sender, env) ==
  CASE Body(env) = "transfer" -> Bumped(Transfers(w, sender, env.to, env.value), sender)
    [] Body(env) = "call" -> Bumped(ExecuteCall(w, sender, env.to, env.data), sender)
    [] Body(env) = "create" -> ExecuteCreate(w, sender, env.data)

\* The copies of a signed envelope that reach the node: as signed, or with
\* one field changed on the way.
Copies(env) ==
  {env, [env EXCEPT !.value = 1 - @], [env EXCEPT !.chain = "ours"]}

Submit(key, signed, env) ==
  LET sender == RecoverSender(key, signed, env)
  IN IF Applies(world, sender, env)
     THEN /\ world' = Applied(world, sender, env)
          /\ forged' = (forged \/ signed # env)
          /\ UNCHANGED dropped
     ELSE /\ dropped' = (dropped \/ (signed = env /\ env.chain = "ours" /\ Body(env) = "create"
                           /\ env.value = 0 /\ env.data # "fail"
                           /\ env.nonce = world.accounts[<<key>>].nonce))
          /\ UNCHANGED <<world, forged>>

EvmInit ==
  /\ world = [accounts |-> [a \in {<<k>> : k \in EvmOwners} |->
                              [nonce |-> 0, balance |-> GenesisFunds]],
              code |-> Empty, storage |-> Empty, native |-> {}]
  /\ forged = FALSE
  /\ dropped = FALSE

EvmNext ==
  \E key \in EvmOwners, signed \in Envelopes :
    \E env \in Copies(signed) : Submit(key, signed, env)

EvmSpec == EvmInit /\ [][EvmNext]_evmVars

-----------------------------------------------------------------------------
(* Properties.                                                             *)

\* The adapter and revm neither lose nor make money: what contracts are
\* sent, hand to a child they create or pay back adds up to the genesis
\* funds, whichever accounts the change set brings into being.
EvmMoneyConserved ==
  SumOver(DOMAIN world.accounts, LAMBDA a : world.accounts[a].balance)
    = GenesisFunds * Cardinality(EvmOwners)

\* An account is moved only by an envelope its key signed as it stands: no
\* copy altered on the way is applied.
OnlySignedApplied == ~forged

\* A create that its key signed for its next nonce and whose init code
\* succeeds is never refused: the address it derives is always free.
CreatesFindRoom == ~dropped

\* revm counts a transaction once and bump_nonce once more: together they
\* move the signer's nonce by exactly one, and nobody else's, so a signed
\* envelope is applied at most once and the next one is never skipped.
NonceOncePerTx ==
  [][\A k \in EvmOwners :
       LET was == world.accounts[<<k>>] IN
       LET is == world'.accounts[<<k>>] IN
       /\ is.nonce \in {was.nonce, was.nonce + 1}
       /\ is.balance < was.balance => is.nonce = was.nonce + 1]_evmVars

\* The EVM adapter (evm/src/engine.rs, eth-wire): a change set written back
\* conserves money, what is applied is what was signed, and a create never
\* meets the account of an earlier one.
EvmSafe ==
  /\ EvmMoneyConserved /\ OnlySignedApplied /\ CreatesFindRoom

=============================================================================
