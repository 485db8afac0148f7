---------------------------- MODULE ShardGateway ----------------------------
(***************************************************************************)
(* Routing between shards: the home shard of a transaction                 *)
(* (crates/shard/src/lib.rs), the gateway that forwards JSON-RPC calls to  *)
(* the shards and puts their answers together (crates/rpc/src/gateway.rs), *)
(* and the check with which a node refuses what belongs elsewhere          *)
(* (crates/node/src/lib.rs).                                               *)
(*                                                                         *)
(* A query across shards calls them one after the other, while the shards  *)
(* go on; a shard that is down, slow or broken gives an error.  A shard's  *)
(* chain is the set of transactions mined there and its height.            *)
(***************************************************************************)
EXTENDS Values, TLC

CONSTANTS
  ShardCount,    \* shard_count of the nodes
  EndpointLists, \* lists of shard endpoints an operator may configure: [id, url]
  GatewayTxs,    \* transactions: id, signer, scope, objects, emits, wire
  NodeTxs,       \* what nodes submit themselves, signed by the one development signer
  GatewayQueries, \* queries: method, address, from, to, filter (of addresses), hash
  HomeOf,        \* HomeOf[<<kind, id>>]: the first bytes of the keccak of a route key
  ZeroAddress,   \* [0u8; 20]
  NoAnswer,      \* null, or a parameter that is not given
  Failure,       \* an error object
  MaxBlocks,     \* bound: blocks of a shard
  MaxQueries,    \* bound: queries
  MaxOutages     \* bound: outages

ASSUME GatewayAssumption ==
  /\ GatewayTxs \cap NodeTxs = {} /\ \A t, u \in NodeTxs : t.signer = u.signer
  /\ ShardCount \in Nat \ {0} /\ MaxBlocks \in Nat /\ MaxQueries \in Nat /\ MaxOutages \in Nat

Shards == 0 .. ShardCount - 1

VARIABLES
  endpoints,   \* endpoints[s]: the node the gateway calls for shard s
  shardPool,   \* shardPool[s]: transactions in the mempool of s
  shardMined,  \* shardMined[s]: transactions mined on s
  shardTip,    \* shardTip[s]: the height of s
  up,          \* the nodes that answer
  call,        \* the query under way, or the last one
  told,        \* what there was on the shards when it began
  acked,       \* the transactions sent through the gateway whose sender got the hash
  queries, outages

gatewayVars == <<endpoints, shardPool, shardMined, shardTip, up, call, told, acked, queries, outages>>
-----------------------------------------------------------------------------
\* home_shard_for_bytes
HomeShard(key, count) == IF count <= 1 THEN 0 ELSE HomeOf[key] % count

\* home_shard_for_address
HomeOfAddress(a, count) == HomeShard(<<"signer", a>>, count)

\* The order in which route_key_for_owned_objects looks for an object.
Precedence == <<"agent", "receipt", "walletTask", "commitment">>

\* route_key_for_owned_objects: the first object of the first kind there is.
ObjectRouteKey(t) ==
  LET at(k) == {i \in DOMAIN t.objects : t.objects[i][1] = k}
      kinds == {k \in DOMAIN Precedence : at(Precedence[k]) # {}}
  IN IF kinds = {} THEN <<"signer", t.signer>> ELSE t.objects[Min(at(Precedence[Min(kinds)]))]

\* route_key_for_execution_scope.  Only an Owned scope is routed by an object.
RouteKey(t) == IF t.scope = "owned" THEN ObjectRouteKey(t) ELSE <<"signer", t.signer>>

\* home_shard_for_transaction
HomeShardOfTx(t, count) == HomeShard(RouteKey(t), count)

\* shard_for_raw_tx_hex: borsh bytes by their scope, EIP-1559 by the signer.
GatewayShard(t, count) == IF t.wire = "borsh" THEN HomeShardOfTx(t, count) ELSE HomeOfAddress(t.signer, count)

\* accepts_transaction: by the signer, and all of it on a single shard 0.
AcceptsTransaction(s, signer) == HomeOfAddress(signer, ShardCount) = s

\* routing_diagnostics_for_signer, which the node answers and refuses with
Diagnostics(s, t) ==
  [source |-> s, expected |-> HomeOfAddress(t.signer, ShardCount), accepted |-> AcceptsTransaction(s, t.signer)]

\* check_tx_shard_route
NodeAccepts(s, t) == Diagnostics(s, t).accepted
-----------------------------------------------------------------------------
\* parse_gateway_endpoints: an entry without an id has its position for one.
EndpointId(raw, i) == IF raw[i].id = NoAnswer THEN i - 1 ELSE raw[i].id

\* with_timeout: in the order of their ids the endpoints count from 0 without
\* a gap or a repetition, and every url can be called.
EndpointsValid(raw) ==
  /\ raw # <<>>
  /\ {EndpointId(raw, i) : i \in DOMAIN raw} = 0 .. Len(raw) - 1
  /\ \A i \in DOMAIN raw : raw[i].url # NoAnswer

\* The node behind each shard id.
EndpointsOf(raw) ==
  [s \in 0 .. Len(raw) - 1 |-> raw[CHOOSE i \in DOMAIN raw : EndpointId(raw, i) = s].url]

\* shard_count of the gateway
GatewayCount == Cardinality(DOMAIN endpoints)

AddressMethods == {"eth_getBalance", "eth_getTransactionCount", "eth_getCode", "eth_getStorageAt"}
HashMethods == {"eth_getTransactionByHash", "eth_getTransactionReceipt", "eth_getBlockByHash"}
LocalMethods == {"fractal_getShardCount", "fractal_getHomeShardForAddress", "fractal_gatewayShardMap"}

\* eth_call_route_address: the first address that is given, in that order.
CallAddress(first, second) ==
  CASE first # NoAnswer -> first
    [] first = NoAnswer /\ second # NoAnswer -> second
    [] OTHER -> ZeroAddress

ToShard(s) == [kind |-> "shards", shards |-> <<s>>]
AcrossShards == [kind |-> "shards", shards |-> [i \in 1 .. GatewayCount |-> i - 1]]
Locally == [kind |-> "local", shards |-> <<>>]
Invalid == [kind |-> "invalid", shards |-> <<>>]

\* route_for_method; single_log_filter_address: a filter for one address goes
\* to the home of the address.
RouteForMethod(q) ==
  LET home(a) == ToShard(HomeOfAddress(a, GatewayCount))
  IN CASE q.method \in AddressMethods  -> IF q.address = NoAnswer THEN Invalid ELSE home(q.address)
       [] q.method = "eth_call"        -> home(CallAddress(q.to, q.from))
       [] q.method = "eth_estimateGas" -> home(CallAddress(q.from, q.to))
       [] q.method = "eth_getLogs"     -> IF Len(q.filter) = 1 THEN home(q.filter[1]) ELSE AcrossShards
       [] q.method \in HashMethods     -> IF q.hash = NoAnswer THEN Invalid ELSE AcrossShards
       [] q.method = "eth_blockNumber" -> AcrossShards
       [] q.method \in LocalMethods    -> Locally
       [] OTHER                        -> ToShard(0)

\* What dispatch answers without a shard.
LocalAnswer(q) ==
  CASE q.method = "fractal_getShardCount" -> GatewayCount
    [] q.method = "fractal_getHomeShardForAddress" -> HomeOfAddress(q.address, GatewayCount)
    [] OTHER -> endpoints

\* The logs of transactions T that a filter with the addresses A matches.
LogsIn(T, A) ==
  {l \in T \X UNION {t.emits : t \in T} : l[2] \in l[1].emits /\ (A = <<>> \/ l[2] \in Range(A))}

\* What node n answers.  A block it does not have is an error, and not null.
NodeAnswer(n, q) ==
  CASE q.method = "eth_getTransactionByHash"  -> IF q.hash \in shardPool[n] \cup shardMined[n] THEN q.hash ELSE NoAnswer
    [] q.method = "eth_getTransactionReceipt" -> IF q.hash \in shardMined[n] THEN q.hash ELSE NoAnswer
    [] q.method = "eth_getBlockByHash" ->
         IF q.hash.shard = n /\ q.hash.height <= shardTip[n] THEN q.hash ELSE Failure
    [] q.method = "eth_getLogs" -> LogsIn(shardMined[n], q.filter)
    [] q.method \in AddressMethods -> {t \in shardMined[n] : t.signer = q.address}
    [] q.method \in {"eth_call", "eth_estimateGas"} -> shardMined[n]
    [] OTHER -> shardTip[n]

Idle == [query |-> [method |-> "none"], left |-> <<>>, acc |-> NoAnswer, open |-> FALSE]

\* Several lists may be configured, and the gateway starts with a valid one.
GatewayInit ==
  /\ \E raw \in EndpointLists : EndpointsValid(raw) /\ endpoints = EndpointsOf(raw)
  /\ shardPool = [s \in Shards |-> {}] /\ shardMined = [s \in Shards |-> {}]
  /\ shardTip = [s \in Shards |-> 0]
  /\ up = Shards /\ call = Idle
  /\ told = [mined |-> shardMined, tips |-> shardTip]
  /\ acked = {} /\ queries = 0 /\ outages = 0

\* submit_raw_tx on a node.
SubmitAt(s, t) ==
  shardPool' = IF NodeAccepts(s, t) THEN [shardPool EXCEPT ![s] = @ \cup {t}] ELSE shardPool

SubmitDirect(s, t) ==
  /\ s \in up /\ t \notin shardPool[s] \cup shardMined[s] /\ NodeAccepts(s, t)
  /\ SubmitAt(s, t)
  /\ UNCHANGED <<endpoints, shardMined, shardTip, up, call, told, acked, queries, outages>>

\* submit_proof_hash, submit_rlmf_attestation and submit_life_command: the node
\* signs for HARDHAT_DEFAULT_SIGNER_0 and pools the transaction where it was
\* asked to, directly or, on shard 0, through the gateway. The route is not
\* checked.
SubmitOwn(s, t) ==
  /\ s \in up /\ t \notin shardPool[s] \cup shardMined[s]
  /\ shardPool' = [shardPool EXCEPT ![s] = @ \cup {t}]
  /\ UNCHANGED <<endpoints, shardMined, shardTip, up, call, told, acked, queries, outages>>

\* eth_sendRawTransaction through the gateway, which answers what the node
\* does.  A node that cannot be reached or refuses gives an error; so does one
\* that took the transaction and whose answer came after the timeout.
SubmitRouted(t, inTime) ==
  LET s == endpoints[GatewayShard(t, GatewayCount)]
  IN /\ s \in up /\ t \notin shardPool[s] \cup shardMined[s]
     /\ SubmitAt(s, t)
     /\ acked' = IF inTime /\ NodeAccepts(s, t) THEN acked \cup {t} ELSE acked
     /\ UNCHANGED <<endpoints, shardMined, shardTip, up, call, told, queries, outages>>

ShardProduces(s) ==
  /\ s \in up /\ shardTip[s] < MaxBlocks
  /\ shardTip' = [shardTip EXCEPT ![s] = @ + 1]
  /\ shardMined' = [shardMined EXCEPT ![s] = @ \cup shardPool[s]]
  /\ shardPool' = [shardPool EXCEPT ![s] = {}]
  /\ UNCHANGED <<endpoints, up, call, told, acked, queries, outages>>

Outage(s) ==
  /\ s \in up /\ outages < MaxOutages
  /\ up' = up \ {s} /\ outages' = outages + 1
  /\ UNCHANGED <<endpoints, shardPool, shardMined, shardTip, call, told, acked, queries>>

Recovery(s) ==
  /\ s \notin up
  /\ up' = up \cup {s}
  /\ UNCHANGED <<endpoints, shardPool, shardMined, shardTip, call, told, acked, queries, outages>>

\* What dispatch starts to put the answers of several shards together from.
EmptyAnswer(q) ==
  CASE q.method = "eth_getLogs" -> {} [] q.method = "eth_blockNumber" -> 0 [] OTHER -> NoAnswer

\* dispatch, up to its first call of a shard
Dispatch(q) ==
  LET r == RouteForMethod(q)
  IN /\ ~call.open /\ queries < MaxQueries
     /\ queries' = queries + 1
     /\ told' = [mined |-> shardMined, tips |-> shardTip]
     /\ call' = [query |-> q, left |-> r.shards, open |-> r.kind = "shards",
                 acc |-> CASE r.kind = "shards" -> EmptyAnswer(q)
                           [] r.kind = "local"  -> LocalAnswer(q)
                           [] OTHER             -> Failure]
     /\ UNCHANGED <<endpoints, shardPool, shardMined, shardTip, up, acked, outages>>

\* Seeded defect: the answer of the last shard stands.
GatheredLast(c, v) == IF c.query.method = "eth_getLogs" THEN c.acc \cup v ELSE v

\* The answers of the shards so far, put together by dispatch.
Gathered(c, v) ==
  CASE c.query.method = "eth_getLogs" -> c.acc \cup v
    [] c.query.method = "eth_blockNumber" -> Max({c.acc, v})
    [] OTHER -> v

\* The loop ends with the last shard, or with the first that has the object.
Done(c, v) ==
  Len(c.left) = 1 \/ (c.query.method \in HashMethods /\ v # NoAnswer)

\* An error of one shard is the answer, and nothing of the others.
FailedCall(c) == [c EXCEPT !.open = FALSE, !.left = <<>>, !.acc = Failure]

\* call_shard, and what dispatch does with its answer
CallShard ==
  /\ call.open
  /\ LET n == endpoints[Head(call.left)] IN
     IF n \notin up THEN call' = FailedCall(call)
     ELSE \E v \in {NodeAnswer(n, call.query)} :
            call' = CASE v = Failure -> FailedCall(call)
                      [] v # Failure /\ Done(call, v) ->
                           [call EXCEPT !.open = FALSE, !.left = <<>>, !.acc = Gathered(call, v)]
                      [] OTHER -> [call EXCEPT !.left = Tail(@), !.acc = Gathered(call, v)]
  /\ UNCHANGED <<endpoints, shardPool, shardMined, shardTip, up, told, acked, queries, outages>>

\* post_json_rpc runs out of time, or split_http_body finds no answer.
CallTimedOut ==
  /\ call.open
  /\ call' = FailedCall(call)
  /\ UNCHANGED <<endpoints, shardPool, shardMined, shardTip, up, told, acked, queries, outages>>

GatewayNext ==
  \/ \E s \in Shards, t \in GatewayTxs : SubmitDirect(s, t)
  \/ \E s \in Shards, t \in NodeTxs : SubmitOwn(s, t)
  \/ \E t \in GatewayTxs, inTime \in BOOLEAN : SubmitRouted(t, inTime)
  \/ \E s \in Shards : ShardProduces(s) \/ Outage(s) \/ Recovery(s)
  \/ \E q \in GatewayQueries : Dispatch(q)
  \/ CallShard \/ CallTimedOut

GatewaySpec == GatewayInit /\ [][GatewayNext]_gatewayVars
-----------------------------------------------------------------------------
\* The transactions clients send for a signer are all accepted on one shard,
\* where its nonce is, whether they come through the gateway or directly and
\* whatever objects they name; what is found elsewhere was submitted by a node
\* itself, for the development signer, which check_tx_shard_route never sees.
\* And a transaction the gateway has acknowledged is there.
SignerOnOneShard ==
  /\ \A s, r \in Shards :
       \A t \in shardPool[s] \cup shardMined[s], u \in shardPool[r] \cup shardMined[r] :
         t.signer = u.signer => s = r \/ {t, u} \cap NodeTxs # {}
  /\ \A t \in acked : \E s \in Shards : t \in shardPool[s] \cup shardMined[s]

AllOf(mined) == UNION {mined[s] : s \in Shards}

\* An answer is whole or an error, although the shards are asked one by one
\* while they go on and may fail in between.  What is asked of every shard is
\* at least what was mined when the query began and no more than what is mined
\* now; a null means that no shard had mined the transaction; the block number
\* is one some shard has reached, not below the highest there was.  What is
\* asked of the home shard of an address has all the transactions clients sent
\* for it, wherever they sent them; it misses only what the nodes of other
\* shards submitted for the development signer.
AnswersAreWhole ==
  LET q == call.query
      before == AllOf(told.mined)
      now == AllOf(shardMined)
      between(lo, hi) == lo \subseteq call.acc /\ call.acc \subseteq hi
  IN ~call.open /\ call.acc # Failure =>
       CASE q.method = "eth_getLogs" /\ Len(q.filter) # 1 -> between(LogsIn(before, q.filter), LogsIn(now, q.filter))
         [] q.method = "eth_getLogs" /\ Len(q.filter) = 1 ->
              LET s == HomeOfAddress(q.filter[1], ShardCount)
              IN between(LogsIn(told.mined[s], q.filter), LogsIn(shardMined[s], q.filter))
         [] q.method \in AddressMethods ->
              between({t \in before \ NodeTxs : t.signer = q.address} \cup
                        {t \in told.mined[HomeOfAddress(q.address, ShardCount)] : t.signer = q.address},
                       {t \in now : t.signer = q.address})
         [] q.method = "eth_blockNumber" ->
              /\ \A s \in Shards : told.tips[s] <= call.acc
              /\ \E s \in Shards : call.acc <= shardTip[s]
         [] q.method = "eth_getTransactionReceipt" ->
              IF call.acc = NoAnswer THEN q.hash \notin before ELSE q.hash \in now
         [] q.method = "eth_getTransactionByHash" ->
              IF call.acc = NoAnswer THEN q.hash \notin before
              ELSE \E s \in Shards : q.hash \in shardPool[s] \cup shardMined[s]
         [] q.method = "eth_getBlockByHash" -> q.hash.height <= shardTip[q.hash.shard]
         [] OTHER -> TRUE

\* A shard the gateway forwards a transaction to takes it.
RoutedIsAccepted ==
  \A t \in GatewayTxs : NodeAccepts(endpoints[GatewayShard(t, GatewayCount)], t)

\* The logs of one address are all found, on whichever shard they were emitted.
OneAddressLogsWhole ==
  ~call.open /\ call.acc # Failure /\ call.query.method = "eth_getLogs" =>
    LogsIn(AllOf(told.mined), call.query.filter) \subseteq call.acc

\* A block that some shard has is found by its hash.
BlocksAreFound ==
  ~call.open /\ call.query.method = "eth_getBlockByHash" /\ call.query.hash # NoAnswer =>
    (call.query.hash.height <= told.tips[call.query.hash.shard] => call.acc # Failure)
=============================================================================
