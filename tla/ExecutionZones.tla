--------------------------- MODULE ExecutionZones ---------------------------
(***************************************************************************)
(* The registry of execution zones (crates/shard): zones, their            *)
(* proof-final updates, asynchronous messages between zones, and forced    *)
(* inclusion, the way round a sequencer who censors.                       *)
(*                                                                         *)
(* A root is the sequence or set it commits to, a digest the record it     *)
(* hashes.  The queue of messages is the set that its sort and dedup       *)
(* leave.  An update is built from a header and submitted later, so the    *)
(* registry may have moved between the two.                                *)
(***************************************************************************)
EXTENDS Values

CONSTANTS
  Zones, TimeoutOf, EvmCapable,  \* zone ids, their metadata
  Txs,                           \* transactions to force: [zone, tx]
  Messages,                      \* [from, to, nonce]
  MaxZoneHeight,                 \* bound: zone_block_height
  MaxHeight                      \* bound: the masterchain height

ASSUME ZonesAssumption == \A z \in Zones : TimeoutOf[z] \in Nat

VARIABLES
  registry,   \* ExecutionZoneRegistryV1
  updates,    \* zone -> the ZoneProofFinalUpdateV1 its sequencer built last
  accepted    \* history: the updates that became proof-final

zoneVars == <<registry, updates, accepted>>

EmptyRegistry ==
  [height |-> 0, zones |-> Empty, messages |-> {}, consumed |-> {}, pending |-> {}, events |-> {},
   proven |-> {}]

ZonesInit == registry = EmptyRegistry /\ updates = Empty /\ accepted = {}

Known(z) == z \in DOMAIN registry.zones

\* Seeded defect: the requests of every zone.
UnresolvedOfAll(z) == {e.request : e \in registry.events} \ registry.proven

\* unresolved_forced_inclusion_requests_for_zone
Unresolved(z) ==
  {r \in {e.request : e \in registry.events} : r.zone = z} \ registry.proven

\* flush_due_forced_inclusions
Flushed(reg) ==
  LET due == {r \in reg.pending : r.deadline <= reg.height}
  IN [reg EXCEPT !.pending = @ \ due,
                 !.events = @ \cup {[request |-> r, at |-> reg.height, late |-> Minus(reg.height, r.deadline)] : r \in due}]

\* coverage_manifest_for_circuit_version, on the two features that tell the circuits apart
Covered(circuit) == IF circuit = "mixed" THEN {"native", "evm"} ELSE {"native"}

\* required_zone_circuit_version
RequiredCircuit(z) == IF EvmCapable[z] THEN "mixed" ELSE "native"

\* outbound_cross_zone_messages_for
Outbound(z) == {m \in registry.messages : m.from = z}
-----------------------------------------------------------------------------
CreateZone(z) ==
  /\ TimeoutOf[z] # 0
  /\ ~Known(z)
  /\ registry' = [registry EXCEPT !.zones = Put(@, z, [created |-> registry.height, final |-> 0, msgs |-> {}])]
  /\ UNCHANGED <<updates, accepted>>

\* The sequencer of z builds the update of a new zone block with what the
\* registry asks for now: zone_proof_final_update_from_header_with_circuit.
BuildUpdate(z, h, features, da) ==
  /\ Known(z) /\ h = registry.zones[z].final + 1
  /\ updates' = Put(updates, z, [zone |-> z, height |-> h, msgs |-> Outbound(z), forced |-> Unresolved(z),
                                 circuit |-> RequiredCircuit(z), features |-> features, da |-> da])
  /\ UNCHANGED <<registry, accepted>>

\* verify_zone_update_coverage and verify_zone_update_public_inputs
Verifies(u) ==
  /\ u.circuit = RequiredCircuit(u.zone)
  /\ u.features \subseteq Covered(u.circuit)
  /\ u.da

\* Seeded defect: the requests to prove are those of every zone.
FinalizeUpdateAny(u) ==
  /\ u.forced = Unresolved(u.zone)
  /\ Known(u.zone)
  /\ u.height > registry.zones[u.zone].final
  /\ registry' = [registry EXCEPT !.zones[u.zone] = [@ EXCEPT !.final = u.height, !.msgs = u.msgs],
                                  !.proven = @ \cup UnresolvedOfAll(u.zone)]
  /\ accepted' = accepted \cup {u}
  /\ UNCHANGED updates

\* What submit_proof_final_update does with an update that verifies.
FinalizeUpdate(u) ==
  /\ u.forced = Unresolved(u.zone)
  /\ Known(u.zone)
  /\ u.height > registry.zones[u.zone].final
  /\ registry' = [registry EXCEPT !.zones[u.zone] = [@ EXCEPT !.final = u.height, !.msgs = u.msgs],
                                  !.proven = @ \cup Unresolved(u.zone)]
  /\ accepted' = accepted \cup {u}
  /\ UNCHANGED updates

\* submit_proof_final_update
SubmitUpdate(u) == Verifies(u) /\ FinalizeUpdate(u)

SubmitMessage(m) ==
  /\ Known(m.from) /\ Known(m.to)
  /\ registry' = [registry EXCEPT !.messages = @ \cup {m}]
  /\ UNCHANGED <<updates, accepted>>

\* drain_cross_zone_messages_for
Drain(z) ==
  /\ Known(z)
  /\ registry' = [registry EXCEPT !.messages = {m \in @ : m.to # z}]
  /\ UNCHANGED <<updates, accepted>>

\* consume_cross_zone_message_from_latest_source, given an inclusion proof of m
\* under root: only the source's latest root will do.
ConsumeMessage(m, root) ==
  /\ Known(m.to) /\ Known(m.from)
  /\ root = registry.zones[m.from].msgs
  /\ m \in root
  /\ m \notin registry.consumed
  /\ registry' = [registry EXCEPT !.consumed = @ \cup {m}]
  /\ UNCHANGED <<updates, accepted>>

\* The id of a request has the height in it: the same transaction can be forced again.
ForcedRequest(t) ==
  [zone |-> t.zone, tx |-> t.tx, submitted |-> registry.height,
   deadline |-> registry.height + TimeoutOf[t.zone]]

SubmitForced(t) ==
  LET r == ForcedRequest(t)
  IN /\ Known(t.zone)
     /\ r.deadline <= MaxHeight
     /\ r \notin registry.pending \cup {e.request : e \in registry.events}
     /\ registry' = [registry EXCEPT !.pending = @ \cup {r}]
     /\ UNCHANGED <<updates, accepted>>

\* advance_masterchain_height: an older height leaves it, and flushes all the same.
AdvanceHeight(h) ==
  /\ registry' = Flushed([registry EXCEPT !.height = Max({@, h})])
  /\ UNCHANGED <<updates, accepted>>

ZoneOps ==
  \/ \E z \in Zones :
       \/ CreateZone(z) \/ Drain(z)
       \/ \E h \in 1..MaxZoneHeight, f \in {{"native"}, {"native", "evm"}}, da \in BOOLEAN : BuildUpdate(z, h, f, da)
  \/ \E z \in DOMAIN updates : SubmitUpdate(updates[z])
  \/ \E m \in Messages :
       \/ SubmitMessage(m)
       \/ \E u \in accepted \cup {updates[z] : z \in DOMAIN updates} : ConsumeMessage(m, u.msgs)
  \/ \E t \in Txs : SubmitForced(t)

ZonesNext == ZoneOps \/ \E h \in 0..MaxHeight : AdvanceHeight(h)

ZonesSpec == ZonesInit /\ [][ZonesNext]_zoneVars
-----------------------------------------------------------------------------
\* A forced request counts as proven only if a proof-final block of its own
\* zone carried it: a sequencer cannot shed it by proving another block.
ProvenWasCarried ==
  \A r \in registry.proven : \E u \in accepted : u.zone = r.zone /\ r \in u.forced

\* No request is still waiting at its deadline, however the height jumps.
NoneOverdue == \A r \in registry.pending : r.deadline > registry.height

\* A message is consumed in its destination only after a proof-final block of
\* its source committed to it.
ConsumedWasFinal == \A m \in registry.consumed : \E u \in accepted : u.zone = m.from /\ m \in u.msgs

\* Zones (shard/src/lib.rs): a proven block carried the requests forced on
\* it, no request stays past its deadline, and a consumed message was in a
\* final block of its source.
ZonesSafe ==
  /\ ProvenWasCarried /\ NoneOverdue /\ ConsumedWasFinal

=============================================================================
