-------------------------- MODULE DomainSync_proofs --------------------------
(***************************************************************************)
(* Proofs about DomainSync: types, what a delete seen by a process rules   *)
(* out, and tenant isolation, for any number of domains, ids, networks     *)
(* and agents, and for any faults.                                         *)
(*                                                                         *)
(* Then what it leaves in the kernel of a node.  A sync never takes the    *)
(* VRF of a domain it listed, whatever fails.  A dormant domain holds      *)
(* nothing, as long as the kernel can be read and lets go of what is       *)
(* deleted.  No gateway is in an unsealed VRF, as long as no pass raises   *)
(* after it recorded its domain and gateway ports can be deleted: with     *)
(* those two faults the code does break it (see the run sync_unsealed),    *)
(* and the proof says that nothing else does.                              *)
(***************************************************************************)
EXTENDS DomainSync, TLAPS

\* A domain that exists has an id, so that every payload names a VRF.
LiveHasId == \A d \in live : fidOf[d] # NoFid

\* A domain some cast or some process says is deleted existed, and does no
\* more: it will not be created again.
Dead(d) == d \notin live /\ fidOf[d] # NoFid
DeletedIsDead ==
    /\ \A a \in Agents : \A m \in msgs[a] : m.type = "deleted" => Dead(m.id)
    /\ \A a \in Agents : \A d \in tomb[a] : Dead(d)

\* Between two syncs nothing of a reply is left over.
IdleIsClean == \A a \in Agents : Idle(a) => sync[a] = NoSync

Inv ==
    /\ TypeOK /\ LiveHasId /\ DeletedIsDead /\ IdleIsClean
    /\ TombstonedStaysGone /\ SyncPostdatesDelete

-----------------------------------------------------------------------------
(* What a handler may change of one node on behalf of one domain           *)

\* The state of the agents a domain's payload is applied to.
NodeTypes ==
    /\ known \in [Agents -> Payloads]
    /\ dormant \in [Agents -> SUBSET Domains]
    /\ dp \in [Agents -> [Domains -> Fids \cup {NoFid}]]
    /\ vrf \in [Agents -> SUBSET Fids]
    /\ sealed \in [Agents -> SUBSET Fids]
    /\ gw \in [Agents -> [Fids -> SUBSET Networks]]
    /\ faults \in 0..MaxFaults

\* Nothing of another agent or of another domain is forgotten or remembered.
OnlyFor(a, d) ==
    \A b \in Agents, e \in Domains : b # a \/ e # d =>
        /\ known'[b][e] = known[b][e]
        /\ dp'[b][e] = dp[b][e]
        /\ e \in dormant'[b] <=> e \in dormant[b]

\* The fault budget is respected by every operation that may use it.
LEMMA FaultTyped ==
    ASSUME NEW k, faults \in 0..MaxFaults, Fault(k)
    PROVE  faults' \in 0..MaxFaults
  BY DomainSyncAssumption DEF Fault

\* And the bound on requests.
LEMMA OpTyped ==
    ASSUME ops \in 0..MaxOps, Op
    PROVE  ops' \in 0..MaxOps
  BY DomainSyncAssumption DEF Op

\* dataplane.delete_domain: the domain loses its record on this node, and no
\* other domain does.
LEMMA DeleteDomainLocal ==
    ASSUME NodeTypes, NEW a \in Agents, NEW d \in Domains, NEW f, NEW k,
           DeleteDomain(a, d, f, k)
    PROVE  /\ vrf' \in [Agents -> SUBSET Fids]
           /\ sealed' \in [Agents -> SUBSET Fids]
           /\ gw' \in [Agents -> [Fids -> SUBSET Networks]]
           /\ dp' = [dp EXCEPT ![a][d] = NoFid]
           /\ dp' \in [Agents -> [Domains -> Fids \cup {NoFid}]]
  BY DEF DeleteDomain, Erase, NodeTypes

\* _retire_domain touches this domain on this node only.
LEMMA RetireLocal ==
    ASSUME NodeTypes, NEW a \in Agents, NEW d \in Domains, NEW p \in Payload,
           Retire(a, d, p)
    PROVE  NodeTypes' /\ OnlyFor(a, d)
  <1>1. PICK k \in DeleteKinds \cup {"list"} :
           /\ Fault(k)
           /\ dormant' = [dormant EXCEPT ![a] = @ \ {d}]
           /\ DeleteDomain(a, d, p.fid, k) \/ UNCHANGED <<kernel, dp>>
           /\ known' = IF k = "raise" THEN known
                       ELSE [known EXCEPT ![a][d] = NoPayload]
    BY Zenon DEF Retire
  <1>2. faults' \in 0..MaxFaults
    BY <1>1, FaultTyped DEF NodeTypes
  <1>3. known' \in [Agents -> Payloads] /\ dormant' \in [Agents -> SUBSET Domains]
    BY <1>1 DEF NodeTypes, Payloads
  <1>4. CASE DeleteDomain(a, d, p.fid, k)
    <2>1. NodeTypes'
      BY <1>2, <1>3, <1>4, DeleteDomainLocal DEF NodeTypes
    <2>2. dp' = [dp EXCEPT ![a][d] = NoFid]
      BY <1>4, DeleteDomainLocal
    <2> QED  BY <1>1, <2>1, <2>2 DEF OnlyFor, NodeTypes, Payloads
  <1>5. CASE UNCHANGED <<kernel, dp>>
    <2>1. NodeTypes'
      BY <1>2, <1>3, <1>5 DEF NodeTypes, kernel
    <2> QED  BY <1>1, <1>5, <2>1 DEF OnlyFor, NodeTypes, Payloads
  <1> QED  BY <1>1, <1>4, <1>5

\* _make_dormant as well.
LEMMA MakeDormantLocal ==
    ASSUME NodeTypes, NEW a \in Agents, NEW d \in Domains, NEW p \in Payload,
           MakeDormant(a, d, p)
    PROVE  NodeTypes' /\ OnlyFor(a, d)
  <1>1. PICK k \in DeleteKinds \cup {"list"} :
           /\ Fault(k)
           /\ DeleteDomain(a, d, p.fid, k) \/ UNCHANGED <<kernel, dp>>
           /\ known' = IF k = "raise" THEN known ELSE [known EXCEPT ![a][d] = p]
           /\ dormant' = IF k = "raise" THEN dormant
                         ELSE [dormant EXCEPT ![a] = @ \cup {d}]
    BY Zenon DEF MakeDormant
  <1>2. faults' \in 0..MaxFaults
    BY <1>1, FaultTyped DEF NodeTypes
  <1>3. known' \in [Agents -> Payloads] /\ dormant' \in [Agents -> SUBSET Domains]
    BY <1>1 DEF NodeTypes, Payloads
  <1>4. CASE DeleteDomain(a, d, p.fid, k)
    <2>1. NodeTypes'
      BY <1>2, <1>3, <1>4, DeleteDomainLocal DEF NodeTypes
    <2>2. dp' = [dp EXCEPT ![a][d] = NoFid]
      BY <1>4, DeleteDomainLocal
    <2> QED  BY <1>1, <2>1, <2>2 DEF OnlyFor, NodeTypes, Payloads
  <1>5. CASE UNCHANGED <<kernel, dp>>
    <2>1. NodeTypes'
      BY <1>2, <1>3, <1>5 DEF NodeTypes, kernel
    <2> QED  BY <1>1, <1>5, <2>1 DEF OnlyFor, NodeTypes, Payloads
  <1> QED  BY <1>1, <1>4, <1>5

\* And the rest of _apply_domain.
LEMMA ProgramLocal ==
    ASSUME NodeTypes, NEW a \in Agents, NEW d \in Domains, NEW p \in Payload,
           NEW k, Program(a, d, p, k),
           bound \in [Agents -> SUBSET Networks]
    PROVE  NodeTypes' /\ OnlyFor(a, d)
  <1> DEFINE
        live_here == p.nets \cap ports[a]
        kept == IF k = "ovsdb" THEN gw[a][p.fid] ELSE gw[a][p.fid] \cap live_here
        bound_here == p.nets \cap bound[a]
  <1>1. /\ Fault(k)
        /\ dormant' = [dormant EXCEPT ![a] = @ \ {d}]
        /\ vrf' = [vrf EXCEPT ![a] = @ \cup {p.fid}]
    BY Zenon DEF Program
  <1>2. p.fid \in Fids /\ p.nets \subseteq Networks
    BY DEF Payload
  <1>3. /\ dormant' \in [Agents -> SUBSET Domains]
        /\ vrf' \in [Agents -> SUBSET Fids]
        /\ faults' \in 0..MaxFaults
    BY <1>1, <1>2, FaultTyped DEF NodeTypes
  <1>4. CASE UNCHANGED <<dp, sealed, gw, known>>
    <2>1. NodeTypes'
      BY <1>3, <1>4 DEF NodeTypes
    <2> QED  BY <1>1, <1>4, <2>1 DEF OnlyFor, NodeTypes
  <1>5. ASSUME NEW made \in SUBSET bound_here,
               dp' = [dp EXCEPT ![a][d] = p.fid],
               sealed' = [sealed EXCEPT ![a] = @ \cup {p.fid}],
               gw' = [gw EXCEPT ![a][p.fid] = kept \cup made],
               known' = IF k = "late" THEN known ELSE [known EXCEPT ![a][d] = p]
        PROVE  NodeTypes' /\ OnlyFor(a, d)
    <2>1. kept \cup made \in SUBSET Networks
      BY <1>2 DEF NodeTypes
    <2>2. gw' \in [Agents -> [Fids -> SUBSET Networks]]
      <3> HIDE DEF kept
      <3> QED  BY <1>2, <1>5, <2>1 DEF NodeTypes
    <2>3. NodeTypes'
      BY <1>2, <1>3, <1>5, <2>2 DEF NodeTypes, Payloads
    <2> QED  BY <1>1, <1>5, <2>3 DEF OnlyFor, NodeTypes, Payloads
  <1> QED  BY <1>4, <1>5, Zenon DEF Program

\* So a payload, whatever it leads to, is applied to its own domain.
LEMMA ApplyLocal ==
    ASSUME NodeTypes, NEW a \in Agents, NEW d \in Domains, NEW p \in Payload,
           NEW s, ApplyDomain(a, d, p, s),
           bound \in [Agents -> SUBSET Networks]
    PROVE  NodeTypes' /\ OnlyFor(a, d)
  <1>1. \/ Retire(a, d, p) \/ MakeDormant(a, d, p)
        \/ \E k \in {"ok", "seal", "gateway", "late", "ovsdb"} : Program(a, d, p, k)
    BY Zenon DEF ApplyDomain
  <1> QED  BY <1>1, RetireLocal, MakeDormantLocal, ProgramLocal

-----------------------------------------------------------------------------
(* Messages                                                                *)

\* What the fields of a cast are.
LEMMA MessageFields ==
    ASSUME NEW m \in Message
    PROVE  /\ m.id \in Domains
           /\ m.type = "updated" => m.payload \in Payload
           /\ m.type = "deleted" => m.fid \in Fids
  BY DEF Message

\* A cast that names a domain with an id is a message, and says no more than
\* that the domain was updated.
LEMMA UpdatedIsMessage ==
    ASSUME NEW d \in Domains, NEW p \in Payload
    PROVE  Updated(d, p) \in Message /\ Updated(d, p).type = "updated"
  BY DEF Updated, Message

\* The payload the server builds for a domain that exists is complete.
LEMMA LivePayload ==
    ASSUME TypeOK, LiveHasId, NEW d \in live
    PROVE  PayloadOf(d) \in Payload
  BY DEF TypeOK, LiveHasId, PayloadOf, NetsOf, Payload

\* So is the reply to sync_state.
LEMMA ListingTyped ==
    ASSUME TypeOK, LiveHasId
    PROVE  Listing \in Payloads
  <1>1. \A d \in live : PayloadOf(d) \in Payload
    BY LivePayload
  <1> QED  BY <1>1 DEF Listing, Payloads

\* Casting updates, or the deletion of domains that are dead by then, keeps
\* the bus well formed.
LEMMA CastKeeps ==
    ASSUME msgs \in [Agents -> SUBSET Message], NEW ms, Cast(ms),
           ms \subseteq Message
    PROVE  msgs' \in [Agents -> SUBSET Message]
  BY DEF Cast

\* A message taken off the bus leaves the others.
LEMMA ReceiveKeeps ==
    ASSUME msgs \in [Agents -> SUBSET Message], NEW a \in Agents, NEW m,
           Receive(a, m)
    PROVE  /\ msgs' \in [Agents -> SUBSET Message]
           /\ \A b \in Agents : msgs'[b] \subseteq msgs[b]
  BY DEF Receive

-----------------------------------------------------------------------------
(* The server                                                              *)

\* A request, or the push after it, keeps the invariant: a dead domain is
\* never created again, and what is cast about it says so.
LEMMA ServerKeepsInv ==
    ASSUME Inv, ServerNext
    PROVE  Inv'
  <1> USE DEF Inv
  <1>1. ASSUME UNCHANGED agents
        PROVE  (IdleIsClean /\ TombstonedStaysGone /\ SyncPostdatesDelete)'
    BY <1>1 DEF agents, memory, ovs, kernel, IdleIsClean, Idle,
                TombstonedStaysGone, SyncPostdatesDelete
  <1>2. ASSUME NEW d \in Domains, Create(d) PROVE Inv'
    <2>1. PICK f \in Fids : fidOf' = [fidOf EXCEPT ![d] = f]
      BY <1>2 DEF Create
    <2>2. /\ live' = live \cup {d} /\ fidOf[d] = NoFid /\ Op
          /\ UNCHANGED <<netOf, attached, jobs, msgs, agents, faults>>
      BY <1>2 DEF Create
    <2>3. f # NoFid
      BY DomainSyncAssumption
    <2>4. TypeOK'
      BY <2>1, <2>2, OpTyped DEF TypeOK, agents, memory, ovs, kernel
    <2>5. LiveHasId'
      BY <2>1, <2>2, <2>3 DEF TypeOK, LiveHasId
    <2>6. \A e \in Domains : Dead(e) => Dead(e)'
      BY <2>1, <2>2 DEF TypeOK, Dead
    <2>7. DeletedIsDead'
      BY <2>2, <2>6, MessageFields DEF DeletedIsDead, TypeOK, agents, memory
    <2> QED  BY <1>1, <2>2, <2>4, <2>5, <2>7
  <1>3. ASSUME NEW d \in Domains, Update(d) PROVE Inv'
    <2>1. /\ d \in live /\ Op /\ Cast({Updated(d, PayloadOf(d))})
          /\ UNCHANGED <<server, agents, faults>>
      BY <1>3 DEF Update
    <2>2. Updated(d, PayloadOf(d)) \in Message /\ Updated(d, PayloadOf(d)).type = "updated"
      BY <2>1, LivePayload, UpdatedIsMessage
    <2>3. TypeOK'
      BY <2>1, <2>2, OpTyped, CastKeeps DEF TypeOK, server, agents, memory, ovs, kernel
    <2>4. LiveHasId'
      BY <2>1 DEF LiveHasId, server
    <2>5. DeletedIsDead'
      BY <2>1, <2>2 DEF DeletedIsDead, Dead, Cast, server, agents, memory
    <2> QED  BY <1>1, <2>1, <2>3, <2>4, <2>5
  <1>4. ASSUME NEW d \in Domains, Delete(d) PROVE Inv'
    <2>1. /\ d \in live /\ Op /\ Cast({Deleted(d)}) /\ live' = live \ {d}
          /\ netOf' = [n \in Networks |-> IF netOf[n] = d THEN NoDomain ELSE netOf[n]]
          /\ UNCHANGED <<fidOf, attached, jobs, agents, faults>>
      BY <1>4 DEF Delete
    <2>2. Deleted(d) \in Message /\ Deleted(d).id = d
      BY <2>1 DEF Deleted, Message, TypeOK, LiveHasId
    <2>3. TypeOK'
      BY <2>1, <2>2, OpTyped, CastKeeps DEF TypeOK, agents, memory, ovs, kernel
    <2>4. LiveHasId'
      BY <2>1 DEF LiveHasId
    <2>5. \A e \in Domains : Dead(e) \/ e = d => Dead(e)'
      BY <2>1 DEF Dead, LiveHasId
    <2>6. DeletedIsDead'
      BY <2>1, <2>2, <2>5, MessageFields DEF DeletedIsDead, TypeOK, Cast, agents, memory
    <2> QED  BY <1>1, <2>1, <2>3, <2>4, <2>6
  <1>5. ASSUME NEW d \in Domains, Push(d) PROVE Inv'
    <2> DEFINE ms == IF d \in live THEN {Updated(d, PayloadOf(d))} ELSE {}
    <2>1. /\ jobs[d] > 0 /\ jobs' = [jobs EXCEPT ![d] = @ - 1] /\ Cast(ms)
          /\ UNCHANGED <<live, fidOf, netOf, attached, agents, ops, faults>>
      BY <1>5 DEF Push
    <2>2. \A m \in ms : m \in Message /\ m.type = "updated"
      BY LivePayload, UpdatedIsMessage
    <2> HIDE DEF ms
    <2>3. TypeOK'
      BY <2>1, <2>2, CastKeeps DEF TypeOK, agents, memory, ovs, kernel
    <2>4. LiveHasId'
      BY <2>1 DEF LiveHasId
    <2>5. DeletedIsDead'
      BY <2>1, <2>2 DEF DeletedIsDead, Dead, Cast, agents, memory
    <2> QED  BY <1>1, <2>1, <2>3, <2>4, <2>5
  <1>6. ASSUME NEW d \in Domains, NEW n \in Networks, Attach(d, n) PROVE Inv'
    <2>1. TypeOK'
      BY <1>6, OpTyped DEF Attach, TypeOK, agents, memory, ovs, kernel
    <2>2. LiveHasId' /\ DeletedIsDead'
      BY <1>6 DEF Attach, LiveHasId, DeletedIsDead, Dead, agents, memory
    <2> QED  BY <1>1, <1>6, <2>1, <2>2 DEF Attach
  <1>7. ASSUME NEW n \in Networks, Detach(n) PROVE Inv'
    <2>1. TypeOK'
      BY <1>7, OpTyped DEF Detach, TypeOK, agents, memory, ovs, kernel
    <2>2. LiveHasId' /\ DeletedIsDead'
      BY <1>7 DEF Detach, LiveHasId, DeletedIsDead, Dead, agents, memory
    <2> QED  BY <1>1, <1>7, <2>1, <2>2 DEF Detach
  <1>8. ASSUME NEW n \in Networks, DropNetwork(n) PROVE Inv'
    <2>1. TypeOK'
      BY <1>8, OpTyped DEF DropNetwork, TypeOK, agents, memory, ovs, kernel
    <2>2. LiveHasId' /\ DeletedIsDead'
      BY <1>8 DEF DropNetwork, LiveHasId, DeletedIsDead, Dead, agents, memory
    <2> QED  BY <1>1, <1>8, <2>1, <2>2 DEF DropNetwork
  <1> QED  BY <1>2, <1>3, <1>4, <1>5, <1>6, <1>7, <1>8 DEF ServerNext

-----------------------------------------------------------------------------
(* The agents                                                              *)

\* Of the invariant, what a step of an agent that leaves the server alone and
\* casts no deletion has to keep.
LEMMA AgentKeepsDead ==
    ASSUME Inv, UNCHANGED server,
           \A a \in Agents : tomb'[a] \subseteq tomb[a],
           \A a \in Agents : \A m \in msgs'[a] :
               m \in msgs[a] \/ m.type = "updated"
    PROVE  LiveHasId' /\ DeletedIsDead'
  BY DEF Inv, LiveHasId, DeletedIsDead, Dead, server

\* The payload of a domain this process has not seen deleted may be applied.
LEMMA ApplyKeepsTomb ==
    ASSUME Inv, NEW a \in Agents, NEW d \in Domains, d \notin tomb[a],
           OnlyFor(a, d), UNCHANGED tomb
    PROVE  TombstonedStaysGone'
  <1> SUFFICES ASSUME NEW b \in Agents, NEW e \in tomb'[b]
               PROVE  known'[b][e] = NoPayload /\ dp'[b][e] = NoFid /\ e \notin dormant'[b]
    BY DEF TombstonedStaysGone
  <1>1. e \in Domains /\ e \in tomb[b] /\ (b # a \/ e # d)
    BY DEF Inv, TypeOK
  <1> QED  BY <1>1 DEF Inv, TombstonedStaysGone, OnlyFor

\* domain_updated: ignored for a tombstoned domain, else only its own domain.
LEMMA DomainUpdatedKeepsInv ==
    ASSUME Inv, NEW a \in Agents, DomainUpdated(a)
    PROVE  Inv'
  <1> USE DEF Inv
  <1>1. PICK m \in msgs[a] :
           /\ m.type = "updated" /\ Receive(a, m)
           /\ \/ m.id \in tomb[a] /\ UNCHANGED <<known, dormant, dp, kernel, faults>>
              \/ m.id \notin tomb[a] /\ ApplyDomain(a, m.id, m.payload, FALSE)
    BY DEF DomainUpdated
  <1>2. UNCHANGED <<server, registered, tomb, ovs, sync, ops>>
    BY DEF DomainUpdated
  <1>3. m \in Message
    BY DEF TypeOK
  <1>4. msgs' \in [Agents -> SUBSET Message] /\ \A b \in Agents : msgs'[b] \subseteq msgs[b]
    BY <1>1, ReceiveKeeps DEF TypeOK
  <1>5. LiveHasId' /\ DeletedIsDead'
    BY <1>2, <1>4, AgentKeepsDead
  <1>6. IdleIsClean' /\ SyncPostdatesDelete'
    BY <1>2 DEF IdleIsClean, Idle, SyncPostdatesDelete
  <1>7. CASE UNCHANGED <<known, dormant, dp, kernel, faults>>
    BY <1>2, <1>4, <1>5, <1>6, <1>7
    DEF TypeOK, TombstonedStaysGone, server, ovs, kernel
  <1>8. CASE m.id \notin tomb[a] /\ ApplyDomain(a, m.id, m.payload, FALSE)
    <2>1. NodeTypes' /\ OnlyFor(a, m.id)
      BY <1>1, <1>3, <1>8, MessageFields, ApplyLocal DEF TypeOK, NodeTypes
    <2>2. TypeOK'
      BY <1>2, <1>4, <2>1 DEF TypeOK, NodeTypes, server, ovs
    <2>3. TombstonedStaysGone'
      BY <1>2, <1>3, <1>8, <2>1, MessageFields, ApplyKeepsTomb
    <2> QED  BY <1>5, <1>6, <2>2, <2>3
  <1> QED  BY <1>1, <1>7, <1>8

\* domain_deleted: the one place a tombstone is set, with the lock held and so
\* with no sync in progress.
LEMMA DomainDeletedKeepsInv ==
    ASSUME Inv, NEW a \in Agents, DomainDeleted(a)
    PROVE  Inv'
  <1> USE DEF Inv
  <1>1. PICK m \in msgs[a], k \in DeleteKinds :
           /\ m.type = "deleted" /\ Receive(a, m)
           /\ Fault(k)
           /\ Tombstone(a, m.id)
           /\ dormant' = [dormant EXCEPT ![a] = @ \ {m.id}]
           /\ DeleteDomain(a, m.id, m.fid, k)
           /\ known' = [known EXCEPT ![a][m.id] = NoPayload]
    BY DEF DomainDeleted
  <1>2. PICK recent \in SUBSET tomb[a] : tomb' = [tomb EXCEPT ![a] = recent \cup {m.id}]
    BY <1>1 DEF Tombstone
  <1>3. Idle(a) /\ UNCHANGED <<server, registered, ovs, sync, ops>>
    BY DEF DomainDeleted
  <1>4. m \in Message /\ m.id \in Domains /\ m.fid \in Fids
    BY <1>1, MessageFields DEF TypeOK
  <1>5. msgs' \in [Agents -> SUBSET Message] /\ \A b \in Agents : msgs'[b] \subseteq msgs[b]
    BY <1>1, ReceiveKeeps DEF TypeOK
  <1>6. /\ vrf' \in [Agents -> SUBSET Fids]
        /\ sealed' \in [Agents -> SUBSET Fids]
        /\ gw' \in [Agents -> [Fids -> SUBSET Networks]]
        /\ dp' = [dp EXCEPT ![a][m.id] = NoFid]
        /\ dp' \in [Agents -> [Domains -> Fids \cup {NoFid}]]
    BY <1>1, <1>4, DeleteDomainLocal DEF TypeOK, NodeTypes
  <1>7. faults' \in 0..MaxFaults
    BY <1>1, FaultTyped DEF TypeOK
  <1>8. /\ tomb' \in [Agents -> SUBSET Domains]
        /\ dormant' \in [Agents -> SUBSET Domains]
        /\ known' \in [Agents -> Payloads]
    BY <1>1, <1>2, <1>4 DEF TypeOK, Payloads
  <1>9. TypeOK'
    BY <1>3, <1>5, <1>6, <1>7, <1>8 DEF TypeOK, server, ovs
  <1>10. LiveHasId' /\ DeletedIsDead'
    <2>1. \A d \in Domains : Dead(d) => Dead(d)'
      BY <1>3 DEF Dead, server
    <2> QED  BY <1>1, <1>2, <1>3, <1>4, <1>5, <2>1, MessageFields
             DEF LiveHasId, DeletedIsDead, TypeOK, server
  <1>11. IdleIsClean' /\ SyncPostdatesDelete'
    BY <1>1, <1>2, <1>3, <1>4
    DEF IdleIsClean, Idle, SyncPostdatesDelete, NoSync, Nothing, TypeOK
  <1>12. TombstonedStaysGone'
    BY <1>1, <1>2, <1>4, <1>6, <1>8 DEF TombstonedStaysGone, TypeOK, Payloads
  <1> QED  BY <1>9, <1>10, <1>11, <1>12

\* A lost message.
LEMMA LoseKeepsInv ==
    ASSUME Inv, NEW a \in Agents, Lose(a)
    PROVE  Inv'
  <1> USE DEF Inv
  <1>1. PICK m \in msgs[a] : Receive(a, m)
    BY DEF Lose
  <1>2. Fault("lose") /\ UNCHANGED <<server, registered, memory, ovs, sync, kernel, ops>>
    BY DEF Lose
  <1>3. msgs' \in [Agents -> SUBSET Message] /\ \A b \in Agents : msgs'[b] \subseteq msgs[b]
    BY <1>1, ReceiveKeeps DEF TypeOK
  <1>4. TypeOK'
    BY <1>2, <1>3, FaultTyped DEF TypeOK, server, memory, ovs, kernel
  <1>5. LiveHasId' /\ DeletedIsDead'
    BY <1>2, <1>3, AgentKeepsDead DEF memory
  <1> QED  BY <1>2, <1>4, <1>5
           DEF IdleIsClean, Idle, SyncPostdatesDelete, TombstonedStaysGone, memory

-----------------------------------------------------------------------------
(* A sync                                                                  *)

\* Registering and listing: a domain seen deleted is dead, so it is not in
\* the listing.
LEMMA StartSyncKeeps ==
    ASSUME Inv, NEW a \in Agents, StartSync(a), UNCHANGED tomb
    PROVE  /\ sync' \in [Agents -> Sync] /\ registered' \subseteq Agents
           /\ IdleIsClean' /\ SyncPostdatesDelete'
  <1> USE DEF Inv
  <1>1. Listing \in Payloads /\ Nothing \in Payloads
    BY ListingTyped DEF Nothing, Payloads
  <1>2. \A d \in tomb[a] : Listing[d] = NoPayload /\ Nothing[d] = NoPayload
    BY DEF Listing, Nothing, DeletedIsDead, Dead, TypeOK
  <1>3. PICK new \in BOOLEAN : sync' = [sync EXCEPT ![a] =
            [phase |-> "call", new |-> new, snap |-> Listing, reply |-> Nothing]]
    BY DEF StartSync
  <1>4. sync' \in [Agents -> Sync] /\ registered' \subseteq Agents
    BY <1>1, <1>3 DEF StartSync, Sync, Phase, TypeOK
  <1>5. IdleIsClean'
    BY <1>3 DEF IdleIsClean, Idle, TypeOK
  <1>6. SyncPostdatesDelete'
    BY <1>2, <1>3 DEF SyncPostdatesDelete, TypeOK
  <1> QED  BY <1>4, <1>5, <1>6

\* The call of a sync.
LEMMA SyncCallKeepsInv ==
    ASSUME Inv, NEW a \in Agents, SyncCall(a)
    PROVE  Inv'
  <1> USE DEF Inv
  <1>1. StartSync(a) /\ UNCHANGED <<server, msgs, memory, ovs, kernel, ops, faults>>
    BY DEF SyncCall
  <1>2. /\ sync' \in [Agents -> Sync] /\ registered' \subseteq Agents
        /\ IdleIsClean' /\ SyncPostdatesDelete'
    BY <1>1, StartSyncKeeps DEF memory
  <1>3. TypeOK'
    BY <1>1, <1>2 DEF TypeOK, server, memory, ovs, kernel
  <1>4. LiveHasId' /\ DeletedIsDead'
    BY <1>1, AgentKeepsDead DEF memory
  <1> QED  BY <1>1, <1>2, <1>3, <1>4 DEF TombstonedStaysGone, memory

\* The re-broadcast of a first sync casts updates only.
LEMMA RebroadcastKeeps ==
    ASSUME msgs \in [Agents -> SUBSET Message],
           NEW snap \in Payloads, NEW S \in Built(snap), NEW new,
           Rebroadcast(new, snap, S)
    PROVE  /\ msgs' \in [Agents -> SUBSET Message]
           /\ \A a \in Agents : \A m \in msgs'[a] : m \in msgs[a] \/ m.type = "updated"
  <1> DEFINE ms == IF new THEN {Updated(d, snap[d]) : d \in S} ELSE {}
  <1>1. \A d \in S : d \in Domains /\ snap[d] \in Payload
    BY DEF Built, Payloads
  <1>2. \A m \in ms : m \in Message /\ m.type = "updated"
    BY <1>1, UpdatedIsMessage
  <1>3. Cast(ms)
    BY DEF Rebroadcast
  <1> HIDE DEF ms
  <1> QED  BY <1>2, <1>3, CastKeeps DEF Cast

\* A sync that goes on, with no domain seen deleted in it.
LEMMA SyncGoesOn ==
    ASSUME Inv, NEW a \in Agents, UNCHANGED tomb,
           sync'[a].phase # "idle",
           \A b \in Agents : b # a => sync'[b] = sync[b],
           \A d \in tomb[a] : sync'[a].snap[d] = NoPayload /\ sync'[a].reply[d] = NoPayload
    PROVE  IdleIsClean' /\ SyncPostdatesDelete'
  <1>1. IdleIsClean'
    <2> SUFFICES ASSUME NEW b \in Agents, sync'[b].phase = "idle"
                 PROVE  sync'[b] = NoSync
      BY DEF IdleIsClean, Idle
    <2> QED  BY DEF Inv, IdleIsClean, Idle
  <1>2. SyncPostdatesDelete'
    <2> SUFFICES ASSUME NEW b \in Agents, NEW d \in tomb[b]
                 PROVE  sync'[b].snap[d] = NoPayload /\ sync'[b].reply[d] = NoPayload
      BY DEF SyncPostdatesDelete
    <2> QED  BY DEF Inv, SyncPostdatesDelete
  <1> QED  BY <1>1, <1>2

\* Its answer.
LEMMA SyncReplyKeepsInv ==
    ASSUME Inv, NEW a \in Agents, SyncReply(a)
    PROVE  Inv'
  <1> USE DEF Inv
  <1> DEFINE snap == sync[a].snap
             wanted(S) == [d \in Domains |-> IF d \in S \ tomb[a] THEN snap[d]
                                             ELSE NoPayload]
  <1>1. PICK S \in Built(snap) :
           /\ sync' = [sync EXCEPT ![a] = [@ EXCEPT !.phase = "stale", !.reply = wanted(S)]]
           /\ Rebroadcast(sync[a].new, snap, S)
    BY DEF SyncReply
  <1>2. UNCHANGED <<server, registered, memory, ovs, kernel, ops, faults>>
    BY DEF SyncReply
  <1>3. sync[a] \in Sync /\ snap \in Payloads
    BY DEF TypeOK, Sync
  <1>4. /\ msgs' \in [Agents -> SUBSET Message]
        /\ \A b \in Agents : \A m \in msgs'[b] : m \in msgs[b] \/ m.type = "updated"
    BY <1>1, <1>3, RebroadcastKeeps DEF TypeOK
  <1>5. wanted(S) \in Payloads /\ \A d \in tomb[a] : wanted(S)[d] = NoPayload
    BY <1>3 DEF Payloads, TypeOK
  <1> HIDE DEF wanted
  <1>6. /\ sync' \in [Agents -> Sync]
        /\ sync'[a].phase = "stale" /\ sync'[a].snap = snap /\ sync'[a].reply = wanted(S)
        /\ \A b \in Agents : b # a => sync'[b] = sync[b]
    <2> DEFINE r == [sync[a] EXCEPT !.phase = "stale", !.reply = wanted(S)]
    <2>1. r \in Sync /\ r.phase = "stale" /\ r.snap = snap /\ r.reply = wanted(S)
      BY <1>3, <1>5 DEF Sync, Phase
    <2>2. sync' = [sync EXCEPT ![a] = r]
      BY <1>1
    <2> HIDE DEF r
    <2> QED  BY <2>1, <2>2 DEF TypeOK
  <1>7. TypeOK'
    BY <1>2, <1>3, <1>4, <1>5, <1>6
    DEF TypeOK, Sync, Phase, server, memory, ovs, kernel
  <1>8. LiveHasId' /\ DeletedIsDead'
    BY <1>2, <1>4, AgentKeepsDead DEF memory
  <1>9. IdleIsClean' /\ SyncPostdatesDelete'
    <2>1. \A d \in tomb[a] : sync'[a].snap[d] = NoPayload /\ sync'[a].reply[d] = NoPayload
      BY <1>5, <1>6 DEF SyncPostdatesDelete
    <2>2. sync'[a].phase # "idle" /\ tomb' = tomb
      BY <1>2, <1>6 DEF memory
    <2> QED  BY <1>6, <2>1, <2>2, SyncGoesOn
  <1> QED  BY <1>2, <1>7, <1>8, <1>9 DEF TombstonedStaysGone, memory

\* Its failure: the sync is over and nothing else has changed.
LEMMA SyncFailKeepsInv ==
    ASSUME Inv, NEW a \in Agents, SyncFail(a)
    PROVE  Inv'
  <1> USE DEF Inv
  <1>1. /\ Fault("rpc") /\ sync' = [sync EXCEPT ![a] = NoSync]
        /\ UNCHANGED <<server, registered, memory, ovs, kernel, ops>>
    BY DEF SyncFail
  <1>2. sync[a].snap \in Payloads
    BY DEF TypeOK, Sync
  <1>3. /\ msgs' \in [Agents -> SUBSET Message]
        /\ \A b \in Agents : \A m \in msgs'[b] : m \in msgs[b] \/ m.type = "updated"
    <2>1. CASE UNCHANGED msgs
      BY <2>1 DEF TypeOK
    <2>2. CASE \E S \in Built(sync[a].snap) : Rebroadcast(sync[a].new, sync[a].snap, S)
      BY <2>2, <1>2, RebroadcastKeeps DEF TypeOK
    <2> QED  BY <2>1, <2>2 DEF SyncFail
  <1>4. NoSync \in Sync /\ \A d \in Domains : NoSync.snap[d] = NoPayload
                                             /\ NoSync.reply[d] = NoPayload
    BY DEF NoSync, Nothing, Sync, Phase, Payloads
  <1>5. TypeOK'
    BY <1>1, <1>3, <1>4, FaultTyped DEF TypeOK, server, memory, ovs, kernel
  <1>6. LiveHasId' /\ DeletedIsDead'
    BY <1>1, <1>3, AgentKeepsDead DEF memory
  <1>7. IdleIsClean' /\ SyncPostdatesDelete'
    BY <1>1, <1>4 DEF IdleIsClean, Idle, SyncPostdatesDelete, TypeOK, memory
  <1> QED  BY <1>1, <1>5, <1>6, <1>7 DEF TombstonedStaysGone, memory

\* A domain the server no longer lists.
LEMMA SyncRemoveStaleKeepsInv ==
    ASSUME Inv, NEW a \in Agents, SyncRemoveStale(a)
    PROVE  Inv'
  <1> USE DEF Inv
  <1>1. PICK d \in Stale(a), k \in DeleteKinds :
           /\ Fault(k)
           /\ DeleteDomain(a, d, NoFid, k)
           /\ known' = [known EXCEPT ![a][d] = NoPayload]
           /\ dormant' = [dormant EXCEPT ![a] = @ \ {d}]
    BY DEF SyncRemoveStale
  <1>2. UNCHANGED <<server, registered, msgs, tomb, ovs, sync, ops>>
    BY DEF SyncRemoveStale
  <1>3. d \in Domains
    BY DEF Stale
  <1>4. /\ vrf' \in [Agents -> SUBSET Fids]
        /\ sealed' \in [Agents -> SUBSET Fids]
        /\ gw' \in [Agents -> [Fids -> SUBSET Networks]]
        /\ dp' = [dp EXCEPT ![a][d] = NoFid]
        /\ dp' \in [Agents -> [Domains -> Fids \cup {NoFid}]]
    BY <1>1, <1>3, DeleteDomainLocal DEF TypeOK, NodeTypes
  <1>5. faults' \in 0..MaxFaults
    BY <1>1, FaultTyped DEF TypeOK
  <1>6. /\ dormant' \in [Agents -> SUBSET Domains]
        /\ known' \in [Agents -> Payloads]
    BY <1>1, <1>3 DEF TypeOK, Payloads
  <1>7. TypeOK'
    BY <1>2, <1>4, <1>5, <1>6 DEF TypeOK, server, ovs
  <1>8. LiveHasId' /\ DeletedIsDead'
    BY <1>2, AgentKeepsDead
  <1>9. IdleIsClean' /\ SyncPostdatesDelete'
    BY <1>2 DEF IdleIsClean, Idle, SyncPostdatesDelete
  <1>10. TombstonedStaysGone'
    BY <1>1, <1>2, <1>3, <1>4, <1>6 DEF TombstonedStaysGone, TypeOK, Payloads
  <1> QED  BY <1>7, <1>8, <1>9, <1>10

\* The kernel garbage collector changes no memory.
LEMMA SyncCollectKeepsInv ==
    ASSUME Inv, NEW a \in Agents, SyncCollect(a)
    PROVE  Inv'
  <1> USE DEF Inv
  <1>1. /\ sync' = [sync EXCEPT ![a].phase = "apply"]
        /\ UNCHANGED <<server, registered, msgs, memory, ovs, ops>>
    BY DEF SyncCollect
  <1>2. /\ sync' \in [Agents -> Sync]
        /\ sync'[a].phase = "apply"
        /\ sync'[a].snap = sync[a].snap /\ sync'[a].reply = sync[a].reply
        /\ \A b \in Agents : b # a => sync'[b] = sync[b]
    <2> DEFINE r == [sync[a] EXCEPT !.phase = "apply"]
    <2>1. /\ r \in Sync /\ r.phase = "apply"
          /\ r.snap = sync[a].snap /\ r.reply = sync[a].reply
      <3>1. sync[a] \in Sync
        BY DEF TypeOK
      <3> QED  BY <3>1 DEF Sync, Phase
    <2>2. sync' = [sync EXCEPT ![a] = r]
      BY <1>1
    <2> HIDE DEF r
    <2> QED  BY <2>1, <2>2 DEF TypeOK
  <1>3. /\ vrf' \in [Agents -> SUBSET Fids]
        /\ sealed' \in [Agents -> SUBSET Fids]
        /\ gw' \in [Agents -> [Fids -> SUBSET Networks]]
        /\ faults' \in 0..MaxFaults
    <2> DEFINE wanted == {sync[a].reply[d].fid :
                             d \in {e \in Domains : sync[a].reply[e] # NoPayload}}
               orphans == vrf[a] \ wanted
    <2>1. \/ Fault("ok") /\ Erase(a, orphans, "ok")
          \/ Fault("list") /\ UNCHANGED kernel
          \/ \E f \in orphans, k \in DeleteKinds \ {"ok"} :
                Fault(k) /\ EraseFailing(a, orphans, f, k)
      BY Zenon DEF SyncCollect
    <2> HIDE DEF orphans
    <2>2. CASE Fault("ok") /\ Erase(a, orphans, "ok")
      BY <2>2, FaultTyped DEF Erase, TypeOK
    <2>3. CASE Fault("list") /\ UNCHANGED kernel
      BY <2>3, FaultTyped DEF kernel, TypeOK
    <2>4. ASSUME NEW f \in orphans, NEW k \in DeleteKinds \ {"ok"},
                 Fault(k), EraseFailing(a, orphans, f, k)
          PROVE  /\ vrf' \in [Agents -> SUBSET Fids]
                 /\ sealed' \in [Agents -> SUBSET Fids]
                 /\ gw' \in [Agents -> [Fids -> SUBSET Networks]]
                 /\ faults' \in 0..MaxFaults
      BY <2>4, FaultTyped DEF EraseFailing, TypeOK
    <2> QED  BY <2>1, <2>2, <2>3, <2>4
  <1>4. TypeOK'
    BY <1>1, <1>2, <1>3 DEF TypeOK, server, memory, ovs
  <1>5. LiveHasId' /\ DeletedIsDead'
    BY <1>1, AgentKeepsDead DEF memory
  <1>6. IdleIsClean' /\ SyncPostdatesDelete'
    BY <1>1, <1>2, SyncGoesOn DEF SyncPostdatesDelete, memory
  <1> QED  BY <1>1, <1>4, <1>5, <1>6 DEF TombstonedStaysGone, memory

\* One domain of the reply: it is not tombstoned, by SyncPostdatesDelete.
LEMMA SyncApplyKeepsInv ==
    ASSUME Inv, NEW a \in Agents, SyncApply(a)
    PROVE  Inv'
  <1> USE DEF Inv
  <1>1. PICK d \in Domains :
           /\ sync[a].reply[d] # NoPayload
           /\ ApplyDomain(a, d, sync[a].reply[d], TRUE)
           /\ sync' = [sync EXCEPT ![a].reply[d] = NoPayload]
    BY DEF SyncApply
  <1>2. /\ sync[a].phase = "apply"
        /\ UNCHANGED <<server, registered, msgs, tomb, ovs, ops>>
    BY DEF SyncApply
  <1>3. /\ sync[a] \in Sync /\ sync[a].reply \in Payloads
        /\ sync[a].reply[d] \in Payload
    BY <1>1 DEF TypeOK, Sync, Payloads
  <1>4. d \notin tomb[a]
    BY <1>1 DEF SyncPostdatesDelete
  <1>5. NodeTypes' /\ OnlyFor(a, d)
    BY <1>1, <1>3, ApplyLocal DEF TypeOK, NodeTypes
  <1>6. /\ sync' \in [Agents -> Sync]
        /\ sync'[a].phase = "apply" /\ sync'[a].snap = sync[a].snap
        /\ sync'[a].reply = [sync[a].reply EXCEPT ![d] = NoPayload]
        /\ \A b \in Agents : b # a => sync'[b] = sync[b]
    <2> DEFINE r == [sync[a] EXCEPT !.reply[d] = NoPayload]
    <2>1. /\ r.phase = "apply" /\ r.snap = sync[a].snap
          /\ r.reply = [sync[a].reply EXCEPT ![d] = NoPayload]
      BY <1>2, <1>3 DEF Sync
    <2>2. r \in Sync
      BY <1>3 DEF Sync, Payloads
    <2>3. sync' = [sync EXCEPT ![a] = r]
      BY <1>1
    <2> HIDE DEF r
    <2> QED  BY <2>1, <2>2, <2>3 DEF TypeOK
  <1>7. TypeOK'
    BY <1>2, <1>5, <1>6 DEF TypeOK, NodeTypes, server, ovs
  <1>8. LiveHasId' /\ DeletedIsDead'
    BY <1>2, AgentKeepsDead
  <1>9. IdleIsClean' /\ SyncPostdatesDelete'
    <2>1. \A e \in tomb[a] : sync'[a].snap[e] = NoPayload /\ sync'[a].reply[e] = NoPayload
      BY <1>3, <1>4, <1>6 DEF SyncPostdatesDelete, TypeOK, Payloads
    <2> QED  BY <1>2, <1>6, <2>1, SyncGoesOn
  <1>10. TombstonedStaysGone'
    BY <1>2, <1>4, <1>5, ApplyKeepsTomb
  <1> QED  BY <1>7, <1>8, <1>9, <1>10

\* The end of a sync.
LEMMA SyncDoneKeepsInv ==
    ASSUME Inv, NEW a \in Agents, SyncDone(a)
    PROVE  Inv'
  <1> USE DEF Inv
  <1>1. /\ sync' = [sync EXCEPT ![a] = NoSync]
        /\ UNCHANGED <<server, registered, msgs, memory, ovs, kernel, ops, faults>>
    BY DEF SyncDone
  <1>2. NoSync \in Sync /\ \A d \in Domains : NoSync.snap[d] = NoPayload
                                             /\ NoSync.reply[d] = NoPayload
    BY DEF NoSync, Nothing, Sync, Phase, Payloads
  <1>3. TypeOK'
    BY <1>1, <1>2 DEF TypeOK, server, memory, ovs, kernel
  <1>4. LiveHasId' /\ DeletedIsDead'
    BY <1>1, AgentKeepsDead DEF memory
  <1>5. IdleIsClean' /\ SyncPostdatesDelete'
    BY <1>1, <1>2 DEF IdleIsClean, Idle, SyncPostdatesDelete, TypeOK, memory
  <1> QED  BY <1>1, <1>3, <1>4, <1>5 DEF TombstonedStaysGone, memory

-----------------------------------------------------------------------------
(* Ports and the process                                                   *)

\* A port event changes no domain's place in the agent's memory.
LEMMA PortKeepsInv ==
    ASSUME Inv, NEW a \in Agents, NEW n \in Networks,
           PortUp(a, n) \/ PortDown(a, n) \/ DeletePort(a, n)
    PROVE  Inv'
  <1> USE DEF Inv
  <1>1. UNCHANGED <<server, registered, msgs, memory, sync>>
    BY DEF PortUp, PortDown, DeletePort
  <1>2. CASE PortUp(a, n)
    <2>1. TypeOK'
      BY <1>2, OpTyped DEF PortUp, TypeOK, server, memory, kernel
    <2> QED  BY <1>1, <2>1 DEF LiveHasId, DeletedIsDead, Dead, IdleIsClean, Idle,
                SyncPostdatesDelete, TombstonedStaysGone, server, memory
  <1>3. CASE PortDown(a, n)
    <2>1. TypeOK'
      BY <1>3, OpTyped DEF PortDown, TypeOK, server, memory, kernel
    <2> QED  BY <1>1, <2>1 DEF LiveHasId, DeletedIsDead, Dead, IdleIsClean, Idle,
                SyncPostdatesDelete, TombstonedStaysGone, server, memory
  <1>4. CASE DeletePort(a, n)
    <2>1. Reconciled(a) \in [Fids -> SUBSET Networks]
      BY DEF Reconciled, TypeOK
    <2>2. PICK k \in {"ok", "ovsdb"} :
            /\ Fault(k)
            /\ gw' = IF k = "ovsdb" THEN gw ELSE [gw EXCEPT ![a] = Reconciled(a)]
      BY <1>4 DEF DeletePort
    <2>3. faults' \in 0..MaxFaults /\ gw' \in [Agents -> [Fids -> SUBSET Networks]]
      BY <2>1, <2>2, FaultTyped DEF TypeOK
    <2>4. TypeOK'
      BY <1>4, <2>3 DEF DeletePort, TypeOK, server, memory
    <2> QED  BY <1>1, <2>4 DEF LiveHasId, DeletedIsDead, Dead, IdleIsClean, Idle,
                SyncPostdatesDelete, TombstonedStaysGone, server, memory
  <1> QED  BY <1>2, <1>3, <1>4

\* A port event that may start a sync.
LEMMA HandlePortKeepsInv ==
    ASSUME Inv, NEW a \in Agents, NEW n \in Networks, HandlePort(a, n)
    PROVE  Inv'
  <1> USE DEF Inv
  <1>1. /\ due' = [due EXCEPT ![a] = @ \ {n}]
        /\ bound' = [bound EXCEPT ![a] = @ \cup {n}]
        /\ UNCHANGED <<server, msgs, memory, vrf, sealed, ports, ops>>
    BY DEF HandlePort
  <1>2. Reconciled(a) \in [Fids -> SUBSET Networks] /\ Gateways(a, n) \in [Fids -> SUBSET Networks]
    BY DEF Reconciled, Gateways, TypeOK
  <1>3. PICK k \in {"ok", "ovsdb", "gateway"} :
          LET swept == IF k = "ovsdb" THEN gw[a] ELSE Reconciled(a)
          IN  /\ Fault(k)
              /\ gw' = [gw EXCEPT ![a] = [f \in Fids |->
                     IF k = "gateway" THEN swept[f] ELSE swept[f] \cup Gateways(a, n)[f]]]
    BY DEF HandlePort
  <1>4. faults' \in 0..MaxFaults
    BY <1>3, FaultTyped DEF TypeOK
  <1>5. gw' \in [Agents -> [Fids -> SUBSET Networks]]
    BY <1>2, <1>3 DEF TypeOK
  <1>6. /\ sync' \in [Agents -> Sync] /\ registered' \subseteq Agents
        /\ IdleIsClean' /\ SyncPostdatesDelete'
    <2>1. CASE StartSync(a)
      BY <1>1, <2>1, StartSyncKeeps DEF memory
    <2>2. CASE UNCHANGED <<sync, registered>>
      BY <1>1, <2>2 DEF TypeOK, IdleIsClean, Idle, SyncPostdatesDelete, memory
    <2> QED  BY <2>1, <2>2 DEF HandlePort
  <1>7. TypeOK'
    BY <1>1, <1>4, <1>5, <1>6 DEF TypeOK, server, memory
  <1>8. LiveHasId' /\ DeletedIsDead'
    BY <1>1, AgentKeepsDead DEF memory
  <1> QED  BY <1>1, <1>6, <1>7, <1>8 DEF TombstonedStaysGone, memory

\* A restart forgets the tombstones with everything else.
LEMMA RestartKeepsInv ==
    ASSUME Inv, NEW a \in Agents, Restart(a)
    PROVE  Inv'
  <1> USE DEF Inv
  <1>1. /\ Fault("crash")
        /\ known' = [known EXCEPT ![a] = Nothing]
        /\ dormant' = [dormant EXCEPT ![a] = {}]
        /\ tomb' = [tomb EXCEPT ![a] = {}]
        /\ dp' = [dp EXCEPT ![a] = [d \in Domains |-> NoFid]]
        /\ bound' = [bound EXCEPT ![a] = {}]
        /\ due' = [due EXCEPT ![a] = ports[a]]
        /\ sync' = [sync EXCEPT ![a] = Boot]
        /\ UNCHANGED <<server, registered, kernel, ports, ops>>
    BY DEF Restart
  <1>2. PICK left \in SUBSET msgs[a] : msgs' = [msgs EXCEPT ![a] = left]
    BY DEF Restart
  <1>3. Nothing \in Payloads /\ Boot \in Sync /\ Boot.phase # "idle"
    BY DEF Nothing, Boot, NoSync, Payloads, Sync, Phase
  <1>4. /\ msgs' \in [Agents -> SUBSET Message]
        /\ \A b \in Agents : msgs'[b] \subseteq msgs[b]
    BY <1>2 DEF TypeOK
  <1>5. faults' \in 0..MaxFaults
    BY <1>1, FaultTyped DEF TypeOK
  <1>6. TypeOK'
    BY <1>1, <1>3, <1>4, <1>5 DEF TypeOK, server, kernel
  <1>7. LiveHasId' /\ DeletedIsDead'
    BY <1>1, <1>4, AgentKeepsDead DEF TypeOK
  <1>8. IdleIsClean'
    BY <1>1, <1>3 DEF IdleIsClean, Idle, TypeOK
  <1>9. TombstonedStaysGone' /\ SyncPostdatesDelete'
    BY <1>1 DEF TombstonedStaysGone, SyncPostdatesDelete, TypeOK
  <1> QED  BY <1>6, <1>7, <1>8, <1>9

-----------------------------------------------------------------------------
(* The theorems                                                            *)

\* The initial states.
LEMMA InitInv == Init => Inv
  <1> SUFFICES ASSUME Init PROVE Inv
    OBVIOUS
  <1>1. Nothing \in Payloads /\ Boot \in Sync /\ Boot.phase # "idle"
    BY DEF Nothing, Boot, NoSync, Payloads, Sync, Phase
  <1>2. TypeOK
    BY <1>1, DomainSyncAssumption DEF Init, TypeOK
  <1>3. LiveHasId /\ DeletedIsDead /\ IdleIsClean /\ TombstonedStaysGone /\ SyncPostdatesDelete
    BY <1>1 DEF Init, LiveHasId, DeletedIsDead, IdleIsClean, Idle,
                TombstonedStaysGone, SyncPostdatesDelete
  <1> QED  BY <1>2, <1>3 DEF Inv

\* Every step.
LEMMA NextKeepsInv == Inv /\ [Next]_vars => Inv'
  <1> SUFFICES ASSUME Inv, [Next]_vars PROVE Inv'
    OBVIOUS
  <1>1. CASE ServerNext
    BY <1>1, ServerKeepsInv
  <1>2. CASE AgentNext
    BY <1>2, DomainUpdatedKeepsInv, DomainDeletedKeepsInv, LoseKeepsInv,
       SyncCallKeepsInv, SyncReplyKeepsInv, SyncFailKeepsInv,
       SyncRemoveStaleKeepsInv, SyncCollectKeepsInv, SyncApplyKeepsInv,
       SyncDoneKeepsInv, PortKeepsInv, HandlePortKeepsInv, RestartKeepsInv
    DEF AgentNext
  <1>3. CASE UNCHANGED vars
    BY <1>3 DEF Inv, TypeOK, LiveHasId, DeletedIsDead, Dead, IdleIsClean, Idle,
                TombstonedStaysGone, SyncPostdatesDelete,
                vars, server, memory, ovs, kernel
  <1> QED  BY <1>1, <1>2, <1>3 DEF Next

\* The inductive invariant holds in every reachable state.
THEOREM Invariance == Spec => []Inv
  BY InitInv, NextKeepsInv, PTL DEF Spec

\* Every payload, cast and reply names an id, and all state keeps its type.
THEOREM TypeCorrect == Spec => []TypeOK
  BY Invariance, PTL DEF Inv

\* F9: no late domain_updated, sync reply or re-broadcast brings a deleted
\* domain back into a process that saw the delete.
THEOREM NoRevival == Spec => []TombstonedStaysGone
  BY Invariance, PTL DEF Inv

\* A sync in progress never lists a domain whose delete this process handled:
\* the tombstone check on a reply is a second line of defence.
THEOREM NoStaleReply == Spec => []SyncPostdatesDelete
  BY Invariance, PTL DEF Inv

-----------------------------------------------------------------------------
(***************************************************************************)
(* Tenant isolation: whatever a node receives and in whatever order, a     *)
(* gateway port in the VRF of an id belongs to a network that was attached *)
(* to a domain the id was given to.  The invariant is one of provenance.   *)
(* The id of a domain never changes and an association, once made, has     *)
(* been made; so everything derived from a payload -- casts, replies,      *)
(* memory, records, ports -- stays justified by what the server once       *)
(* committed.                                                              *)
(***************************************************************************)

\* The payload p is one the server could have built for d.
Own(d, p) == p.fid = fidOf[d] /\ \A n \in p.nets : <<d, n>> \in attached

\* A network n may have a gateway in the VRF of f.
Justified(f, n) == \E d \in Domains : fidOf[d] = f /\ <<d, n>> \in attached

NetsAttached == \A n \in Networks : netOf[n] # NoDomain => <<netOf[n], n>> \in attached
MsgsOwn == \A a \in Agents : \A m \in msgs[a] : m.type = "updated" => Own(m.id, m.payload)
KnownOwn == \A a \in Agents, d \in Domains :
                known[a][d] # NoPayload => Own(d, known[a][d])
SyncOwn == \A a \in Agents, d \in Domains :
    /\ sync[a].snap[d] # NoPayload => Own(d, sync[a].snap[d])
    /\ sync[a].reply[d] # NoPayload => Own(d, sync[a].reply[d])
RecordOwn == \A a \in Agents, d \in Domains : dp[a][d] # NoFid => dp[a][d] = fidOf[d]
GatewayOwn == \A a \in Agents, f \in Fids : \A n \in gw[a][f] : Justified(f, n)

Provenance == NetsAttached /\ MsgsOwn /\ KnownOwn /\ SyncOwn /\ RecordOwn /\ GatewayOwn

\* The part of it that a step of an agent on one domain may disturb.
NodeOwn == KnownOwn /\ RecordOwn /\ GatewayOwn

-----------------------------------------------------------------------------
(* What was justified stays justified                                      *)

Grows ==
    /\ attached \subseteq attached'
    /\ \A d \in Domains : fidOf[d] # NoFid => fidOf'[d] = fidOf[d]

\* A payload names an id, so its domain has one for good.
LEMMA OwnKept ==
    ASSUME Grows, NEW d \in Domains, NEW p \in Payload, Own(d, p)
    PROVE  Own(d, p)'
  BY DomainSyncAssumption DEF Grows, Own, Payload

\* A gateway justified once stays justified: associations are history.
LEMMA JustifiedKept ==
    ASSUME Grows, NEW f \in Fids, NEW n, Justified(f, n)
    PROVE  Justified(f, n)'
  BY DomainSyncAssumption DEF Grows, Justified

\* delete_domain only takes gateways and records away.
LEMMA DeleteDomainOwn ==
    ASSUME NodeTypes, RecordOwn, GatewayOwn, UNCHANGED server,
           NEW a \in Agents, NEW d \in Domains, NEW f, NEW k, DeleteDomain(a, d, f, k)
    PROVE  RecordOwn' /\ GatewayOwn'
  <1>1. dp' = [dp EXCEPT ![a][d] = NoFid]
    BY DEF DeleteDomain
  <1>2. RecordOwn'
    BY <1>1 DEF RecordOwn, NodeTypes, server
  <1>3. \A b \in Agents, g \in Fids : gw'[b][g] \subseteq gw[b][g]
    BY DEF DeleteDomain, Erase, NodeTypes
  <1>4. GatewayOwn'
    BY <1>3 DEF GatewayOwn, Justified, server
  <1> QED  BY <1>2, <1>4

\* Forgetting a payload, or remembering one that is the domain's own.
LEMMA KnownKept ==
    ASSUME NodeTypes, KnownOwn, UNCHANGED server, NEW a \in Agents, NEW d \in Domains,
           NEW p, p = NoPayload \/ Own(d, p), known' = [known EXCEPT ![a][d] = p]
    PROVE  KnownOwn'
  <1> SUFFICES ASSUME NEW b \in Agents, NEW e \in Domains, known'[b][e] # NoPayload
               PROVE  Own(e, known'[b][e])
    BY DEF KnownOwn, Own, server
  <1>1. CASE b = a /\ e = d
    <2>1. known'[b][e] = p
      BY <1>1 DEF NodeTypes, Payloads
    <2> QED  BY <1>1, <2>1
  <1>2. CASE b # a \/ e # d
    <2>1. known'[b][e] = known[b][e]
      BY <1>2 DEF NodeTypes, Payloads
    <2> QED  BY <2>1 DEF KnownOwn
  <1> QED  BY <1>1, <1>2

\* _retire_domain.
LEMMA RetireOwn ==
    ASSUME NodeTypes, NodeOwn, UNCHANGED server, NEW a \in Agents, NEW d \in Domains,
           NEW p \in Payload, Retire(a, d, p)
    PROVE  NodeOwn'
  <1>1. PICK k \in DeleteKinds \cup {"list"} :
           /\ DeleteDomain(a, d, p.fid, k) \/ UNCHANGED <<kernel, dp>>
           /\ known' = IF k = "raise" THEN known
                       ELSE [known EXCEPT ![a][d] = NoPayload]
    BY Zenon DEF Retire
  <1>2. RecordOwn' /\ GatewayOwn'
    <2>1. CASE DeleteDomain(a, d, p.fid, k)
      BY <2>1, DeleteDomainOwn DEF NodeOwn
    <2>2. CASE UNCHANGED <<kernel, dp>>
      BY <2>2 DEF NodeOwn, RecordOwn, GatewayOwn, Justified, kernel, server
    <2> QED  BY <1>1, <2>1, <2>2
  <1>3. KnownOwn'
    <2>1. CASE known' = known
      BY <2>1 DEF NodeOwn, KnownOwn, Own, server
    <2>2. CASE known' = [known EXCEPT ![a][d] = NoPayload]
      BY <2>2, KnownKept DEF NodeOwn
    <2> QED  BY <1>1, <2>1, <2>2
  <1> QED  BY <1>2, <1>3 DEF NodeOwn

\* _make_dormant.
LEMMA MakeDormantOwn ==
    ASSUME NodeTypes, NodeOwn, UNCHANGED server, NEW a \in Agents, NEW d \in Domains,
           NEW p \in Payload, Own(d, p), MakeDormant(a, d, p)
    PROVE  NodeOwn'
  <1>1. PICK k \in DeleteKinds \cup {"list"} :
           /\ DeleteDomain(a, d, p.fid, k) \/ UNCHANGED <<kernel, dp>>
           /\ known' = IF k = "raise" THEN known ELSE [known EXCEPT ![a][d] = p]
    BY Zenon DEF MakeDormant
  <1>2. RecordOwn' /\ GatewayOwn'
    <2>1. CASE DeleteDomain(a, d, p.fid, k)
      BY <2>1, DeleteDomainOwn DEF NodeOwn
    <2>2. CASE UNCHANGED <<kernel, dp>>
      BY <2>2 DEF NodeOwn, RecordOwn, GatewayOwn, Justified, kernel, server
    <2> QED  BY <1>1, <2>1, <2>2
  <1>3. KnownOwn'
    <2>1. CASE known' = known
      BY <2>1 DEF NodeOwn, KnownOwn, Own, server
    <2>2. CASE known' = [known EXCEPT ![a][d] = p]
      BY <2>2, KnownKept DEF NodeOwn
    <2> QED  BY <1>1, <2>1, <2>2
  <1> QED  BY <1>2, <1>3 DEF NodeOwn

\* ensure_domain records the payload's id; the gateways made are of its networks.
LEMMA ProgramOwn ==
    ASSUME NodeTypes, NodeOwn, UNCHANGED server, NEW a \in Agents, NEW d \in Domains,
           NEW p \in Payload, Own(d, p), NEW k, Program(a, d, p, k)
    PROVE  NodeOwn'
  <1> DEFINE
        live_here == p.nets \cap ports[a]
        kept == IF k = "ovsdb" THEN gw[a][p.fid] ELSE gw[a][p.fid] \cap live_here
        bound_here == p.nets \cap bound[a]
  <1>1. CASE UNCHANGED <<dp, sealed, gw, known>>
    BY <1>1 DEF NodeOwn, KnownOwn, RecordOwn, GatewayOwn, Own, Justified, server
  <1>2. ASSUME NEW made \in SUBSET bound_here,
               dp' = [dp EXCEPT ![a][d] = p.fid],
               gw' = [gw EXCEPT ![a][p.fid] = kept \cup made],
               known' = IF k = "late" THEN known ELSE [known EXCEPT ![a][d] = p]
        PROVE  NodeOwn'
    <2>1. RecordOwn'
      BY <1>2 DEF NodeTypes, NodeOwn, RecordOwn, Own, server
    <2>2. KnownOwn'
      <3>1. CASE known' = known
        BY <3>1 DEF NodeOwn, KnownOwn, Own, server
      <3>2. CASE known' = [known EXCEPT ![a][d] = p]
        BY <3>2, KnownKept DEF NodeOwn
      <3> QED  BY <1>2, <3>1, <3>2
    <2>3. GatewayOwn'
      <3>1. p.fid \in Fids /\ \A n \in p.nets : Justified(p.fid, n)
        BY DEF Own, Justified, Payload
      <3>2. \A n \in kept \cup made : Justified(p.fid, n)
        BY <3>1 DEF NodeOwn, GatewayOwn
      <3> HIDE DEF kept
      <3>3. \A b \in Agents, f \in Fids : \A n \in gw'[b][f] : Justified(f, n)
        BY <1>2, <3>1, <3>2 DEF NodeTypes, NodeOwn, GatewayOwn
      <3> QED  BY <3>3 DEF GatewayOwn, Justified, server
    <2> QED  BY <2>1, <2>2, <2>3 DEF NodeOwn
  <1> QED  BY <1>1, <1>2, Zenon DEF Program

\* So a domain's own payload may be applied at any time.
LEMMA ApplyOwn ==
    ASSUME NodeTypes, NodeOwn, UNCHANGED server, NEW a \in Agents, NEW d \in Domains,
           NEW p \in Payload, Own(d, p), NEW s, ApplyDomain(a, d, p, s)
    PROVE  NodeOwn'
  <1>1. \/ Retire(a, d, p) \/ MakeDormant(a, d, p)
        \/ \E k \in {"ok", "seal", "gateway", "late", "ovsdb"} : Program(a, d, p, k)
    BY Zenon DEF ApplyDomain
  <1> QED  BY <1>1, RetireOwn, MakeDormantOwn, ProgramOwn

-----------------------------------------------------------------------------
(* The server                                                              *)

\* Messages: what was cast stays justified, what is cast now has to be.
LEMMA MsgsKept ==
    ASSUME Inv, Grows, MsgsOwn,
           \A a \in Agents : \A m \in msgs'[a] :
               m \in msgs[a] \/ (m.type = "updated" => Own(m.id, m.payload)')
    PROVE  MsgsOwn'
  <1> SUFFICES ASSUME NEW a \in Agents, NEW m \in msgs'[a], m.type = "updated"
               PROVE  Own(m.id, m.payload)'
    BY DEF MsgsOwn
  <1>1. CASE m \in msgs[a]
    <2>1. m \in Message
      BY <1>1 DEF Inv, TypeOK
    <2>2. Own(m.id, m.payload) /\ m.id \in Domains /\ m.payload \in Payload
      BY <1>1, <2>1, MessageFields DEF MsgsOwn
    <2> QED  BY <2>2, OwnKept
  <1> QED  BY <1>1

\* The agents' state, while the server moves on.
LEMMA AgentsKept ==
    ASSUME Inv, Grows, SyncOwn, NodeOwn, UNCHANGED agents
    PROVE  SyncOwn' /\ NodeOwn'
  <1> USE DEF agents, memory, ovs, kernel
  <1>1. KnownOwn'
    <2> SUFFICES ASSUME NEW a \in Agents, NEW d \in Domains, known[a][d] # NoPayload
                 PROVE  Own(d, known[a][d])'
      BY DEF KnownOwn
    <2>1. known[a][d] \in Payload /\ Own(d, known[a][d])
      BY DEF Inv, TypeOK, Payloads, NodeOwn, KnownOwn
    <2> QED  BY <2>1, OwnKept DEF Own, Grows, Payload
  <1>2. SyncOwn'
    <2> SUFFICES ASSUME NEW a \in Agents, NEW d \in Domains, NEW p \in {sync[a].snap[d], sync[a].reply[d]},
                        p # NoPayload
                 PROVE  Own(d, p)'
      BY DEF SyncOwn, Own
    <2>1. sync[a].snap \in Payloads /\ sync[a].reply \in Payloads
      BY DEF Inv, TypeOK, Sync
    <2>2. p \in Payload /\ Own(d, p)
      BY <2>1 DEF Payloads, SyncOwn
    <2> QED  BY <2>2, OwnKept
  <1>3. RecordOwn'
    BY DEF Inv, TypeOK, NodeOwn, RecordOwn, Grows
  <1>4. GatewayOwn'
    BY JustifiedKept DEF NodeOwn, GatewayOwn
  <1> QED  BY <1>1, <1>2, <1>3, <1>4 DEF NodeOwn

\* The server's own payload of a domain that exists.
LEMMA PayloadOwn ==
    ASSUME Inv, NetsAttached, NEW d \in live
    PROVE  PayloadOf(d) \in Payload /\ Own(d, PayloadOf(d))
  <1>1. PayloadOf(d) \in Payload
    BY LivePayload DEF Inv
  <1>2. \A n \in NetsOf(d) : <<d, n>> \in attached
    BY DomainSyncAssumption DEF NetsOf, NetsAttached, Inv, TypeOK
  <1> QED  BY <1>1, <1>2 DEF Own, PayloadOf

\* Every request keeps the provenance.
LEMMA ServerKeepsProvenance ==
    ASSUME Inv, Provenance, ServerNext
    PROVE  Provenance'
  <1> USE DEF Provenance
  <1>1. ASSUME Grows, UNCHANGED agents, NetsAttached', MsgsOwn' PROVE Provenance'
    BY <1>1, AgentsKept DEF NodeOwn
  <1>2. ASSUME Grows, UNCHANGED <<agents, msgs>>, NetsAttached' PROVE Provenance'
    BY <1>1, <1>2, MsgsKept
  <1>3. ASSUME NEW d \in Domains, Create(d) PROVE Provenance'
    <2>1. Grows
      BY <1>3 DEF Create, Grows, Inv, TypeOK
    <2> QED  BY <1>2, <1>3, <2>1 DEF Create, NetsAttached
  <1>4. ASSUME NEW d \in Domains, Update(d) PROVE Provenance'
    <2>1. /\ d \in live /\ Cast({Updated(d, PayloadOf(d))})
          /\ UNCHANGED <<server, agents>>
      BY <1>4 DEF Update
    <2>2. Grows /\ NetsAttached'
      BY <2>1 DEF Grows, NetsAttached, server
    <2>3. Own(d, PayloadOf(d))'
      BY <2>1, PayloadOwn DEF Own, PayloadOf, NetsOf, server
    <2>4. UNCHANGED PayloadOf(d)
      BY <2>1 DEF PayloadOf, NetsOf, server
    <2>5. MsgsOwn'
      BY <2>1, <2>2, <2>3, <2>4, MsgsKept DEF Cast, Updated, Own
    <2> QED  BY <1>1, <2>1, <2>2, <2>5
  <1>5. ASSUME NEW d \in Domains, Delete(d) PROVE Provenance'
    <2>1. /\ Cast({Deleted(d)})
          /\ netOf' = [n \in Networks |-> IF netOf[n] = d THEN NoDomain ELSE netOf[n]]
          /\ UNCHANGED <<fidOf, attached, agents>>
      BY <1>5 DEF Delete
    <2>2. Grows /\ NetsAttached'
      BY <2>1 DEF Grows, NetsAttached
    <2>3. MsgsOwn'
      BY <2>1, <2>2, MsgsKept DEF Cast, Deleted
    <2> QED  BY <1>1, <2>1, <2>2, <2>3
  <1>6. ASSUME NEW d \in Domains, Push(d) PROVE Provenance'
    <2> DEFINE ms == IF d \in live THEN {Updated(d, PayloadOf(d))} ELSE {}
    <2>1. Cast(ms) /\ UNCHANGED <<live, fidOf, netOf, attached, agents>>
      BY <1>6 DEF Push
    <2>2. Grows /\ NetsAttached'
      BY <2>1 DEF Grows, NetsAttached
    <2>3. \A m \in ms : m.type = "updated" => Own(m.id, m.payload)
      BY PayloadOwn DEF Updated
    <2> HIDE DEF ms
    <2>4. \A m \in ms : m.type = "updated" => Own(m.id, m.payload)'
      BY <2>1, <2>3 DEF Own
    <2>5. MsgsOwn'
      BY <2>1, <2>2, <2>4, MsgsKept DEF Cast
    <2> QED  BY <1>1, <2>1, <2>2, <2>5
  <1>7. ASSUME NEW d \in Domains, NEW n \in Networks, Attach(d, n) PROVE Provenance'
    <2>1. Grows /\ NetsAttached'
      BY <1>7 DEF Attach, Grows, NetsAttached, Inv, TypeOK
    <2> QED  BY <1>2, <1>7, <2>1 DEF Attach
  <1>8. ASSUME NEW n \in Networks, Detach(n) \/ DropNetwork(n) PROVE Provenance'
    <2>1. /\ netOf' = [netOf EXCEPT ![n] = NoDomain]
          /\ UNCHANGED <<fidOf, attached, agents, msgs>>
      BY <1>8 DEF Detach, DropNetwork
    <2>2. Grows /\ NetsAttached'
      BY <2>1 DEF Grows, NetsAttached, Inv, TypeOK
    <2> QED  BY <1>2, <2>1, <2>2
  <1> QED  BY <1>3, <1>4, <1>5, <1>6, <1>7, <1>8 DEF ServerNext

-----------------------------------------------------------------------------
(* The agents                                                              *)

\* What an agent's step leaves alone.
LEMMA RestKept ==
    ASSUME Inv, Provenance, UNCHANGED server,
           \A a \in Agents : msgs'[a] \subseteq msgs[a]
    PROVE  Grows /\ NetsAttached' /\ MsgsOwn'
  <1>1. Grows /\ NetsAttached'
    BY DEF Grows, NetsAttached, Provenance, server
  <1> QED  BY <1>1, MsgsKept DEF Provenance

\* So is a sync's snapshot, as long as nobody touches it.
LEMMA SyncKept ==
    ASSUME SyncOwn, UNCHANGED <<server, sync>>
    PROVE  SyncOwn'
  BY DEF SyncOwn, Own, server

\* Listing what the server has; an empty reply says nothing.
LEMMA StartSyncOwn ==
    ASSUME Inv, Provenance, UNCHANGED server, NEW a \in Agents, StartSync(a)
    PROVE  SyncOwn'
  <1>1. PICK new \in BOOLEAN : sync' = [sync EXCEPT ![a] =
            [phase |-> "call", new |-> new, snap |-> Listing, reply |-> Nothing]]
    BY DEF StartSync
  <1>2. \A d \in Domains : /\ Listing[d] # NoPayload => Own(d, Listing[d])
                           /\ Nothing[d] = NoPayload
    BY PayloadOwn DEF Listing, Nothing, Provenance
  <1>3. \A d \in Domains : /\ sync'[a].snap[d] # NoPayload => Own(d, sync'[a].snap[d])
                           /\ sync'[a].reply[d] = NoPayload
    BY <1>1, <1>2 DEF Inv, TypeOK
  <1>4. \A b \in Agents : b # a => sync'[b] = sync[b]
    BY <1>1 DEF Inv, TypeOK
  <1> QED  BY <1>3, <1>4 DEF SyncOwn, Own, Provenance, server

\* A sync that goes on with fewer domains.
LEMMA SyncShrinks ==
    ASSUME SyncOwn, UNCHANGED server, NEW a \in Agents,
           \A b \in Agents : b # a => sync'[b] = sync[b],
           \A d \in Domains :
             /\ sync'[a].snap[d] \in {sync[a].snap[d], NoPayload}
             /\ sync'[a].reply[d] \in {sync[a].snap[d], sync[a].reply[d], NoPayload}
    PROVE  SyncOwn'
  <1> SUFFICES ASSUME NEW b \in Agents, NEW d \in Domains
               PROVE  /\ sync'[b].snap[d] # NoPayload => Own(d, sync'[b].snap[d])
                      /\ sync'[b].reply[d] # NoPayload => Own(d, sync'[b].reply[d])
    BY DEF SyncOwn, Own, server
  <1> QED  BY DEF SyncOwn

\* The memory and the kernel, untouched.
LEMMA NodeKept ==
    ASSUME NodeOwn, UNCHANGED <<server, known, dp, gw>>
    PROVE  NodeOwn'
  BY DEF NodeOwn, KnownOwn, RecordOwn, GatewayOwn, Own, Justified, server

\* The fields of a sync that is idle.
LEMMA NoSyncFields ==
    \A d \in Domains : /\ NoSync.snap[d] = NoPayload /\ NoSync.reply[d] = NoPayload
                       /\ Boot.snap[d] = NoPayload /\ Boot.reply[d] = NoPayload
  BY DEF NoSync, Boot, Nothing

\* domain_updated applies the domain's own payload.
LEMMA DomainUpdatedOwn ==
    ASSUME Inv, Provenance, NEW a \in Agents, DomainUpdated(a)
    PROVE  Provenance'
  <1>1. PICK m \in msgs[a] :
           /\ m.type = "updated" /\ Receive(a, m)
           /\ \/ UNCHANGED <<known, dormant, dp, kernel, faults>>
              \/ ApplyDomain(a, m.id, m.payload, FALSE)
    BY DEF DomainUpdated
  <1>2. UNCHANGED <<server, sync>>
    BY DEF DomainUpdated
  <1>3. m \in Message /\ Own(m.id, m.payload)
    BY <1>1 DEF Inv, TypeOK, Provenance, MsgsOwn
  <1>4. \A b \in Agents : msgs'[b] \subseteq msgs[b]
    BY <1>1, ReceiveKeeps DEF Inv, TypeOK
  <1>5. NodeOwn'
    <2>1. CASE UNCHANGED <<known, dormant, dp, kernel, faults>>
      BY <1>2, <2>1, NodeKept DEF Provenance, NodeOwn, kernel
    <2>2. CASE ApplyDomain(a, m.id, m.payload, FALSE)
      BY <1>1, <1>2, <1>3, <2>2, MessageFields, ApplyOwn
      DEF Inv, TypeOK, NodeTypes, Provenance, NodeOwn
    <2> QED  BY <1>1, <2>1, <2>2
  <1> QED  BY <1>2, <1>4, <1>5, RestKept, SyncKept DEF Provenance, NodeOwn

\* domain_deleted and the removal of stale domains take things away.
LEMMA RemovalOwn ==
    ASSUME Inv, Provenance, NEW a \in Agents, DomainDeleted(a) \/ SyncRemoveStale(a)
    PROVE  Provenance'
  <1>1. PICK d \in Domains, f \in Fids \cup {NoFid}, k \in DeleteKinds :
           /\ DeleteDomain(a, d, f, k)
           /\ known' = [known EXCEPT ![a][d] = NoPayload]
    BY MessageFields DEF DomainDeleted, SyncRemoveStale, Stale, Inv, TypeOK
  <1>2. UNCHANGED <<server, sync>>
    BY DEF DomainDeleted, SyncRemoveStale
  <1>3. \A b \in Agents : msgs'[b] \subseteq msgs[b]
    BY ReceiveKeeps DEF DomainDeleted, SyncRemoveStale, Inv, TypeOK
  <1>4. RecordOwn' /\ GatewayOwn'
    BY <1>1, <1>2, DeleteDomainOwn DEF Inv, TypeOK, NodeTypes, Provenance
  <1>5. KnownOwn'
    BY <1>1, <1>2, KnownKept DEF Inv, TypeOK, NodeTypes, Provenance
  <1> QED  BY <1>2, <1>3, <1>4, <1>5, RestKept, SyncKept DEF Provenance

\* The reply of a sync, and a re-broadcast, come from its listing.
LEMMA SyncReplyOwn ==
    ASSUME Inv, Provenance, NEW a \in Agents, SyncReply(a) \/ SyncFail(a)
    PROVE  Provenance'
  <1>1. UNCHANGED <<server, memory, kernel>>
    BY DEF SyncReply, SyncFail
  <1>2. sync[a] \in Sync /\ sync[a].snap \in Payloads
    BY DEF Inv, TypeOK, Sync
  <1>3. \/ UNCHANGED msgs
        \/ \E S \in Built(sync[a].snap) : Rebroadcast(sync[a].new, sync[a].snap, S)
    BY DEF SyncReply, SyncFail
  <1>4. MsgsOwn'
    <2>1. CASE UNCHANGED msgs
      BY <1>1, <2>1, RestKept
    <2>2. CASE \E S \in Built(sync[a].snap) : Rebroadcast(sync[a].new, sync[a].snap, S)
      <3>1. PICK S \in Built(sync[a].snap) : Rebroadcast(sync[a].new, sync[a].snap, S)
        BY <2>2
      <3> DEFINE ms == IF sync[a].new THEN {Updated(d, sync[a].snap[d]) : d \in S} ELSE {}
      <3>2. \A d \in S : Own(d, sync[a].snap[d])
        BY DEF Built, Provenance, SyncOwn
      <3>3. \A m \in ms : Own(m.id, m.payload)
        BY <3>2 DEF Updated
      <3>4. Cast(ms)
        BY <3>1 DEF Rebroadcast
      <3> HIDE DEF ms
      <3>5. \A m \in ms : Own(m.id, m.payload)'
        BY <1>1, <3>3 DEF Own, server
      <3>6. Grows
        BY <1>1 DEF Grows, server
      <3> QED  BY <3>4, <3>5, <3>6, MsgsKept DEF Cast, Provenance
    <2> QED  BY <1>3, <2>1, <2>2
  <1>5. SyncOwn'
    <2>1. CASE SyncReply(a)
      <3>1. PICK S \in Built(sync[a].snap) :
              sync' = [sync EXCEPT ![a] = [@ EXCEPT !.phase = "stale",
                        !.reply = [d \in Domains |-> IF d \in S \ tomb[a]
                                                     THEN sync[a].snap[d]
                                                     ELSE NoPayload]]]
        BY <2>1 DEF SyncReply
      <3> DEFINE reply == [d \in Domains |-> IF d \in S \ tomb[a] THEN sync[a].snap[d]
                                             ELSE NoPayload]
                 r == [sync[a] EXCEPT !.phase = "stale", !.reply = reply]
      <3>2. \A d \in Domains : reply[d] \in {sync[a].snap[d], NoPayload}
        OBVIOUS
      <3> HIDE DEF reply
      <3>3. r.snap = sync[a].snap /\ r.reply = reply
        BY <1>2 DEF Sync
      <3>4. sync' = [sync EXCEPT ![a] = r]
        BY <3>1 DEF reply
      <3> HIDE DEF r
      <3> QED  BY <1>1, <3>2, <3>3, <3>4, SyncShrinks DEF Inv, TypeOK, Provenance
    <2>2. CASE SyncFail(a)
      <3>1. sync' = [sync EXCEPT ![a] = NoSync]
        BY <2>2 DEF SyncFail
      <3> QED  BY <1>1, <3>1, NoSyncFields, SyncShrinks DEF Inv, TypeOK, Provenance
    <2> QED  BY <2>1, <2>2
  <1>6. NetsAttached'
    BY <1>1 DEF NetsAttached, Provenance, server
  <1> QED  BY <1>1, <1>4, <1>5, <1>6, NodeKept DEF Provenance, NodeOwn, memory, kernel

\* One domain of the reply.
LEMMA SyncApplyOwn ==
    ASSUME Inv, Provenance, NEW a \in Agents, SyncApply(a)
    PROVE  Provenance'
  <1>1. PICK d \in Domains :
           /\ sync[a].reply[d] # NoPayload
           /\ ApplyDomain(a, d, sync[a].reply[d], TRUE)
           /\ sync' = [sync EXCEPT ![a].reply[d] = NoPayload]
    BY DEF SyncApply
  <1>2. UNCHANGED <<server, msgs>>
    BY DEF SyncApply
  <1>3. /\ sync[a] \in Sync /\ sync[a].reply \in Payloads
        /\ sync[a].reply[d] \in Payload /\ Own(d, sync[a].reply[d])
    BY <1>1 DEF Inv, TypeOK, Sync, Payloads, Provenance, SyncOwn
  <1>4. NodeOwn'
    BY <1>1, <1>2, <1>3, ApplyOwn DEF Inv, TypeOK, NodeTypes, Provenance, NodeOwn
  <1>5. SyncOwn'
    <2> DEFINE r == [sync[a] EXCEPT !.reply[d] = NoPayload]
    <2>1. /\ r.snap = sync[a].snap
          /\ r.reply = [sync[a].reply EXCEPT ![d] = NoPayload]
      BY <1>3 DEF Sync
    <2>2. sync' = [sync EXCEPT ![a] = r]
      BY <1>1
    <2>3. \A e \in Domains : r.reply[e] \in {sync[a].reply[e], NoPayload}
      BY <1>3, <2>1 DEF Payloads
    <2> HIDE DEF r
    <2> QED  BY <1>2, <2>1, <2>2, <2>3, SyncShrinks DEF Inv, TypeOK, Provenance
  <1> QED  BY <1>2, <1>4, <1>5, RestKept DEF Provenance, NodeOwn

\* The garbage collector only takes gateways away.
LEMMA SyncCollectOwn ==
    ASSUME Inv, Provenance, NEW a \in Agents, SyncCollect(a)
    PROVE  Provenance'
  <1>1. /\ sync' = [sync EXCEPT ![a].phase = "apply"]
        /\ UNCHANGED <<server, msgs, memory>>
    BY DEF SyncCollect
  <1>2. \A b \in Agents, g \in Fids : gw'[b][g] \subseteq gw[b][g]
    <2> DEFINE wanted == {sync[a].reply[d].fid :
                             d \in {e \in Domains : sync[a].reply[e] # NoPayload}}
               orphans == vrf[a] \ wanted
    <2>1. \/ Erase(a, orphans, "ok")
          \/ UNCHANGED kernel
          \/ \E f \in orphans, k \in DeleteKinds : EraseFailing(a, orphans, f, k)
      BY Zenon DEF SyncCollect
    <2> HIDE DEF orphans
    <2>2. CASE Erase(a, orphans, "ok")
      BY <2>2 DEF Erase, Inv, TypeOK
    <2>3. CASE UNCHANGED kernel
      BY <2>3 DEF kernel
    <2>4. ASSUME NEW f \in orphans, NEW k \in DeleteKinds, EraseFailing(a, orphans, f, k)
          PROVE  \A b \in Agents, g \in Fids : gw'[b][g] \subseteq gw[b][g]
      BY <2>4 DEF EraseFailing, Inv, TypeOK
    <2> QED  BY <2>1, <2>2, <2>3, <2>4
  <1>3. GatewayOwn'
    BY <1>1, <1>2 DEF GatewayOwn, Justified, Provenance, server
  <1>4. KnownOwn' /\ RecordOwn'
    BY <1>1 DEF KnownOwn, RecordOwn, Own, Provenance, server, memory
  <1>5. SyncOwn'
    <2> DEFINE r == [sync[a] EXCEPT !.phase = "apply"]
    <2>1. sync[a] \in Sync
      BY DEF Inv, TypeOK
    <2>2. r.snap = sync[a].snap /\ r.reply = sync[a].reply
      BY <2>1 DEF Sync
    <2>3. sync' = [sync EXCEPT ![a] = r]
      BY <1>1
    <2> HIDE DEF r
    <2> QED  BY <1>1, <2>2, <2>3, SyncShrinks DEF Inv, TypeOK, Provenance
  <1> QED  BY <1>1, <1>3, <1>4, <1>5, RestKept DEF Provenance

\* handle_port makes gateways in the VRFs of the domains that serve the
\* network, by the records of those domains.
LEMMA HandlePortOwn ==
    ASSUME Inv, Provenance, NEW a \in Agents, NEW n \in Networks, HandlePort(a, n)
    PROVE  Provenance'
  <1>1. UNCHANGED <<server, msgs, memory>>
    BY DEF HandlePort
  <1>2. \A f \in Fids : \A m \in Gateways(a, n)[f] : Justified(f, m)
    <2> SUFFICES ASSUME NEW f \in Fids, NEW m \in Gateways(a, n)[f]
                 PROVE  Justified(f, m)
      OBVIOUS
    <2>1. m = n /\ \E d \in Serving(a, n) : dp[a][d] = f
      BY DEF Gateways
    <2>2. PICK d \in Domains : known[a][d] # NoPayload /\ n \in known[a][d].nets /\ dp[a][d] = f
      BY <2>1 DEF Serving
    <2>3. fidOf[d] = f /\ <<d, n>> \in attached
      BY <2>2, DomainSyncAssumption DEF Provenance, KnownOwn, RecordOwn, Own
    <2> QED  BY <2>1, <2>3 DEF Justified
  <1>3. \A f \in Fids : Reconciled(a)[f] \subseteq gw[a][f]
    BY DEF Reconciled
  <1>4. \E k : gw' = [gw EXCEPT ![a] = [f \in Fids |->
            IF k = "gateway" THEN (IF k = "ovsdb" THEN gw[a] ELSE Reconciled(a))[f]
            ELSE (IF k = "ovsdb" THEN gw[a] ELSE Reconciled(a))[f] \cup Gateways(a, n)[f]]]
    BY Zenon DEF HandlePort
  <1>5. \A b \in Agents, f \in Fids : \A m \in gw'[b][f] : m \in gw[b][f] \/ Justified(f, m)
    BY <1>2, <1>3, <1>4 DEF Inv, TypeOK
  <1>6. GatewayOwn'
    BY <1>1, <1>5 DEF GatewayOwn, Justified, Provenance, server
  <1>7. KnownOwn' /\ RecordOwn'
    BY <1>1 DEF KnownOwn, RecordOwn, Own, Provenance, server, memory
  <1>8. SyncOwn'
    BY <1>1, StartSyncOwn, SyncKept DEF HandlePort, Provenance
  <1> QED  BY <1>1, <1>6, <1>7, <1>8, RestKept DEF Provenance

\* The other port events, a lost message, the call and the end of a sync.
LEMMA QuietOwn ==
    ASSUME Inv, Provenance, NEW a \in Agents,
           \/ Lose(a) \/ SyncCall(a) \/ SyncDone(a)
           \/ \E n \in Networks : PortUp(a, n) \/ PortDown(a, n) \/ DeletePort(a, n)
    PROVE  Provenance'
  <1>1. UNCHANGED <<server, memory>>
    BY DEF Lose, SyncCall, SyncDone, PortUp, PortDown, DeletePort
  <1>2. \A b \in Agents : msgs'[b] \subseteq msgs[b]
    BY ReceiveKeeps DEF Lose, SyncCall, SyncDone, PortUp, PortDown, DeletePort, Inv, TypeOK
  <1>3. \A b \in Agents, f \in Fids : gw'[b][f] \subseteq gw[b][f]
    <2>1. \A f \in Fids : Reconciled(a)[f] \subseteq gw[a][f]
      BY DEF Reconciled
    <2>2. gw' = gw \/ gw' = [gw EXCEPT ![a] = Reconciled(a)]
      BY DEF Lose, SyncCall, SyncDone, PortUp, PortDown, DeletePort, kernel
    <2> QED  BY <2>1, <2>2 DEF Inv, TypeOK
  <1>4. GatewayOwn'
    BY <1>1, <1>3 DEF GatewayOwn, Justified, Provenance, server
  <1>5. KnownOwn' /\ RecordOwn'
    BY <1>1 DEF KnownOwn, RecordOwn, Own, Provenance, server, memory
  <1>6. SyncOwn'
    <2>1. CASE SyncCall(a)
      BY <1>1, <2>1, StartSyncOwn DEF SyncCall
    <2>2. CASE SyncDone(a)
      BY <1>1, <2>2, NoSyncFields, SyncShrinks DEF SyncDone, Inv, TypeOK, Provenance
    <2>3. CASE UNCHANGED sync
      BY <1>1, <2>3, SyncKept DEF Provenance
    <2> QED  BY <2>1, <2>2, <2>3 DEF Lose, PortUp, PortDown, DeletePort
  <1> QED  BY <1>1, <1>2, <1>4, <1>5, <1>6, RestKept DEF Provenance

\* A restart keeps only what the kernel and the bus hold.
LEMMA RestartOwn ==
    ASSUME Inv, Provenance, NEW a \in Agents, Restart(a)
    PROVE  Provenance'
  <1>1. /\ known' = [known EXCEPT ![a] = Nothing]
        /\ dp' = [dp EXCEPT ![a] = [d \in Domains |-> NoFid]]
        /\ sync' = [sync EXCEPT ![a] = Boot]
        /\ UNCHANGED <<server, kernel>>
    BY DEF Restart
  <1>2. \A b \in Agents : msgs'[b] \subseteq msgs[b]
    BY DEF Restart, Inv, TypeOK
  <1>3. KnownOwn'
    <2>1. \A d \in Domains : known'[a][d] = NoPayload
      BY <1>1 DEF Nothing, Inv, TypeOK
    <2>2. \A b \in Agents : b # a => known'[b] = known[b]
      BY <1>1 DEF Inv, TypeOK
    <2> QED  BY <1>1, <2>1, <2>2 DEF KnownOwn, Own, Provenance, server
  <1>4. RecordOwn' /\ GatewayOwn'
    <2>1. \A d \in Domains : dp'[a][d] = NoFid
      BY <1>1 DEF Inv, TypeOK
    <2>2. \A b \in Agents : b # a => dp'[b] = dp[b]
      BY <1>1 DEF Inv, TypeOK
    <2>3. RecordOwn'
      BY <1>1, <2>1, <2>2 DEF RecordOwn, Provenance, server
    <2>4. GatewayOwn'
      BY <1>1 DEF GatewayOwn, Justified, Provenance, server, kernel
    <2> QED  BY <2>3, <2>4
  <1>5. SyncOwn'
    BY <1>1, NoSyncFields, SyncShrinks DEF Inv, TypeOK, Provenance
  <1> QED  BY <1>1, <1>2, <1>3, <1>4, <1>5, RestKept DEF Provenance

-----------------------------------------------------------------------------
(* The theorem                                                             *)

\* Nothing exists at first.
LEMMA InitProvenance == Init => Provenance
  <1> SUFFICES ASSUME Init PROVE Provenance
    OBVIOUS
  <1>1. NetsAttached /\ MsgsOwn
    BY DEF Init, NetsAttached, MsgsOwn
  <1>2. KnownOwn /\ RecordOwn /\ GatewayOwn
    BY DEF Init, KnownOwn, RecordOwn, GatewayOwn, Nothing
  <1>3. SyncOwn
    BY NoSyncFields DEF Init, SyncOwn
  <1> QED  BY <1>1, <1>2, <1>3 DEF Provenance

\* Every step keeps the provenance.
LEMMA NextKeepsProvenance == Inv /\ Provenance /\ [Next]_vars => Provenance'
  <1> SUFFICES ASSUME Inv, Provenance, [Next]_vars PROVE Provenance'
    OBVIOUS
  <1>1. CASE ServerNext
    BY <1>1, ServerKeepsProvenance
  <1>2. CASE AgentNext
    BY <1>2, DomainUpdatedOwn, RemovalOwn, SyncReplyOwn, SyncApplyOwn,
       SyncCollectOwn, HandlePortOwn, QuietOwn, RestartOwn
    DEF AgentNext
  <1>3. CASE UNCHANGED vars
    <2>1. UNCHANGED <<server, msgs, known, dp, gw, sync>>
      BY <1>3 DEF vars, server, memory, kernel
    <2> QED  BY <2>1, RestKept, SyncKept, NodeKept DEF Provenance, NodeOwn
  <1> QED  BY <1>1, <1>2, <1>3 DEF Next

\* Tenant isolation: no gateway port of a network in the VRF of an id none of
\* whose domains the network was ever attached to.
THEOREM Isolation == Spec => []NoForeignGateway
  <1>1. Provenance => NoForeignGateway
    BY DEF Provenance, GatewayOwn, Justified, NoForeignGateway, Holders
  <1> QED  BY <1>1, InitProvenance, NextKeepsProvenance, Invariance, PTL DEF Spec

-----------------------------------------------------------------------------
(* What DomainSync leaves in the kernel of a node                          *)

\* The id of d was given to no other domain.
Alone(d) == fidOf[d] \in Fids /\ \A e \in Domains : fidOf[e] = fidOf[d] => e = d

\* Of a reply only what the sync has applied is missing, and no domain that
\* still exists before the first is.
Listed ==
    \A a \in Agents, d \in Domains :
        /\ sync[a].phase \in {"idle", "boot"} => sync[a].snap[d] = NoPayload
        /\ sync[a].reply[d] \in {sync[a].snap[d], NoPayload}
        /\ sync[a].phase = "stale" /\ d \in live => sync[a].reply[d] = sync[a].snap[d]

\* A delete names the domain's own id, and dormancy is only ever of a payload.
DeletedOwn == \A a \in Agents : \A m \in msgs[a] : m.type = "deleted" => m.fid = fidOf[m.id]
DormantKnown == \A a \in Agents : \A d \in dormant[a] : known[a][d] # NoPayload

\* The faults under which a dormant domain is sure to hold nothing, and those
\* under which a VRF with gateways is sure to be sealed.
KernelLetsGo == {"vrf", "list", "port"} \cap FaultKinds = {}
PassesFinish == {"late", "port"} \cap FaultKinds = {}

\* A gateway needs a VRF to be in, and so does a programmed domain on record:
\* handle_port goes by that record.
VrfBehind(a, d) ==
    LET f == fidOf[d]
    IN  /\ d \in dormant[a] => f \notin vrf[a]
        /\ gw[a][f] # {} => f \in vrf[a]
        /\ dp[a][d] = f /\ Programmed(a, d) => f \in vrf[a]

\* A record says that the domain is programmed and sealed.
SealBehind(a, d) ==
    LET f == fidOf[d]
    IN  /\ gw[a][f] # {} => f \in sealed[a]
        /\ dp[a][d] = f => Programmed(a, d) /\ f \in sealed[a]

Backed(a, d) ==
    Alone(d) => /\ KernelLetsGo => VrfBehind(a, d)
                /\ PassesFinish => SealBehind(a, d)

AllBacked == \A a \in Agents, d \in Domains : Backed(a, d)

Held == Listed /\ DeletedOwn /\ DormantKnown /\ AllBacked

-----------------------------------------------------------------------------
(* What a handler leaves alone                                             *)

\* The id f on node a, everything but that, and what the process has of d.
SameKernel(a, f) ==
    /\ f \in vrf'[a] <=> f \in vrf[a]
    /\ f \in sealed'[a] <=> f \in sealed[a]
    /\ gw'[a][f] = gw[a][f]
Elsewhere(a, f) ==
    /\ \A g \in Fids \ {f} : SameKernel(a, g)
    /\ \A b \in Agents \ {a}, g \in Fids : SameKernel(b, g)
SameMemory(a, d) ==
    /\ known'[a][d] = known[a][d]
    /\ dp'[a][d] = dp[a][d]
    /\ d \in dormant'[a] <=> d \in dormant[a]

\* A domain whose memory and id nobody touched stays backed.
LEMMA BackedKept ==
    ASSUME UNCHANGED fidOf, NEW a \in Agents, NEW d \in Domains,
           SameMemory(a, d), Alone(d) => SameKernel(a, fidOf[d]), Backed(a, d)
    PROVE  Backed(a, d)'
  <1> SUFFICES ASSUME Alone(d) PROVE Backed(a, d)'
    BY DEF Backed, Alone
  <1>1. (KernelLetsGo => VrfBehind(a, d)) /\ (PassesFinish => SealBehind(a, d))
    BY DEF Backed
  <1>2. VrfBehind(a, d) => VrfBehind(a, d)'
    BY DEF VrfBehind, Programmed, SameMemory, SameKernel
  <1>3. SealBehind(a, d) => SealBehind(a, d)'
    BY DEF SealBehind, Programmed, SameMemory, SameKernel
  <1> QED  BY <1>1, <1>2, <1>3 DEF Backed, KernelLetsGo, PassesFinish

\* delete_domain for the domain an id was given to: what it takes of the id.
LEMMA DeleteTakes ==
    ASSUME NodeTypes, RecordOwn, NEW a \in Agents, NEW d \in Domains,
           NEW f \in Fids \cup {NoFid}, f \in {fidOf[d], NoFid},
           NEW k, DeleteDomain(a, d, f, k), fidOf[d] \in Fids
    PROVE  /\ dp'[a][d] = NoFid
           /\ fidOf[d] \in vrf'[a] => fidOf[d] \in vrf[a]
           /\ f = fidOf[d] \/ dp[a][d] = fidOf[d] =>
                /\ k # "port" => gw'[a][fidOf[d]] = {}
                /\ k \notin {"vrf", "raise"} => fidOf[d] \notin vrf'[a]
           /\ f # fidOf[d] /\ dp[a][d] # fidOf[d] => SameKernel(a, fidOf[d])
           /\ Elsewhere(a, fidOf[d])
  <1> DEFINE gone == IF dp[a][d] # NoFid THEN dp[a][d] ELSE f
  <1>1. /\ gone = IF f = fidOf[d] \/ dp[a][d] = fidOf[d] THEN fidOf[d] ELSE NoFid
        /\ dp[a][d] # NoFid => dp[a][d] = fidOf[d]
    BY DomainSyncAssumption DEF RecordOwn
  <1>2. Erase(a, {gone}, k) /\ dp' = [dp EXCEPT ![a][d] = NoFid]
    BY DEF DeleteDomain
  <1> HIDE DEF gone
  <1>3. \A g \in Fids : /\ g \in vrf'[a] <=> g \in vrf[a] /\ (g # gone \/ k \in {"vrf", "raise"})
                        /\ g \in sealed'[a] <=> g \in sealed[a] /\ (g # gone \/ k = "raise")
                        /\ gw'[a][g] = IF g = gone /\ k # "port" THEN {} ELSE gw[a][g]
    BY <1>2 DEF Erase, NodeTypes
  <1>4. \A b \in Agents \ {a}, g \in Fids : SameKernel(b, g)
    BY <1>2 DEF Erase, NodeTypes, SameKernel
  <1>5. dp'[a][d] = NoFid
    BY <1>2 DEF NodeTypes
  <1> QED  BY <1>1, <1>3, <1>4, <1>5, DomainSyncAssumption DEF SameKernel, Elsewhere

\* ensure_domain and what follows it, for the payload's own id.
LEMMA ProgramAdds ==
    ASSUME NodeTypes, NEW a \in Agents, NEW d \in Domains, NEW p \in Payload,
           NEW k, Program(a, d, p, k)
    PROVE  /\ Fault(k)
           /\ d \notin dormant'[a] /\ p.fid \in vrf'[a]
           /\ \/ /\ k = "seal"
                 /\ UNCHANGED <<dp, sealed, gw, known>>
              \/ /\ k # "seal"
                 /\ dp'[a][d] = p.fid /\ p.fid \in sealed'[a]
                 /\ known'[a][d] = IF k = "late" THEN known[a][d] ELSE p
           /\ Elsewhere(a, p.fid)
  <1>1. /\ Fault(k)
        /\ dormant' = [dormant EXCEPT ![a] = @ \ {d}]
        /\ vrf' = [vrf EXCEPT ![a] = @ \cup {p.fid}]
    BY Zenon DEF Program
  <1>2. \A b \in Agents, g \in Fids : b # a \/ g # p.fid => (g \in vrf'[b] <=> g \in vrf[b])
    BY <1>1 DEF NodeTypes
  <1>3. d \notin dormant'[a] /\ p.fid \in vrf'[a]
    BY <1>1 DEF NodeTypes
  <1>4. CASE k = "seal" /\ UNCHANGED <<dp, sealed, gw, known>>
    BY <1>1, <1>2, <1>3, <1>4 DEF SameKernel, Elsewhere
  <1>5. ASSUME NEW G, k # "seal",
               dp' = [dp EXCEPT ![a][d] = p.fid],
               sealed' = [sealed EXCEPT ![a] = @ \cup {p.fid}],
               gw' = [gw EXCEPT ![a][p.fid] = G],
               known' = IF k = "late" THEN known ELSE [known EXCEPT ![a][d] = p]
        PROVE  /\ dp'[a][d] = p.fid /\ p.fid \in sealed'[a]
               /\ known'[a][d] = IF k = "late" THEN known[a][d] ELSE p
               /\ Elsewhere(a, p.fid)
    <2>1. \A b \in Agents, g \in Fids : b # a \/ g # p.fid =>
              (g \in sealed'[b] <=> g \in sealed[b]) /\ gw'[b][g] = gw[b][g]
      BY <1>5 DEF NodeTypes
    <2>2. dp'[a][d] = p.fid /\ p.fid \in sealed'[a]
      BY <1>5 DEF NodeTypes
    <2>3. known'[a][d] = IF k = "late" THEN known[a][d] ELSE p
      BY <1>5 DEF NodeTypes, Payloads
    <2> QED  BY <1>2, <2>1, <2>2, <2>3 DEF SameKernel, Elsewhere
  <1> QED  BY <1>1, <1>3, <1>4, <1>5, Zenon DEF Program

-----------------------------------------------------------------------------
(* A payload of its own, applied                                           *)

\* _retire_domain: a domain that was programmed, or whose VRF is there, is
\* deleted; of another there is nothing to delete.
LEMMA RetireBacked ==
    ASSUME NodeTypes, RecordOwn, UNCHANGED fidOf, NEW a \in Agents, NEW d \in Domains,
           NEW p \in Payload, Own(d, p), Retire(a, d, p), Backed(a, d)
    PROVE  Backed(a, d)' /\ Elsewhere(a, fidOf[d])
  <1> DEFINE f == fidOf[d]
  <1>1. PICK k \in DeleteKinds \cup {"list"} :
        LET present == IF k = "list" THEN {} ELSE vrf[a]
            here == Programmed(a, d) \/ p.fid \in present
        IN  /\ Fault(k)
            /\ dormant' = [dormant EXCEPT ![a] = @ \ {d}]
            /\ \/ here /\ DeleteDomain(a, d, p.fid, k)
               \/ ~here /\ k \in {"ok", "list"} /\ UNCHANGED <<kernel, dp>>
            /\ known' = IF k = "raise" THEN known
                        ELSE [known EXCEPT ![a][d] = NoPayload]
    BY Zenon DEF Retire
  <1>2. f \in Fids /\ p.fid = f
    BY DEF Own, Payload
  <1>3. /\ d \notin dormant'[a]
        /\ known'[a][d] = IF k = "raise" THEN known[a][d] ELSE NoPayload
    BY <1>1 DEF NodeTypes, Payloads
  <1>4. k \in FaultKinds \/ k = "ok"
    BY <1>1 DEF Fault
  <1>5. CASE DeleteDomain(a, d, p.fid, k)
    <2>1. /\ dp'[a][d] = NoFid
          /\ f \in vrf'[a] => f \in vrf[a]
          /\ k # "port" => gw'[a][f] = {}
          /\ Elsewhere(a, f)
      BY <1>2, <1>5, DeleteTakes
    <2>2. KernelLetsGo => VrfBehind(a, d)'
      BY <1>2, <1>3, <1>4, <2>1, DomainSyncAssumption DEF KernelLetsGo, VrfBehind
    <2>3. PassesFinish => SealBehind(a, d)'
      BY <1>2, <1>4, <2>1, DomainSyncAssumption DEF PassesFinish, SealBehind
    <2> QED  BY <2>1, <2>2, <2>3 DEF Backed, KernelLetsGo, PassesFinish
  <1>6. CASE ~Programmed(a, d) /\ k # "raise" /\ UNCHANGED <<kernel, dp>>
    <2>1. Elsewhere(a, f) /\ SameKernel(a, f) /\ dp' = dp
      BY <1>6 DEF Elsewhere, SameKernel, kernel
    <2>2. ASSUME Alone(d), KernelLetsGo PROVE VrfBehind(a, d)'
      <3>1. VrfBehind(a, d) /\ k # "list"
        BY <1>4, <2>2 DEF Backed, KernelLetsGo
      <3> QED  BY <1>3, <1>6, <2>1, <3>1 DEF VrfBehind, SameKernel, Programmed
    <2>3. ASSUME Alone(d), PassesFinish PROVE SealBehind(a, d)'
      <3>1. SealBehind(a, d)
        BY <2>3 DEF Backed
      <3> QED  BY <1>6, <2>1, <3>1 DEF SealBehind, SameKernel
    <2> QED  BY <2>1, <2>2, <2>3 DEF Backed, KernelLetsGo, PassesFinish, Alone
  <1> QED  BY <1>1, <1>5, <1>6

\* _make_dormant: the same, but for a domain that is dormant already.
LEMMA MakeDormantBacked ==
    ASSUME NodeTypes, RecordOwn, UNCHANGED fidOf, NEW a \in Agents, NEW d \in Domains,
           NEW p \in Payload, Own(d, p), MakeDormant(a, d, p), Backed(a, d),
           d \in dormant[a] => known[a][d] # NoPayload
    PROVE  /\ Backed(a, d)' /\ Elsewhere(a, fidOf[d])
           /\ d \in dormant'[a] => known'[a][d] # NoPayload
  <1> DEFINE f == fidOf[d]
  <1>1. PICK k \in DeleteKinds \cup {"list"} :
        LET present == IF k = "list" THEN {} ELSE vrf[a]
            here == d \notin dormant[a] /\ (Programmed(a, d) \/ p.fid \in present)
        IN  /\ Fault(k)
            /\ \/ here /\ DeleteDomain(a, d, p.fid, k)
               \/ ~here /\ k \in {"ok", "list"} /\ UNCHANGED <<kernel, dp>>
            /\ known' = IF k = "raise" THEN known ELSE [known EXCEPT ![a][d] = p]
            /\ dormant' = IF k = "raise" THEN dormant
                          ELSE [dormant EXCEPT ![a] = @ \cup {d}]
    BY Zenon DEF MakeDormant
  <1>2. f \in Fids /\ p.fid = f /\ p # NoPayload
    BY DomainSyncAssumption DEF Own, Payload
  <1>3. /\ k = "raise" => (d \in dormant'[a] <=> d \in dormant[a]) /\ known'[a][d] = known[a][d]
        /\ k # "raise" => d \in dormant'[a] /\ known'[a][d] = p
    BY <1>1 DEF NodeTypes, Payloads
  <1>4. k \in FaultKinds \/ k = "ok"
    BY <1>1 DEF Fault
  <1>5. CASE d \notin dormant[a] /\ DeleteDomain(a, d, p.fid, k)
    <2>1. /\ dp'[a][d] = NoFid
          /\ f \in vrf'[a] => f \in vrf[a]
          /\ k # "port" => gw'[a][f] = {}
          /\ k \notin {"vrf", "raise"} => f \notin vrf'[a]
          /\ Elsewhere(a, f)
      BY <1>2, <1>5, DeleteTakes
    <2>2. KernelLetsGo => VrfBehind(a, d)'
      BY <1>2, <1>3, <1>4, <1>5, <2>1, DomainSyncAssumption DEF KernelLetsGo, VrfBehind
    <2>3. PassesFinish => SealBehind(a, d)'
      BY <1>2, <1>4, <2>1, DomainSyncAssumption DEF PassesFinish, SealBehind
    <2> QED  BY <1>2, <1>3, <2>1, <2>2, <2>3 DEF Backed, KernelLetsGo, PassesFinish
  <1>6. CASE /\ d \in dormant[a] \/ (~Programmed(a, d) /\ (k = "list" \/ f \notin vrf[a]))
             /\ k # "raise" /\ UNCHANGED <<kernel, dp>>
    <2>1. Elsewhere(a, f) /\ SameKernel(a, f) /\ dp' = dp
      BY <1>6 DEF Elsewhere, SameKernel, kernel
    <2>2. ASSUME Alone(d), KernelLetsGo PROVE VrfBehind(a, d)'
      <3>1. VrfBehind(a, d) /\ k # "list"
        BY <1>4, <2>2 DEF Backed, KernelLetsGo
      <3> QED  BY <1>3, <1>6, <2>1, <3>1 DEF VrfBehind, SameKernel, Programmed
    <2>3. ASSUME Alone(d), PassesFinish PROVE SealBehind(a, d)'
      <3>1. SealBehind(a, d) /\ dp[a][d] # f
        BY <1>6, <2>3 DEF Backed, SealBehind, Programmed
      <3> QED  BY <2>1, <3>1 DEF SealBehind, SameKernel
    <2> QED  BY <1>2, <1>3, <1>6, <2>1, <2>2, <2>3 DEF Backed, KernelLetsGo, PassesFinish, Alone
  <1> QED  BY <1>1, <1>2, <1>5, <1>6

\* The rest of _apply_domain: the VRF comes first, the record last.
LEMMA ProgramBacked ==
    ASSUME NodeTypes, RecordOwn, UNCHANGED fidOf, NEW a \in Agents, NEW d \in Domains,
           NEW p \in Payload, Own(d, p), NEW k, Program(a, d, p, k), Backed(a, d)
    PROVE  Backed(a, d)' /\ Elsewhere(a, fidOf[d]) /\ d \notin dormant'[a]
  <1> DEFINE f == fidOf[d]
  <1>1. f \in Fids /\ p.fid = f /\ p # NoPayload
    BY DomainSyncAssumption DEF Own, Payload
  <1>2. /\ d \notin dormant'[a] /\ f \in vrf'[a] /\ Elsewhere(a, f)
        /\ \/ k = "seal" /\ UNCHANGED <<dp, sealed, gw, known>>
           \/ /\ dp'[a][d] = f /\ f \in sealed'[a]
              /\ known'[a][d] = IF k = "late" THEN known[a][d] ELSE p
    BY <1>1, ProgramAdds
  <1>3. VrfBehind(a, d)'
    BY <1>2 DEF VrfBehind
  <1>4. ASSUME Alone(d), PassesFinish PROVE SealBehind(a, d)'
    <2>1. SealBehind(a, d) /\ k # "late"
      BY <1>4, ProgramAdds DEF Backed, PassesFinish, Fault
    <2> QED  BY <1>1, <1>2, <2>1 DEF SealBehind, Programmed
  <1> QED  BY <1>2, <1>3, <1>4 DEF Backed, PassesFinish, Alone

\* So whatever a payload leads to, its own domain stays backed and no other id
\* is touched.
LEMMA ApplyBacked ==
    ASSUME NodeTypes, RecordOwn, UNCHANGED fidOf, NEW a \in Agents, NEW d \in Domains,
           NEW p \in Payload, Own(d, p), NEW s, ApplyDomain(a, d, p, s), Backed(a, d),
           d \in dormant[a] => known[a][d] # NoPayload
    PROVE  /\ Backed(a, d)' /\ Elsewhere(a, fidOf[d])
           /\ d \in dormant'[a] => known'[a][d] # NoPayload
  <1>1. CASE Retire(a, d, p)
    <2>1. d \notin dormant'[a]
      BY <1>1 DEF Retire, NodeTypes
    <2> QED  BY <1>1, <2>1, RetireBacked
  <1>2. \/ Retire(a, d, p) \/ MakeDormant(a, d, p)
        \/ \E k \in {"ok", "seal", "gateway", "late", "ovsdb"} : Program(a, d, p, k)
    BY Zenon DEF ApplyDomain
  <1> QED  BY <1>1, <1>2, MakeDormantBacked, ProgramBacked

\* An operation on behalf of one domain of one process concerns no other.
LEMMA OneBacked ==
    ASSUME AllBacked, UNCHANGED fidOf, NEW a \in Agents, NEW d \in Domains,
           OnlyFor(a, d), Elsewhere(a, fidOf[d]), Backed(a, d)'
    PROVE  AllBacked'
  <1> SUFFICES ASSUME NEW b \in Agents, NEW e \in Domains PROVE Backed(b, e)'
    BY DEF AllBacked
  <1>1. CASE b = a /\ e = d
    BY <1>1
  <1>2. CASE b # a \/ e # d
    <2>1. SameMemory(b, e)
      BY <1>2 DEF OnlyFor, SameMemory
    <2>2. ASSUME Alone(e) PROVE SameKernel(b, fidOf[e])
      BY <1>2, <2>2 DEF Alone, Elsewhere
    <2> QED  BY <2>1, <2>2, BackedKept DEF AllBacked
  <1> QED  BY <1>1, <1>2

\* And it makes no other domain dormant.
LEMMA OneKnown ==
    ASSUME DormantKnown, NodeTypes', NEW a \in Agents, NEW d \in Domains,
           OnlyFor(a, d), d \in dormant'[a] => known'[a][d] # NoPayload
    PROVE  DormantKnown'
  <1> SUFFICES ASSUME NEW b \in Agents, NEW e \in dormant'[b]
               PROVE  known'[b][e] # NoPayload
    BY DEF DormantKnown
  <1>1. e \in Domains
    BY DEF NodeTypes
  <1> QED  BY <1>1 DEF DormantKnown, OnlyFor

-----------------------------------------------------------------------------
(* Deletions, and what becomes of gateways                                 *)

\* domain_deleted and the stale domains of a sync: forgotten and erased.
LEMMA ForgottenBacked ==
    ASSUME NodeTypes, RecordOwn, UNCHANGED fidOf, AllBacked,
           NEW a \in Agents, NEW d \in Domains, fidOf[d] \in Fids,
           NEW f \in {fidOf[d], NoFid}, NEW k, Fault(k), DeleteDomain(a, d, f, k),
           known' = [known EXCEPT ![a][d] = NoPayload],
           dormant' = [dormant EXCEPT ![a] = @ \ {d}]
    PROVE  OnlyFor(a, d) /\ Elsewhere(a, fidOf[d]) /\ AllBacked'
  <1> DEFINE g == fidOf[d]
  <1>1. /\ dp'[a][d] = NoFid
        /\ g \in vrf'[a] => g \in vrf[a]
        /\ k # "port" => gw'[a][g] = {} \/ SameKernel(a, g)
        /\ Elsewhere(a, g)
    BY DeleteTakes
  <1>2. OnlyFor(a, d)
    BY DEF OnlyFor, NodeTypes, Payloads, DeleteDomain
  <1>3. d \notin dormant'[a] /\ known'[a][d] = NoPayload
    BY DEF NodeTypes, Payloads
  <1>4. ASSUME Alone(d), KernelLetsGo PROVE VrfBehind(a, d)'
    <2>1. VrfBehind(a, d) /\ k # "port"
      BY <1>4 DEF AllBacked, Backed, KernelLetsGo, Fault
    <2> QED  BY <1>1, <1>3, <2>1 DEF VrfBehind, SameKernel, Programmed
  <1>5. ASSUME Alone(d), PassesFinish PROVE SealBehind(a, d)'
    <2>1. SealBehind(a, d) /\ k # "port"
      BY <1>5 DEF AllBacked, Backed, PassesFinish, Fault
    <2> QED  BY <1>1, <2>1, DomainSyncAssumption DEF SealBehind, SameKernel
  <1>6. Backed(a, d)'
    BY <1>4, <1>5 DEF Backed, KernelLetsGo, PassesFinish, Alone
  <1> QED  BY <1>1, <1>2, <1>6, OneBacked

\* Steps that leave the memory and the VRFs alone, and make gateways only where
\* the record of a programmed domain says so.
LEMMA GatewaysBacked ==
    ASSUME AllBacked, UNCHANGED <<fidOf, memory, vrf, sealed>>,
           \A a \in Agents, d \in Domains : Alone(d) /\ gw'[a][fidOf[d]] # {} =>
               gw[a][fidOf[d]] # {} \/ (dp[a][d] = fidOf[d] /\ Programmed(a, d))
    PROVE  AllBacked'
  <1> SUFFICES ASSUME NEW a \in Agents, NEW d \in Domains, Alone(d) PROVE Backed(a, d)'
    BY DEF AllBacked, Backed, Alone
  <1>1. VrfBehind(a, d) => VrfBehind(a, d)'
    BY DEF VrfBehind, Programmed, memory
  <1>2. SealBehind(a, d) => SealBehind(a, d)'
    BY DEF SealBehind, Programmed, memory
  <1> QED  BY <1>1, <1>2 DEF AllBacked, Backed, KernelLetsGo, PassesFinish

-----------------------------------------------------------------------------
(* The steps, for what the kernel holds                                    *)

\* A server request concerns no node, but a domain that gets an id that was
\* another's is not alone, and one that gets a fresh id finds nothing of it.
LEMMA ServerKeepsBacked ==
    ASSUME Inv, Provenance, DormantKnown, AllBacked, ServerNext
    PROVE  DormantKnown' /\ AllBacked'
  <1>1. UNCHANGED agents
    BY DEF ServerNext, Create, Update, Delete, Push, Detach, DropNetwork, Attach
  <1>2. DormantKnown'
    BY <1>1 DEF DormantKnown, agents, memory
  <1>3. CASE UNCHANGED fidOf
    <2>1. UNCHANGED <<memory, vrf, sealed, gw>>
      BY <1>1 DEF agents, kernel
    <2> QED  BY <1>2, <1>3, <2>1, GatewaysBacked
  <1>4. ASSUME NEW c \in Domains, Create(c) PROVE AllBacked'
    <2>1. PICK f \in Fids : fidOf' = [fidOf EXCEPT ![c] = f]
      BY <1>4 DEF Create
    <2>2. fidOf[c] = NoFid /\ fidOf'[c] = f
          /\ \A d \in Domains : d # c => fidOf'[d] = fidOf[d]
      BY <1>4, <2>1 DEF Create, Inv, TypeOK
    <2> SUFFICES ASSUME NEW a \in Agents, NEW d \in Domains, Alone(d)'
                 PROVE  Backed(a, d)'
      BY DEF AllBacked, Backed
    <2>3. CASE d # c
      <3>1. fidOf'[d] = fidOf[d] /\ Alone(d)
        BY <2>2, <2>3, DomainSyncAssumption DEF Alone
      <3>2. SameMemory(a, d) /\ SameKernel(a, fidOf[d])
        BY <1>1 DEF SameMemory, SameKernel, agents, memory, kernel
      <3>3. VrfBehind(a, d) => VrfBehind(a, d)'
        BY <3>1, <3>2 DEF VrfBehind, Programmed, SameMemory, SameKernel
      <3>4. SealBehind(a, d) => SealBehind(a, d)'
        BY <3>1, <3>2 DEF SealBehind, Programmed, SameMemory, SameKernel
      <3> QED  BY <3>1, <3>3, <3>4 DEF AllBacked, Backed, KernelLetsGo, PassesFinish
    <2>4. CASE d = c
      <3>1. gw[a][f] = {}
        <4>1. \A e \in Domains : fidOf[e] # f
          BY <2>2, <2>4, DomainSyncAssumption DEF Alone
        <4> QED  BY <4>1 DEF Provenance, GatewayOwn, Justified
      <3>2. dp[a][d] = NoFid
        BY <2>2, <2>4 DEF Provenance, RecordOwn
      <3>3. d \notin dormant[a]
        <4> SUFFICES ASSUME d \in dormant[a] PROVE FALSE
          OBVIOUS
        <4>1. known[a][d] \in Payload /\ Own(d, known[a][d])
          BY DEF DormantKnown, Provenance, KnownOwn, Inv, TypeOK, Payloads
        <4> QED  BY <2>2, <2>4, <4>1, DomainSyncAssumption DEF Own, Payload
      <3>4. UNCHANGED <<gw, dp, dormant>>
        BY <1>1 DEF agents, memory, kernel
      <3> QED  BY <2>2, <2>4, <3>1, <3>2, <3>3, <3>4, DomainSyncAssumption
               DEF Backed, VrfBehind, SealBehind
    <2> QED  BY <2>3, <2>4
  <1> QED  BY <1>2, <1>3, <1>4
           DEF ServerNext, Update, Delete, Push, Detach, DropNetwork, Attach, server

\* What is quiet for the node: a lost message, the call, the answer and the end
\* of a sync, a port that comes or goes before its callback.
LEMMA QuietBacked ==
    ASSUME DormantKnown, AllBacked, UNCHANGED <<server, memory, kernel>>
    PROVE  DormantKnown' /\ AllBacked'
  <1>1. DormantKnown'
    BY DEF DormantKnown, memory
  <1> QED  BY <1>1, GatewaysBacked DEF server, kernel

\* A payload applied, from a cast or from a reply.
LEMMA PayloadBacked ==
    ASSUME Inv, Provenance, DormantKnown, AllBacked, UNCHANGED <<server, ovs>>,
           NEW a \in Agents, NEW d \in Domains, NEW p \in Payload, Own(d, p), NEW s,
           ApplyDomain(a, d, p, s)
    PROVE  DormantKnown' /\ AllBacked'
  <1>1. NodeTypes /\ RecordOwn /\ UNCHANGED fidOf /\ Backed(a, d)
        /\ (d \in dormant[a] => known[a][d] # NoPayload)
        /\ bound \in [Agents -> SUBSET Networks]
    BY DEF Inv, TypeOK, NodeTypes, Provenance, DormantKnown, AllBacked, server
  <1>2. NodeTypes' /\ OnlyFor(a, d)
    BY <1>1, ApplyLocal
  <1>3. /\ Backed(a, d)' /\ Elsewhere(a, fidOf[d])
        /\ d \in dormant'[a] => known'[a][d] # NoPayload
    BY <1>1, ApplyBacked
  <1>4. AllBacked'
    BY <1>1, <1>2, <1>3, OneBacked
  <1>5. DormantKnown'
    BY <1>2, <1>3, OneKnown
  <1> QED  BY <1>4, <1>5

\* domain_updated.
LEMMA DomainUpdatedBacked ==
    ASSUME Inv, Provenance, DormantKnown, AllBacked, NEW a \in Agents, DomainUpdated(a)
    PROVE  DormantKnown' /\ AllBacked'
  <1>1. PICK m \in msgs[a] :
           /\ m.type = "updated"
           /\ \/ UNCHANGED <<known, dormant, dp, kernel, faults>>
              \/ ApplyDomain(a, m.id, m.payload, FALSE)
    BY DEF DomainUpdated
  <1>2. UNCHANGED <<server, tomb, ovs>>
    BY DEF DomainUpdated
  <1>3. CASE UNCHANGED <<known, dormant, dp, kernel, faults>>
    BY <1>2, <1>3, QuietBacked DEF memory
  <1>4. CASE ApplyDomain(a, m.id, m.payload, FALSE)
    <2>1. m \in Message /\ Own(m.id, m.payload)
      BY <1>1 DEF Inv, TypeOK, Provenance, MsgsOwn
    <2> QED  BY <1>1, <1>2, <1>4, <2>1, MessageFields, PayloadBacked
  <1> QED  BY <1>1, <1>3, <1>4

\* One domain of a reply.
LEMMA SyncApplyBacked ==
    ASSUME Inv, Provenance, DormantKnown, AllBacked, NEW a \in Agents, SyncApply(a)
    PROVE  DormantKnown' /\ AllBacked'
  <1>1. PICK d \in Domains :
           /\ sync[a].reply[d] # NoPayload
           /\ ApplyDomain(a, d, sync[a].reply[d], TRUE)
    BY DEF SyncApply
  <1>2. UNCHANGED <<server, ovs>>
    BY DEF SyncApply
  <1>3. sync[a].reply[d] \in Payload /\ Own(d, sync[a].reply[d])
    BY <1>1 DEF Inv, TypeOK, Sync, Payloads, Provenance, SyncOwn
  <1> QED  BY <1>1, <1>2, <1>3, PayloadBacked

\* domain_deleted and SyncRemoveStale.
LEMMA RemovalBacked ==
    ASSUME Inv, Provenance, DeletedOwn, DormantKnown, AllBacked, NEW a \in Agents,
           DomainDeleted(a) \/ SyncRemoveStale(a)
    PROVE  DormantKnown' /\ AllBacked'
  <1>1. PICK d, k, f :
           /\ d \in Domains /\ fidOf[d] \in Fids /\ f \in {fidOf[d], NoFid}
           /\ Fault(k) /\ DeleteDomain(a, d, f, k)
           /\ known' = [known EXCEPT ![a][d] = NoPayload]
           /\ dormant' = [dormant EXCEPT ![a] = @ \ {d}]
    <2>1. CASE DomainDeleted(a)
      <3>1. PICK m \in msgs[a], k \in DeleteKinds :
              /\ m.type = "deleted" /\ Fault(k)
              /\ DeleteDomain(a, m.id, m.fid, k)
              /\ known' = [known EXCEPT ![a][m.id] = NoPayload]
              /\ dormant' = [dormant EXCEPT ![a] = @ \ {m.id}]
        BY <2>1 DEF DomainDeleted
      <3>2. m.id \in Domains /\ m.fid \in Fids /\ m.fid = fidOf[m.id]
        BY <3>1, MessageFields DEF Inv, TypeOK, DeletedOwn
      <3> QED  BY <3>1, <3>2
    <2>2. CASE SyncRemoveStale(a)
      <3>1. PICK d \in Stale(a), k \in DeleteKinds :
              /\ Fault(k) /\ DeleteDomain(a, d, NoFid, k)
              /\ known' = [known EXCEPT ![a][d] = NoPayload]
              /\ dormant' = [dormant EXCEPT ![a] = @ \ {d}]
        BY <2>2 DEF SyncRemoveStale
      <3>2. d \in Domains /\ known[a][d] \in Payload /\ Own(d, known[a][d])
        BY DEF Stale, Inv, TypeOK, Payloads, Provenance, KnownOwn
      <3> QED  BY <3>1, <3>2 DEF Own, Payload
    <2> QED  BY <2>1, <2>2
  <1>2. NodeTypes /\ RecordOwn /\ UNCHANGED fidOf
    BY DEF Inv, TypeOK, NodeTypes, Provenance, DomainDeleted, SyncRemoveStale, server
  <1>3. OnlyFor(a, d) /\ AllBacked'
    BY <1>1, <1>2, ForgottenBacked
  <1>4. DormantKnown'
    <2>1. NodeTypes' /\ d \in Domains /\ d \notin dormant'[a]
      BY <1>1, <1>2, DeleteDomainLocal, FaultTyped DEF NodeTypes, Payloads
    <2> QED  BY <1>3, <2>1, OneKnown
  <1> QED  BY <1>3, <1>4

\* The ids of the domains in a reply, which the garbage collector leaves alone.
WantedIds(a) == {sync[a].reply[d].fid : d \in {e \in Domains : sync[a].reply[e] # NoPayload}}

\* _collect_kernel_orphans: what it takes of the other ids.
LEMMA CollectTakes ==
    ASSUME TypeOK, NEW a \in Agents, SyncCollect(a)
    PROVE  /\ \A b \in Agents, f \in Fids : b # a \/ f \in WantedIds(a) => SameKernel(b, f)
           /\ \A f \in Fids : f \in vrf'[a] => f \in vrf[a]
           /\ \A f \in Fids : SameKernel(a, f) \/ gw'[a][f] = {} \/ "port" \in FaultKinds
  <1> DEFINE orphans == vrf[a] \ WantedIds(a)
  <1> USE DEF TypeOK
  <1>1. \/ Erase(a, orphans, "ok")
        \/ UNCHANGED kernel
        \/ \E f \in orphans, k \in DeleteKinds \ {"ok"} : Fault(k) /\ EraseFailing(a, orphans, f, k)
    BY Zenon DEF SyncCollect, WantedIds
  <1>2. \A f \in Fids : f \in WantedIds(a) => f \notin orphans
    OBVIOUS
  <1> HIDE DEF orphans
  <1>3. CASE Erase(a, orphans, "ok")
    BY <1>2, <1>3 DEF Erase, SameKernel
  <1>4. CASE UNCHANGED kernel
    BY <1>4 DEF kernel, SameKernel
  <1>5. ASSUME NEW g \in orphans, NEW k \in DeleteKinds \ {"ok"}, Fault(k),
               EraseFailing(a, orphans, g, k)
        PROVE  /\ \A b \in Agents, f \in Fids : b # a \/ f \notin orphans => SameKernel(b, f)
               /\ \A f \in Fids : f \in vrf'[a] => f \in vrf[a]
               /\ \A f \in Fids : SameKernel(a, f) \/ gw'[a][f] = {} \/ "port" \in FaultKinds
    <2>1. k = "port" => "port" \in FaultKinds
      BY <1>5 DEF Fault
    <2> QED  BY <1>5, <2>1 DEF EraseFailing, SameKernel
  <1> QED  BY <1>1, <1>2, <1>3, <1>4, <1>5

\* It takes nothing of a domain the process still knows: after the removal of
\* the stale ones, every one of those is in the reply.
LEMMA SyncCollectBacked ==
    ASSUME Inv, Provenance, DormantKnown, AllBacked, NEW a \in Agents, SyncCollect(a)
    PROVE  DormantKnown' /\ AllBacked'
  <1>1. UNCHANGED <<fidOf, memory>> /\ Stale(a) = {}
    BY DEF SyncCollect, server
  <1>2. DormantKnown'
    BY <1>1 DEF DormantKnown, memory
  <1>3. \A d \in Domains : known[a][d] # NoPayload => fidOf[d] \in WantedIds(a)
    <2> SUFFICES ASSUME NEW d \in Domains, known[a][d] # NoPayload
                 PROVE  fidOf[d] \in WantedIds(a)
      OBVIOUS
    <2>1. sync[a].reply[d] # NoPayload
      BY <1>1 DEF Stale
    <2>2. sync[a].reply[d].fid = fidOf[d]
      BY <2>1 DEF Provenance, SyncOwn, Own
    <2> QED  BY <2>1, <2>2 DEF WantedIds
  <1>4. AllBacked'
    <2> SUFFICES ASSUME NEW b \in Agents, NEW d \in Domains, Alone(d) PROVE Backed(b, d)'
      BY <1>1 DEF AllBacked, Backed, Alone
    <2> DEFINE f == fidOf[d]
    <2>1. SameMemory(b, d) /\ Backed(b, d) /\ f \in Fids
      BY <1>1 DEF SameMemory, memory, AllBacked, Alone
    <2>2. CASE SameKernel(b, f)
      BY <1>1, <2>1, <2>2, BackedKept
    <2>3. CASE b = a /\ f \notin WantedIds(a)
               /\ (f \in vrf'[a] => f \in vrf[a])
               /\ (gw'[a][f] = {} \/ "port" \in FaultKinds)
      <3>1. ~Programmed(a, d)
        BY <1>3, <2>3 DEF Programmed
      <3>2. KernelLetsGo => VrfBehind(a, d)'
        BY <1>1, <2>1, <2>3, <3>1
        DEF Backed, KernelLetsGo, VrfBehind, Programmed, SameMemory
      <3>3. PassesFinish => SealBehind(a, d)'
        BY <1>1, <2>1, <2>3, <3>1 DEF Backed, PassesFinish, SealBehind, SameMemory
      <3> QED  BY <2>3, <3>2, <3>3 DEF Backed, KernelLetsGo, PassesFinish
    <2>4. /\ \A c \in Agents, g \in Fids : c # a \/ g \in WantedIds(a) => SameKernel(c, g)
          /\ \A g \in Fids : g \in vrf'[a] => g \in vrf[a]
          /\ \A g \in Fids : SameKernel(a, g) \/ gw'[a][g] = {} \/ "port" \in FaultKinds
      BY CollectTakes DEF Inv
    <2> HIDE DEF f
    <2>5. b # a \/ f \in WantedIds(a) => SameKernel(b, f)
      BY <2>1, <2>4
    <2>6. f \in vrf'[a] => f \in vrf[a]
      BY <2>1, <2>4
    <2>7. SameKernel(a, f) \/ gw'[a][f] = {} \/ "port" \in FaultKinds
      BY <2>1, <2>4
    <2> QED  BY <2>2, <2>3, <2>5, <2>6, <2>7
  <1> QED  BY <1>2, <1>4

\* handle_port makes a gateway where the record of a programmed domain of the
\* network says so; delete_port makes none.
LEMMA PortBacked ==
    ASSUME Inv, Provenance, DormantKnown, AllBacked, NEW a \in Agents, NEW n \in Networks,
           HandlePort(a, n) \/ DeletePort(a, n)
    PROVE  DormantKnown' /\ AllBacked'
  <1>1. UNCHANGED <<fidOf, memory, vrf, sealed>>
    BY DEF HandlePort, DeletePort, server
  <1>2. \A f \in Fids : Reconciled(a)[f] \subseteq gw[a][f]
    BY DEF Reconciled
  <1>3. \A b \in Agents, f \in Fids : gw'[b][f] # {} =>
            gw[b][f] # {} \/ (b = a /\ HandlePort(a, n) /\ Gateways(a, n)[f] # {})
    <2>1. CASE DeletePort(a, n)
      <3>1. gw' = gw \/ gw' = [gw EXCEPT ![a] = Reconciled(a)]
        BY <2>1 DEF DeletePort
      <3> QED  BY <1>2, <3>1 DEF Inv, TypeOK
    <2>2. CASE HandlePort(a, n)
      <3>1. \E k : gw' = [gw EXCEPT ![a] = [f \in Fids |->
              IF k = "gateway" THEN (IF k = "ovsdb" THEN gw[a] ELSE Reconciled(a))[f]
              ELSE (IF k = "ovsdb" THEN gw[a] ELSE Reconciled(a))[f] \cup Gateways(a, n)[f]]]
        BY <2>2, Zenon DEF HandlePort
      <3> QED  BY <1>2, <2>2, <3>1 DEF Inv, TypeOK
    <2> QED  BY <2>1, <2>2
  <1>4. ASSUME NEW b \in Agents, NEW d \in Domains, Alone(d), gw'[b][fidOf[d]] # {}
        PROVE  gw[b][fidOf[d]] # {} \/ (dp[b][d] = fidOf[d] /\ Programmed(b, d))
    <2>1. fidOf[d] \in Fids
      BY <1>4 DEF Alone
    <2>2. CASE b = a /\ Gateways(a, n)[fidOf[d]] # {}
      <3>1. PICK e \in Serving(a, n) : e \notin dormant[a] /\ dp[a][e] = fidOf[d]
        BY <2>1, <2>2 DEF Gateways
      <3>2. e \in Domains /\ Programmed(a, e)
        BY <3>1 DEF Serving, Programmed
      <3>3. fidOf[e] = fidOf[d]
        BY <2>1, <3>1, <3>2, DomainSyncAssumption DEF Provenance, RecordOwn
      <3> QED  BY <1>4, <2>2, <3>1, <3>2, <3>3 DEF Alone
    <2> QED  BY <1>3, <1>4, <2>1, <2>2
  <1>5. AllBacked'
    BY <1>1, <1>4, GatewaysBacked
  <1> QED  BY <1>1, <1>5 DEF DormantKnown, memory

\* After a restart nothing is on record, and the kernel is what it was.
LEMMA RestartBacked ==
    ASSUME Inv, Provenance, DormantKnown, AllBacked, NEW a \in Agents, Restart(a)
    PROVE  DormantKnown' /\ AllBacked'
  <1>1. /\ known' = [known EXCEPT ![a] = Nothing]
        /\ dormant' = [dormant EXCEPT ![a] = {}]
        /\ dp' = [dp EXCEPT ![a] = [d \in Domains |-> NoFid]]
        /\ UNCHANGED <<fidOf, vrf, sealed, gw>>
    BY DEF Restart, server, kernel
  <1>2. DormantKnown'
    BY <1>1 DEF DormantKnown, Inv, TypeOK
  <1>3. ASSUME NEW b \in Agents, NEW d \in Domains PROVE Backed(b, d)'
    <2>1. CASE b # a
      <3>1. SameMemory(b, d) /\ SameKernel(b, fidOf[d])
        BY <1>1, <2>1 DEF SameMemory, SameKernel, Inv, TypeOK
      <3> QED  BY <1>1, <3>1, BackedKept DEF AllBacked
    <2>2. CASE b = a
      <3>1. dp'[a][d] = NoFid /\ d \notin dormant'[a]
        BY <1>1 DEF Inv, TypeOK
      <3>2. Alone(d) => NoFid # fidOf[d]
        BY DomainSyncAssumption DEF Alone
      <3>3. Alone(d) /\ VrfBehind(a, d) => VrfBehind(a, d)'
        BY <1>1, <3>1, <3>2 DEF VrfBehind
      <3>4. Alone(d) /\ SealBehind(a, d) => SealBehind(a, d)'
        BY <1>1, <3>1, <3>2 DEF SealBehind
      <3> QED  BY <1>1, <2>2, <3>3, <3>4
               DEF AllBacked, Backed, KernelLetsGo, PassesFinish, Alone
    <2> QED  BY <2>1, <2>2
  <1> QED  BY <1>2, <1>3 DEF AllBacked

-----------------------------------------------------------------------------
(* What a sync lists, and what is deleted                                  *)

\* The server's database is its own.
LEMMA AgentLeavesServer ==
    ASSUME AgentNext
    PROVE  UNCHANGED server
  <1>1. ASSUME NEW a \in Agents,
               \/ DomainUpdated(a) \/ DomainDeleted(a) \/ Lose(a) \/ SyncCall(a)
               \/ SyncReply(a) \/ SyncFail(a) \/ SyncDone(a)
        PROVE  UNCHANGED server
    BY <1>1, Zenon DEF DomainUpdated, DomainDeleted, Lose, SyncCall, SyncReply, SyncFail, SyncDone
  <1>2. ASSUME NEW a \in Agents,
               SyncRemoveStale(a) \/ SyncCollect(a) \/ SyncApply(a) \/ Restart(a)
        PROVE  UNCHANGED server
    BY <1>2, Zenon DEF SyncRemoveStale, SyncCollect, SyncApply, Restart
  <1>3. ASSUME NEW a \in Agents, NEW n \in Networks,
               PortUp(a, n) \/ PortDown(a, n) \/ HandlePort(a, n) \/ DeletePort(a, n)
        PROVE  UNCHANGED server
    BY <1>3, Zenon DEF PortUp, PortDown, HandlePort, DeletePort
  <1> QED  BY <1>1, <1>2, <1>3 DEF AgentNext

\* A sync nobody touches: a domain created meanwhile is in no listing.
LEMMA ListedStays ==
    ASSUME Inv, Provenance, Listed, UNCHANGED sync,
           \A d \in live' \ live : d \in Domains => fidOf[d] = NoFid
    PROVE  Listed'
  <1> SUFFICES ASSUME NEW a \in Agents, NEW d \in Domains,
                      sync[a].phase = "stale", d \in live', d \notin live
               PROVE  sync[a].reply[d] = sync[a].snap[d]
    BY DEF Listed
  <1>1. fidOf[d] = NoFid /\ sync[a].snap \in Payloads
    BY DEF Inv, TypeOK, Sync
  <1>2. sync[a].snap[d] = NoPayload
    <2> SUFFICES ASSUME sync[a].snap[d] # NoPayload PROVE FALSE
      OBVIOUS
    <2>1. sync[a].snap[d] \in Payload /\ Own(d, sync[a].snap[d])
      BY <1>1 DEF Payloads, Provenance, SyncOwn
    <2> QED  BY <1>1, <2>1, DomainSyncAssumption DEF Own, Payload
  <1> QED  BY <1>2 DEF Listed

\* A sync that starts, goes on or ends.
LEMMA ListedMoves ==
    ASSUME Listed, UNCHANGED live, NEW a \in Agents,
           \A b \in Agents : b # a => sync'[b] = sync[b],
           sync'[a].phase \in {"idle", "boot"} => \A d \in Domains : sync'[a].snap[d] = NoPayload,
           \A d \in Domains :
             /\ sync'[a].reply[d] \in {sync'[a].snap[d], NoPayload}
             /\ sync'[a].phase = "stale" /\ d \in live => sync'[a].reply[d] = sync'[a].snap[d]
    PROVE  Listed'
  <1> SUFFICES ASSUME NEW b \in Agents, NEW d \in Domains
               PROVE  /\ sync'[b].phase \in {"idle", "boot"} => sync'[b].snap[d] = NoPayload
                      /\ sync'[b].reply[d] \in {sync'[b].snap[d], NoPayload}
                      /\ sync'[b].phase = "stale" /\ d \in live => sync'[b].reply[d] = sync'[b].snap[d]
    BY DEF Listed
  <1> QED  BY DEF Listed

\* No step of an agent makes a reply lack a domain that still exists: the
\* listing is complete when it is made, and the server drops from it only what
\* vanished meanwhile.
LEMMA AgentKeepsListed ==
    ASSUME Inv, Provenance, Listed, AgentNext
    PROVE  Listed'
  <1>1. UNCHANGED live
    BY AgentLeavesServer DEF server
  <1>2. ASSUME NEW a \in Agents, StartSync(a) PROVE Listed'
    <2>1. \E new : sync' = [sync EXCEPT ![a] =
            [phase |-> "call", new |-> new, snap |-> Listing, reply |-> Nothing]]
      BY <1>2 DEF StartSync
    <2>2. sync'[a].phase = "call" /\ \A d \in Domains : sync'[a].reply[d] = NoPayload
      BY <2>1 DEF Nothing, Inv, TypeOK
    <2>3. \A b \in Agents : b # a => sync'[b] = sync[b]
      BY <2>1 DEF Inv, TypeOK
    <2> QED  BY <1>1, <2>2, <2>3, ListedMoves
  <1>3. ASSUME NEW a \in Agents, NEW r, sync' = [sync EXCEPT ![a] = r], r \in {NoSync, Boot}
        PROVE  Listed'
    <2>1. /\ sync'[a].phase \in {"idle", "boot"}
          /\ \A d \in Domains : sync'[a].reply[d] = NoPayload /\ sync'[a].snap[d] = NoPayload
      BY <1>3, NoSyncFields DEF Inv, TypeOK, NoSync, Boot
    <2>2. \A b \in Agents : b # a => sync'[b] = sync[b]
      BY <1>3 DEF Inv, TypeOK
    <2> QED  BY <1>1, <2>1, <2>2, ListedMoves
  <1>4. ASSUME NEW a \in Agents, SyncReply(a) PROVE Listed'
    <2>1. PICK S \in Built(sync[a].snap) :
            sync' = [sync EXCEPT ![a] = [@ EXCEPT !.phase = "stale",
                      !.reply = [d \in Domains |-> IF d \in S \ tomb[a]
                                                   THEN sync[a].snap[d]
                                                   ELSE NoPayload]]]
      BY <1>4 DEF SyncReply
    <2> DEFINE reply == [d \in Domains |-> IF d \in S \ tomb[a] THEN sync[a].snap[d]
                                           ELSE NoPayload]
               r == [sync[a] EXCEPT !.phase = "stale", !.reply = reply]
    <2>2. \A d \in Domains : /\ reply[d] \in {sync[a].snap[d], NoPayload}
                             /\ d \in live => reply[d] = sync[a].snap[d]
      <3> SUFFICES ASSUME NEW d \in Domains, d \in live, sync[a].snap[d] # NoPayload
                   PROVE  d \in S \ tomb[a]
        OBVIOUS
      <3>1. d \in S
        BY DEF Built
      <3>2. d \notin tomb[a]
        BY DEF Inv, DeletedIsDead, Dead
      <3> QED  BY <3>1, <3>2
    <2> HIDE DEF reply
    <2>3. r.phase = "stale" /\ r.snap = sync[a].snap /\ r.reply = reply
      BY DEF Inv, TypeOK, Sync
    <2>4. sync' = [sync EXCEPT ![a] = r]
      BY <2>1 DEF reply
    <2> HIDE DEF r
    <2>5. sync'[a] = r /\ \A b \in Agents : b # a => sync'[b] = sync[b]
      BY <2>4 DEF Inv, TypeOK
    <2> QED  BY <1>1, <2>2, <2>3, <2>5, ListedMoves
  <1>5. ASSUME NEW a \in Agents, SyncCollect(a) PROVE Listed'
    <2> DEFINE r == [sync[a] EXCEPT !.phase = "apply"]
    <2>1. r.phase = "apply" /\ r.snap = sync[a].snap /\ r.reply = sync[a].reply
      BY DEF Inv, TypeOK, Sync
    <2>2. sync' = [sync EXCEPT ![a] = r]
      BY <1>5 DEF SyncCollect
    <2> HIDE DEF r
    <2>3. sync'[a] = r /\ \A b \in Agents : b # a => sync'[b] = sync[b]
      BY <2>2 DEF Inv, TypeOK
    <2> QED  BY <1>1, <2>1, <2>3, ListedMoves DEF Listed
  <1>6. ASSUME NEW a \in Agents, SyncApply(a) PROVE Listed'
    <2>1. PICK d \in Domains : sync' = [sync EXCEPT ![a].reply[d] = NoPayload]
      BY <1>6 DEF SyncApply
    <2> DEFINE r == [sync[a] EXCEPT !.reply[d] = NoPayload]
    <2>2. /\ r.phase = "apply" /\ r.snap = sync[a].snap
          /\ r.reply = [sync[a].reply EXCEPT ![d] = NoPayload]
      BY <1>6 DEF SyncApply, Inv, TypeOK, Sync
    <2>3. sync' = [sync EXCEPT ![a] = r]
      BY <2>1
    <2> HIDE DEF r
    <2>4. sync'[a] = r /\ \A b \in Agents : b # a => sync'[b] = sync[b]
      BY <2>3 DEF Inv, TypeOK
    <2>5. \A e \in Domains : r.reply[e] \in {sync[a].reply[e], NoPayload}
      BY <2>2 DEF Inv, TypeOK, Sync, Payloads
    <2> QED  BY <1>1, <2>2, <2>4, <2>5, ListedMoves DEF Listed
  <1>7. ASSUME UNCHANGED sync PROVE Listed'
    BY <1>1, <1>7, ListedStays
  <1>8. ASSUME NEW a \in Agents,
               SyncCall(a) \/ SyncFail(a) \/ SyncDone(a) \/ Restart(a)
        PROVE  Listed'
    BY <1>2, <1>3, <1>8 DEF SyncCall, SyncFail, SyncDone, Restart
  <1>9. ASSUME NEW a \in Agents,
               DomainUpdated(a) \/ DomainDeleted(a) \/ Lose(a) \/ SyncRemoveStale(a)
        PROVE  Listed'
    BY <1>7, <1>9, Zenon DEF DomainUpdated, DomainDeleted, Lose, SyncRemoveStale
  <1>10. ASSUME NEW a \in Agents, NEW n \in Networks,
                PortUp(a, n) \/ PortDown(a, n) \/ HandlePort(a, n) \/ DeletePort(a, n)
         PROVE  Listed'
    BY <1>2, <1>7, <1>10 DEF PortUp, PortDown, HandlePort, DeletePort
  <1> QED  BY <1>4, <1>5, <1>6, <1>8, <1>9, <1>10 DEF AgentNext

\* What is cast about a deleted domain names the id it had, which it keeps.
LEMMA NextKeepsDeletedOwn ==
    ASSUME Inv, DeletedOwn, Next
    PROVE  DeletedOwn'
  <1>1. ASSUME \A d \in Domains : fidOf[d] # NoFid => fidOf'[d] = fidOf[d],
               \A a \in Agents : \A m \in msgs'[a] :
                   m \in msgs[a] \/ m.type = "updated" \/ m.fid = fidOf'[m.id]
        PROVE  DeletedOwn'
    <2> SUFFICES ASSUME NEW a \in Agents, NEW m \in msgs'[a], m.type = "deleted"
                 PROVE  m.fid = fidOf'[m.id]
      BY DEF DeletedOwn
    <2>1. CASE m \in msgs[a]
      <3>1. m.id \in Domains /\ fidOf[m.id] # NoFid /\ m.fid = fidOf[m.id]
        BY <2>1, MessageFields DEF Inv, TypeOK, DeletedIsDead, Dead, DeletedOwn
      <3> QED  BY <1>1, <3>1
    <2> QED  BY <1>1, <2>1
  <1>2. CASE ServerNext
    <2>1. \A d \in Domains : fidOf[d] # NoFid => fidOf'[d] = fidOf[d]
      BY <1>2 DEF ServerNext, Create, Update, Delete, Push, Detach, DropNetwork, Attach,
                  server, Inv, TypeOK
    <2>2. \A a \in Agents : \A m \in msgs'[a] :
              m \in msgs[a] \/ m.type = "updated" \/ m.fid = fidOf'[m.id]
      <3>1. ASSUME NEW d \in Domains, Update(d) \/ Push(d)
            PROVE  \A a \in Agents : \A m \in msgs'[a] : m \in msgs[a] \/ m.type = "updated"
        BY <3>1 DEF Update, Push, Cast, Updated
      <3>2. ASSUME NEW d \in Domains, Delete(d)
            PROVE  \A a \in Agents : \A m \in msgs'[a] : m \in msgs[a] \/ m.fid = fidOf'[m.id]
        BY <3>2 DEF Delete, Cast, Deleted
      <3>3. CASE UNCHANGED msgs
        BY <3>3
      <3> QED  BY <1>2, <3>1, <3>2, <3>3 DEF ServerNext, Create, Detach, DropNetwork, Attach
    <2> QED  BY <1>1, <2>1, <2>2
  <1>3. CASE AgentNext
    <2>1. fidOf' = fidOf
      BY <1>3, AgentLeavesServer DEF server
    <2>2. \A b \in Agents : \A m \in msgs'[b] : m \in msgs[b] \/ m.type = "updated"
      <3>1. ASSUME NEW a \in Agents, SyncReply(a) \/ SyncFail(a)
            PROVE  \A b \in Agents : \A m \in msgs'[b] : m \in msgs[b] \/ m.type = "updated"
        <4>1. sync[a].snap \in Payloads
          BY DEF Inv, TypeOK, Sync
        <4>2. \/ UNCHANGED msgs
              \/ \E S \in Built(sync[a].snap) : Rebroadcast(sync[a].new, sync[a].snap, S)
          BY <3>1 DEF SyncReply, SyncFail
        <4> QED  BY <4>1, <4>2, RebroadcastKeeps DEF Inv, TypeOK
      <3>2. ASSUME NEW a \in Agents, NEW m, Receive(a, m)
            PROVE  \A b \in Agents : \A w \in msgs'[b] : w \in msgs[b]
        BY <3>2, ReceiveKeeps DEF Inv, TypeOK
      <3>3. ASSUME NEW a \in Agents, Restart(a)
            PROVE  \A b \in Agents : msgs'[b] \subseteq msgs[b]
        BY <3>3 DEF Restart, Inv, TypeOK
      <3>4. ASSUME NEW a \in Agents, DomainUpdated(a) \/ DomainDeleted(a) \/ Lose(a)
            PROVE  \E m : Receive(a, m)
        BY <3>4 DEF DomainUpdated, DomainDeleted, Lose
      <3>5. ASSUME NEW a \in Agents,
                   \/ SyncCall(a) \/ SyncRemoveStale(a) \/ SyncCollect(a)
                   \/ SyncApply(a) \/ SyncDone(a)
                   \/ \E n \in Networks : \/ PortUp(a, n) \/ PortDown(a, n)
                                          \/ HandlePort(a, n) \/ DeletePort(a, n)
            PROVE  UNCHANGED msgs
        BY <3>5 DEF SyncCall, SyncRemoveStale, SyncCollect, SyncApply, SyncDone,
                    PortUp, PortDown, HandlePort, DeletePort
      <3> QED  BY <1>3, <3>1, <3>2, <3>3, <3>4, <3>5 DEF AgentNext
    <2> QED  BY <1>1, <2>1, <2>2
  <1> QED  BY <1>2, <1>3 DEF Next

-----------------------------------------------------------------------------
(* The theorems                                                            *)

LEMMA InitHeld == Init => Held
  <1> SUFFICES ASSUME Init PROVE Held
    OBVIOUS
  <1>1. Listed
    BY NoSyncFields DEF Init, Listed, Boot, NoSync
  <1>2. DeletedOwn /\ DormantKnown
    BY DEF Init, DeletedOwn, DormantKnown
  <1>3. AllBacked
    <2>1. \A d \in Domains : ~Alone(d)
      BY DomainSyncAssumption DEF Init, Alone
    <2> QED  BY <2>1 DEF AllBacked, Backed
  <1> QED  BY <1>1, <1>2, <1>3 DEF Held

LEMMA NextKeepsHeld == Inv /\ Provenance /\ Held /\ [Next]_vars => Held'
  <1> SUFFICES ASSUME Inv, Provenance, Listed, DeletedOwn, DormantKnown, AllBacked,
                      [Next]_vars
               PROVE  Held'
    BY DEF Held
  <1>1. CASE ServerNext
    <2>1. Listed'
      <3>1. UNCHANGED sync /\ \A d \in live' \ live : fidOf[d] = NoFid
        BY <1>1 DEF ServerNext, Create, Update, Delete, Push, Detach, DropNetwork, Attach,
                    agents, server
      <3> QED  BY <3>1, ListedStays
    <2> QED  BY <1>1, <2>1, ServerKeepsBacked, NextKeepsDeletedOwn DEF Held, Next
  <1>2. CASE AgentNext
    <2>1. DormantKnown' /\ AllBacked'
      <3>1. ASSUME NEW a \in Agents,
                   \/ Lose(a) \/ SyncCall(a) \/ SyncReply(a) \/ SyncFail(a) \/ SyncDone(a)
                   \/ \E n \in Networks : PortUp(a, n) \/ PortDown(a, n)
            PROVE  DormantKnown' /\ AllBacked'
        <4>1. UNCHANGED <<server, memory, kernel>>
          BY <3>1 DEF Lose, SyncCall, SyncReply, SyncFail, SyncDone, PortUp, PortDown
        <4> QED  BY <4>1, QuietBacked
      <3> QED  BY <1>2, <3>1, DomainUpdatedBacked, RemovalBacked, SyncCollectBacked,
                  SyncApplyBacked, PortBacked, RestartBacked
               DEF AgentNext
    <2> QED  BY <1>2, <2>1, AgentKeepsListed, NextKeepsDeletedOwn DEF Held, Next
  <1>3. CASE UNCHANGED vars
    <2>1. UNCHANGED <<server, msgs, sync, memory, kernel>>
      BY <1>3 DEF vars
    <2>2. Listed' /\ DeletedOwn'
      BY <2>1 DEF Listed, DeletedOwn, server
    <2> QED  BY <2>1, <2>2, QuietBacked DEF Held
  <1> QED  BY <1>1, <1>2, <1>3 DEF Next

\* What a node's kernel holds, in every reachable state.
THEOREM KernelInvariance == Spec => [](Inv /\ Provenance /\ Held)
  BY InitInv, InitProvenance, InitHeld, NextKeepsInv, NextKeepsProvenance, NextKeepsHeld,
     PTL DEF Spec

\* A dormant domain holds no VRF and no gateway port on the node, whatever fails
\* but a deletion or the list of the VRFs: also when a delete_domain raises
\* half-way, a pass raises late, a message is lost or the process dies.
THEOREM DormantIsEmpty ==
    ASSUME KernelLetsGo PROVE Spec => []DormantHoldsNothing
  <1>1. Inv /\ Provenance /\ Held => DormantHoldsNothing
    <2> SUFFICES ASSUME Inv, Provenance, Held, NEW a \in Agents, NEW d \in dormant[a],
                        Holders(fidOf[d]) = {d}
                 PROVE  fidOf[d] \notin vrf[a] /\ gw[a][fidOf[d]] = {}
      BY DEF DormantHoldsNothing
    <2>1. d \in Domains
      BY DEF Inv, TypeOK
    <2>2. known[a][d] \in Payload /\ Own(d, known[a][d])
      BY <2>1 DEF Held, DormantKnown, Provenance, KnownOwn, Inv, TypeOK, Payloads
    <2>3. Alone(d)
      BY <2>2 DEF Alone, Holders, Own, Payload
    <2> QED  BY <2>1, <2>3 DEF Held, AllBacked, Backed, VrfBehind
  <1> QED  BY <1>1, KernelInvariance, PTL

\* No gateway port is in an unsealed VRF, whatever fails but a pass after it
\* recorded its domain, or the deletion of a port: a table that cannot be
\* sealed, a VRF that stays, unreadable lists, lost messages and crashes
\* included.
THEOREM SealedFirst ==
    ASSUME PassesFinish PROVE Spec => []SealedBeforeGateway
  <1>1. Inv /\ Held => SealedBeforeGateway
    <2> SUFFICES ASSUME Inv, Held, NEW a \in Agents, NEW d \in Domains,
                        Holders(fidOf[d]) = {d}, fidOf[d] \in vrf[a], gw[a][fidOf[d]] # {}
                 PROVE  fidOf[d] \in sealed[a]
      BY DEF SealedBeforeGateway
    <2>1. Alone(d)
      BY DEF Alone, Holders, Inv, TypeOK
    <2> QED  BY <2>1 DEF Held, AllBacked, Backed, SealBehind
  <1> QED  BY <1>1, KernelInvariance, PTL

-----------------------------------------------------------------------------
(* A sync never takes the VRF of a domain it listed                        *)

\* One domain of the reply: another domain's id is left alone, and this one, with
\* a port here, is programmed.
LEMMA ApplyServes ==
    ASSUME Inv, Provenance, Held, NEW a \in Agents, NEW b \in Agents, NEW d \in Domains,
           Served(a, d), fidOf[d] \in vrf[a], SyncApply(b)
    PROVE  fidOf[d] \in vrf'[a]
  <1>1. PICK e \in Domains :
           /\ sync[b].reply[e] # NoPayload
           /\ ApplyDomain(b, e, sync[b].reply[e], TRUE)
    BY DEF SyncApply
  <1> DEFINE p == sync[b].reply[e]
  <1>2. p \in Payload /\ Own(e, p) /\ fidOf[d] \in Fids
    BY <1>1 DEF Inv, TypeOK, Sync, Payloads, Provenance, SyncOwn
  <1>3. NodeTypes /\ RecordOwn /\ UNCHANGED fidOf /\ Backed(b, e)
        /\ (e \in dormant[b] => known[b][e] # NoPayload)
    BY DEF Inv, TypeOK, NodeTypes, Provenance, Held, DormantKnown, AllBacked, SyncApply, server
  <1>4. Elsewhere(b, fidOf[e])
    BY <1>1, <1>2, <1>3, ApplyBacked
  <1>5. CASE b # a \/ e # d
    <2>1. b # a \/ fidOf[e] # fidOf[d]
      BY <1>5 DEF Served, Holders
    <2>2. SameKernel(a, fidOf[d])
      BY <1>2, <1>4, <2>1 DEF Elsewhere
    <2> QED  BY <2>2 DEF SameKernel
  <1>6. CASE b = a /\ e = d
    <2>1. p.nets \cap ports[a] # {}
      BY <1>1, <1>6 DEF Served, Held, Listed
    <2>2. \E k : Program(a, d, p, k)
      BY <1>1, <1>6, <2>1 DEF ApplyDomain
    <2>3. p.fid \in vrf'[a]
      BY <1>2, <1>3, <2>2, ProgramAdds
    <2> QED  BY <1>2, <1>6, <2>3 DEF Own
  <1> QED  BY <1>5, <1>6

\* A stale domain is one the reply does not have, and an id has one domain here.
LEMMA RemoveStaleServes ==
    ASSUME Inv, Provenance, Held, NEW a \in Agents, NEW b \in Agents, NEW d \in Domains,
           Served(a, d), fidOf[d] \in vrf[a], SyncRemoveStale(b)
    PROVE  fidOf[d] \in vrf'[a]
  <1>1. PICK e \in Stale(b), k \in DeleteKinds : DeleteDomain(b, e, NoFid, k)
    BY DEF SyncRemoveStale
  <1>2. /\ e \in Domains /\ known[b][e] \in Payload /\ Own(e, known[b][e])
        /\ fidOf[d] \in Fids /\ NodeTypes /\ RecordOwn
    BY DEF Stale, Inv, TypeOK, NodeTypes, Payloads, Provenance, KnownOwn
  <1>3. Elsewhere(b, fidOf[e])
    BY <1>1, <1>2, DeleteTakes DEF Own, Payload
  <1>4. b = a => e # d
    BY DEF SyncRemoveStale, Stale, Served, Held, Listed
  <1>5. b # a \/ fidOf[e] # fidOf[d]
    BY <1>2, <1>4 DEF Served, Holders
  <1> QED  BY <1>2, <1>3, <1>5 DEF Elsewhere, SameKernel

\* The garbage collector goes by the reply.
LEMMA CollectServes ==
    ASSUME Inv, Provenance, Held, NEW a \in Agents, NEW b \in Agents, NEW d \in Domains,
           Served(a, d), fidOf[d] \in vrf[a], SyncCollect(b)
    PROVE  fidOf[d] \in vrf'[a]
  <1>1. fidOf[d] \in Fids
    BY DEF Inv, TypeOK
  <1>2. b = a => fidOf[d] \in WantedIds(a)
    <2> SUFFICES ASSUME b = a PROVE fidOf[d] \in WantedIds(a)
      OBVIOUS
    <2>1. sync[a].reply[d] = sync[a].snap[d] /\ sync[a].reply[d] # NoPayload
      BY DEF SyncCollect, Served, Held, Listed
    <2>2. sync[a].reply[d].fid = fidOf[d]
      BY <2>1 DEF Provenance, SyncOwn, Own
    <2> QED  BY <2>1, <2>2 DEF WantedIds
  <1> QED  BY <1>1, <1>2, CollectTakes DEF Inv, SameKernel

\* A cast is only handled between syncs, so it may be about any other node.
LEMMA CastServes ==
    ASSUME Inv, Provenance, Held, NEW a \in Agents, NEW b \in Agents, NEW d \in Domains,
           Served(a, d), fidOf[d] \in vrf[a], DomainUpdated(b) \/ DomainDeleted(b)
    PROVE  fidOf[d] \in vrf'[a]
  <1>1. Idle(b)
    BY DEF DomainUpdated, DomainDeleted
  <1>2. b # a
    BY <1>1 DEF Idle, Served, Held, Listed
  <1>3. NodeTypes /\ RecordOwn /\ UNCHANGED fidOf /\ fidOf[d] \in Fids
    BY DEF Inv, TypeOK, NodeTypes, Provenance, DomainUpdated, DomainDeleted, server
  <1>4. CASE DomainUpdated(b)
    <2>1. PICK m \in msgs[b] :
             /\ m.type = "updated"
             /\ UNCHANGED kernel \/ ApplyDomain(b, m.id, m.payload, FALSE)
      BY <1>4 DEF DomainUpdated
    <2>2. CASE UNCHANGED kernel
      BY <2>2 DEF kernel
    <2>3. CASE ApplyDomain(b, m.id, m.payload, FALSE)
      <3>1. m.id \in Domains /\ m.payload \in Payload /\ Own(m.id, m.payload)
        BY <2>1, MessageFields DEF Inv, TypeOK, Provenance, MsgsOwn
      <3>2. Backed(b, m.id) /\ (m.id \in dormant[b] => known[b][m.id] # NoPayload)
        BY <3>1 DEF Held, AllBacked, DormantKnown
      <3>3. Elsewhere(b, fidOf[m.id])
        BY <1>3, <2>3, <3>1, <3>2, ApplyBacked
      <3> QED  BY <1>2, <1>3, <3>3 DEF Elsewhere, SameKernel
    <2> QED  BY <2>1, <2>2, <2>3
  <1>5. CASE DomainDeleted(b)
    <2>1. PICK m \in msgs[b], k \in DeleteKinds :
             m.type = "deleted" /\ DeleteDomain(b, m.id, m.fid, k)
      BY <1>5 DEF DomainDeleted
    <2>2. m.id \in Domains /\ m.fid \in Fids /\ m.fid = fidOf[m.id]
      BY <2>1, MessageFields DEF Inv, TypeOK, Held, DeletedOwn
    <2>3. Elsewhere(b, fidOf[m.id])
      BY <1>3, <2>1, <2>2, DeleteTakes
    <2> QED  BY <1>2, <1>3, <2>3 DEF Elsewhere, SameKernel
  <1> QED  BY <1>4, <1>5

\* A sync -- failed, refused, half-applied, with unreadable lists -- never takes
\* the VRF of a domain that it listed, that still exists and that has a port on
\* the node; for every fault the code meets, and with no assumption.
THEOREM ServedKept == Spec => SyncKeepsServed
  <1>1. ASSUME Inv, Provenance, Held, [Next]_vars
        PROVE  \A a \in Agents, d \in Domains :
                 Served(a, d) /\ fidOf[d] \in vrf[a] => fidOf[d] \in vrf'[a]
    <2> SUFFICES ASSUME NEW a \in Agents, NEW d \in Domains, Served(a, d), fidOf[d] \in vrf[a]
                 PROVE  fidOf[d] \in vrf'[a]
      OBVIOUS
    <2>1. CASE ServerNext
      <3>1. UNCHANGED agents
        BY <2>1 DEF ServerNext, Create, Update, Delete, Push, Detach, DropNetwork, Attach
      <3> QED  BY <3>1 DEF agents, kernel
    <2>2. CASE AgentNext
      <3>1. ASSUME NEW b \in Agents,
                   \/ Lose(b) \/ SyncCall(b) \/ SyncReply(b) \/ SyncFail(b) \/ SyncDone(b)
                   \/ \E n \in Networks : \/ PortUp(b, n) \/ PortDown(b, n)
                                          \/ HandlePort(b, n) \/ DeletePort(b, n)
                   \/ Restart(b)
            PROVE  UNCHANGED vrf
        BY <3>1 DEF Lose, SyncCall, SyncReply, SyncFail, SyncDone, PortUp, PortDown,
                    HandlePort, DeletePort, Restart, kernel
      <3>2. ASSUME NEW b \in Agents,
                   \/ SyncApply(b) \/ SyncRemoveStale(b) \/ SyncCollect(b)
                   \/ DomainUpdated(b) \/ DomainDeleted(b)
            PROVE  fidOf[d] \in vrf'[a]
        BY <1>1, <3>2, ApplyServes, RemoveStaleServes, CollectServes, CastServes
      <3> QED  BY <2>2, <3>1, <3>2 DEF AgentNext
    <2>3. CASE UNCHANGED vars
      BY <2>3 DEF vars, kernel
    <2> QED  BY <1>1, <2>1, <2>2, <2>3 DEF Next
  <1> QED  BY <1>1, KernelInvariance, PTL DEF Spec, SyncKeepsServed
=============================================================================
