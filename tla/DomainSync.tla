----------------------------- MODULE DomainSync -----------------------------
(***************************************************************************)
(* How the server's domains reach the compute nodes and leave them again.  *)
(*                                                                         *)
(* The server commits to its database first and tells the agents after:    *)
(* fanout casts (domain_updated, domain_deleted) that may be late, lost or *)
(* out of order, and the agent's own sync_state call, at start and on      *)
(* every resync interval.  An agent holds self._lock in every handler and  *)
(* through a whole sync, the call included.                                *)
(*                                                                         *)
(* A payload is the id of the domain's VRF and the networks attached;      *)
(* routes, locators and TE segments are left to other modules, so          *)
(* routes_updated only matters here as one more reason to resync.  A       *)
(* network stands for the VLAN it has on a node.  A handler is one action; *)
(* a sync is one action per domain, so that ports may come and go, and     *)
(* the process may die, in the middle of it.                               *)
(***************************************************************************)
EXTENDS FiniteSets, Naturals

CONSTANTS
    Domains,    \* UUIDs; one is never used again
    Fids,       \* the function id pool
    Networks, Agents,
    NoFid, NoDomain, NoPayload,
    FaultKinds, \* which faults may happen, a subset of Faults
    MaxOps,     \* bound on API requests and port changes
    MaxFaults   \* bound on faults

(* "crash"  the agent process restarts        "lose"    a fanout message is lost   *)
(* "rpc"    sync_state fails or times out     "list"    VRF devices unreadable     *)
(* "ovsdb"  br-int's ports unreadable         "seal"    the VRF cannot be sealed   *)
(* "gateway" a gateway port is not made       "late"    gateways or routes raise   *)
(* "vrf"    a VRF device cannot be deleted    "port"    nor can gateway ports     *)
(* "raise"  delete_domain raises half-way                                          *)
Faults == {"crash", "lose", "rpc", "list", "ovsdb", "seal", "gateway", "late",
           "vrf", "port", "raise"}

ASSUME DomainSyncAssumption ==
    /\ NoFid \notin Fids
    /\ NoDomain \notin Domains
    /\ NoPayload \notin [fid : Fids, nets : SUBSET Networks]
    /\ FaultKinds \subseteq Faults
    /\ MaxOps \in Nat /\ MaxFaults \in Nat

VARIABLES
    (* the server: its database, its workers and who has registered *)
    live,       \* the domains that exist
    fidOf,      \* [Domains -> the id a domain got at its creation], kept after its death
    netOf,      \* [Networks -> the domain a network is attached to, or NoDomain]
    attached,   \* history: every <<domain, network>> association there ever was
    jobs,       \* [Domains -> pushes a worker still owes after its commit]
    registered, \* agents with a row in srv6_host_locators
    (* the message bus *)
    msgs,       \* [Agents -> the casts that may still reach the agent]
    (* an agent process: its memory *)
    known,      \* [Agents -> [Domains -> payload or NoPayload]], self.domains
    dormant,    \* [Agents -> domains known but not programmed], self.dormant
    tomb,       \* [Agents -> domains seen deleted lately], self.tombstones
    dp,         \* [Agents -> [Domains -> id or NoFid]], dataplane.domains
    bound,      \* [Agents -> networks in the OVS agent's own VLAN map]
    due,        \* [Agents -> networks with a port the OVS agent has yet to hand over]
    sync,       \* [Agents -> the sync in progress]
    (* a node: what outlives the process *)
    vrf,        \* [Agents -> ids whose VRF device exists]
    sealed,     \* [Agents -> ids whose table has its unreachable default]
    gw,         \* [Agents -> [Fids -> networks with a gateway port svp-<fid>-*]]
    ports,      \* [Agents -> networks with a live port on br-int]
    (* bounds *)
    ops, faults

server == <<live, fidOf, netOf, attached, jobs>>
memory == <<known, dormant, tomb, dp>>
kernel == <<vrf, sealed, gw>>
ovs == <<bound, due, ports>>
vars == <<server, registered, msgs, memory, ovs, sync, kernel, ops, faults>>

Payload == [fid : Fids, nets : SUBSET Networks]
Payloads == [Domains -> Payload \cup {NoPayload}]
Message == [type : {"updated"}, id : Domains, payload : Payload]
           \cup [type : {"deleted"}, id : Domains, fid : Fids]
Phase == {"boot", "idle", "call", "stale", "apply"}
Sync == [phase : Phase, new : BOOLEAN, snap : Payloads, reply : Payloads]

Nothing == [d \in Domains |-> NoPayload]
NoSync == [phase |-> "idle", new |-> FALSE, snap |-> Nothing, reply |-> Nothing]
Boot == [NoSync EXCEPT !.phase = "boot"]

TypeOK ==
    /\ live \subseteq Domains
    /\ fidOf \in [Domains -> Fids \cup {NoFid}]
    /\ netOf \in [Networks -> Domains \cup {NoDomain}]
    /\ attached \subseteq Domains \X Networks
    /\ jobs \in [Domains -> Nat]
    /\ registered \subseteq Agents
    /\ msgs \in [Agents -> SUBSET Message]
    /\ known \in [Agents -> Payloads]
    /\ dormant \in [Agents -> SUBSET Domains]
    /\ tomb \in [Agents -> SUBSET Domains]
    /\ dp \in [Agents -> [Domains -> Fids \cup {NoFid}]]
    /\ bound \in [Agents -> SUBSET Networks]
    /\ due \in [Agents -> SUBSET Networks]
    /\ sync \in [Agents -> Sync]
    /\ vrf \in [Agents -> SUBSET Fids]
    /\ sealed \in [Agents -> SUBSET Fids]
    /\ gw \in [Agents -> [Fids -> SUBSET Networks]]
    /\ ports \in [Agents -> SUBSET Networks]
    /\ ops \in 0..MaxOps
    /\ faults \in 0..MaxFaults

Init ==
    /\ live = {}
    /\ fidOf = [d \in Domains |-> NoFid]
    /\ netOf = [n \in Networks |-> NoDomain]
    /\ attached = {}
    /\ jobs = [d \in Domains |-> 0]
    /\ registered = {}
    /\ msgs = [a \in Agents |-> {}]
    /\ known = [a \in Agents |-> Nothing]
    /\ dormant = [a \in Agents |-> {}]
    /\ tomb = [a \in Agents |-> {}]
    /\ dp = [a \in Agents |-> [d \in Domains |-> NoFid]]
    /\ bound = [a \in Agents |-> {}]
    /\ due = [a \in Agents |-> {}]
    /\ sync = [a \in Agents |-> Boot]
    /\ vrf = [a \in Agents |-> {}]
    /\ sealed = [a \in Agents |-> {}]
    /\ gw = [a \in Agents |-> [f \in Fids |-> {}]]
    /\ ports = [a \in Agents |-> {}]
    /\ ops = 0
    /\ faults = 0

\* One more request or port change; one more fault, unless k is "ok".
Op == ops < MaxOps /\ ops' = ops + 1
Fault(k) ==
    \/ k = "ok" /\ UNCHANGED faults
    \/ k \in FaultKinds /\ faults < MaxFaults /\ faults' = faults + 1

-----------------------------------------------------------------------------
(* The server                                                              *)

NetsOf(d) == {n \in Networks : netOf[n] = d}
PayloadOf(d) == [fid |-> fidOf[d], nets |-> NetsOf(d)]
Updated(d, p) == [type |-> "updated", id |-> d, payload |-> p]
Deleted(d) == [type |-> "deleted", id |-> d, fid |-> fidOf[d]]
Cast(ms) == msgs' = [a \in Agents |-> msgs[a] \cup ms]

agents == <<registered, memory, ovs, sync, kernel>>

\* create_srv6_domain: the row and its id in one transaction, and no cast.
Create(d) ==
    /\ Op
    /\ fidOf[d] = NoFid
    /\ \E f \in Fids \ {fidOf[e] : e \in live} : fidOf' = [fidOf EXCEPT ![d] = f]
    /\ live' = live \cup {d}
    /\ UNCHANGED <<netOf, attached, jobs, msgs, agents, faults>>

\* create_srv6_domain_network_association: a network is in one domain, by the
\* check and by the unique constraint; the push follows the commit.
Attach(d, n) ==
    /\ Op
    /\ d \in live /\ netOf[n] = NoDomain
    /\ netOf' = [netOf EXCEPT ![n] = d]
    /\ attached' = attached \cup {<<d, n>>}
    /\ jobs' = [jobs EXCEPT ![d] = @ + 1]
    /\ UNCHANGED <<live, fidOf, msgs, agents, faults>>

\* delete_srv6_domain_network_association.
Detach(n) ==
    /\ Op
    /\ netOf[n] # NoDomain
    /\ netOf' = [netOf EXCEPT ![n] = NoDomain]
    /\ jobs' = [jobs EXCEPT ![netOf[n]] = @ + 1]
    /\ UNCHANGED <<live, fidOf, attached, msgs, agents, faults>>

\* A deleted Neutron network takes its association along (ON DELETE CASCADE),
\* and nobody is told.
DropNetwork(n) ==
    /\ Op
    /\ netOf[n] # NoDomain
    /\ netOf' = [netOf EXCEPT ![n] = NoDomain]
    /\ UNCHANGED <<live, fidOf, attached, jobs, msgs, agents, faults>>

\* update_srv6_domain, and every other re-push of a domain as it is.
Update(d) ==
    /\ Op
    /\ d \in live
    /\ Cast({Updated(d, PayloadOf(d))})
    /\ UNCHANGED <<server, agents, faults>>

\* delete_srv6_domain: the domain, its associations and its id go in one
\* transaction; the cast names the id that was read before it.
Delete(d) ==
    /\ Op
    /\ d \in live
    /\ live' = live \ {d}
    /\ netOf' = [n \in Networks |-> IF netOf[n] = d THEN NoDomain ELSE netOf[n]]
    /\ Cast({Deleted(d)})
    /\ UNCHANGED <<fidOf, attached, jobs, agents, faults>>

\* Mutant: pushed again without a commit to push for.
PushUnowed(d) ==
    /\ d \in live
    /\ jobs' = [jobs EXCEPT ![d] = @ - 1]
    /\ Cast({Updated(d, PayloadOf(d))})
    /\ UNCHANGED <<live, fidOf, netOf, attached, agents, ops, faults>>

\* _push_domain_by_id: reads the domain again and casts what it finds, or
\* nothing if it vanished.  A cast between the read and the send is a delay
\* of the message.
Push(d) ==
    /\ jobs[d] > 0
    /\ jobs' = [jobs EXCEPT ![d] = @ - 1]
    /\ Cast(IF d \in live THEN {Updated(d, PayloadOf(d))} ELSE {})
    /\ UNCHANGED <<live, fidOf, netOf, attached, agents, ops, faults>>

ServerNext ==
    \/ \E d \in Domains : Create(d) \/ Update(d) \/ Delete(d) \/ Push(d)
    \/ \E n \in Networks : Detach(n) \/ DropNetwork(n)
    \/ \E d \in Domains, n \in Networks : Attach(d, n)

-----------------------------------------------------------------------------
(* The dataplane of one node                                               *)

Programmed(a, d) == known[a][d] # NoPayload /\ d \notin dormant[a]

\* delete_domain: what the kernel holds for an id.  Its own record of the id
\* wins over the one the caller names.  Failures to delete a port or the VRF
\* are logged and the rest goes on; the table is flushed at the end.
DeleteKinds == {"ok", "port", "vrf", "raise"}

Erase(a, gone, k) ==
    /\ gw' = [gw EXCEPT ![a] = [f \in Fids |->
                  IF f \in gone /\ k # "port" THEN {} ELSE gw[a][f]]]
    /\ vrf' = [vrf EXCEPT ![a] = IF k \in {"vrf", "raise"} THEN @ ELSE @ \ gone]
    /\ sealed' = [sealed EXCEPT ![a] = IF k = "raise" THEN @ ELSE @ \ gone]

\* The same for several ids, of which only f fails.
EraseFailing(a, gone, f, k) ==
    LET rest == gone \ {f} IN
    /\ gw' = [gw EXCEPT ![a] = [g \in Fids |->
                  IF g \in (IF k = "port" THEN rest ELSE gone) THEN {} ELSE gw[a][g]]]
    /\ vrf' = [vrf EXCEPT ![a] = @ \ (IF k = "port" THEN gone ELSE rest)]
    /\ sealed' = [sealed EXCEPT ![a] = @ \ (IF k = "raise" THEN rest ELSE gone)]

DeleteDomain(a, d, f, k) ==
    /\ Erase(a, {IF dp[a][d] # NoFid THEN dp[a][d] ELSE f}, k)
    /\ dp' = [dp EXCEPT ![a][d] = NoFid]

\* _retire_domain: a domain without networks has no state on any node.
Retire(a, d, p) ==
    \E k \in DeleteKinds \cup {"list"} :
        LET present == IF k = "list" THEN {} ELSE vrf[a]
            here == Programmed(a, d) \/ p.fid \in present
        IN  /\ Fault(k)
            /\ dormant' = [dormant EXCEPT ![a] = @ \ {d}]
            /\ \/ /\ here
                  /\ DeleteDomain(a, d, p.fid, k)
               \/ /\ ~here /\ k \in {"ok", "list"}
                  /\ UNCHANGED <<kernel, dp>>
            /\ known' = IF k = "raise" THEN known
                        ELSE [known EXCEPT ![a][d] = NoPayload]

\* Mutant: only a domain this process programmed is cleaned up.
MakeDormantMemoryOnly(a, d, p) ==
    \E k \in DeleteKinds :
        /\ Fault(k)
        /\ \/ /\ Programmed(a, d)
              /\ DeleteDomain(a, d, p.fid, k)
           \/ /\ ~Programmed(a, d) /\ k = "ok"
              /\ UNCHANGED <<kernel, dp>>
        /\ known' = IF k = "raise" THEN known ELSE [known EXCEPT ![a][d] = p]
        /\ dormant' = IF k = "raise" THEN dormant ELSE [dormant EXCEPT ![a] = @ \cup {d}]

\* _make_dormant: known, and nothing of it on this node.
MakeDormant(a, d, p) ==
    \E k \in DeleteKinds \cup {"list"} :
        LET present == IF k = "list" THEN {} ELSE vrf[a]
            here == d \notin dormant[a] /\ (Programmed(a, d) \/ p.fid \in present)
        IN  /\ Fault(k)
            /\ \/ /\ here
                  /\ DeleteDomain(a, d, p.fid, k)
               \/ /\ ~here /\ k \in {"ok", "list"}
                  /\ UNCHANGED <<kernel, dp>>
            /\ known' = IF k = "raise" THEN known ELSE [known EXCEPT ![a][d] = p]
            /\ dormant' = IF k = "raise" THEN dormant
                          ELSE [dormant EXCEPT ![a] = @ \cup {d}]

\* Mutant: a table that cannot be sealed does not stop the domain.
ProgramUnsealed(a, d, p, k) ==
    LET live_here == p.nets \cap ports[a] IN
    /\ Fault(k)
    /\ dormant' = [dormant EXCEPT ![a] = @ \ {d}]
    /\ dp' = [dp EXCEPT ![a][d] = p.fid]
    /\ vrf' = [vrf EXCEPT ![a] = @ \cup {p.fid}]
    /\ sealed' = IF k = "seal" THEN sealed ELSE [sealed EXCEPT ![a] = @ \cup {p.fid}]
    /\ gw' = [gw EXCEPT ![a][p.fid] = (@ \cap live_here) \cup (p.nets \cap bound[a])]
    /\ known' = [known EXCEPT ![a][d] = p]

\* The rest of _apply_domain: VRF and seal (ensure_domain, which fails closed),
\* gateways no live port backs (read from OVSDB), gateways of the networks the
\* OVS agent has bound, then the routes; remembered only if nothing raised on
\* the way.  A gateway port that never appears is logged and skipped.
Program(a, d, p, k) ==
    LET live_here == p.nets \cap ports[a]
        kept == IF k = "ovsdb" THEN gw[a][p.fid] ELSE gw[a][p.fid] \cap live_here
        bound_here == p.nets \cap bound[a]
    IN  /\ Fault(k)
        /\ dormant' = [dormant EXCEPT ![a] = @ \ {d}]
        /\ vrf' = [vrf EXCEPT ![a] = @ \cup {p.fid}]
        /\ \/ /\ k = "seal"
              /\ UNCHANGED <<dp, sealed, gw, known>>
           \/ /\ k # "seal"
              /\ dp' = [dp EXCEPT ![a][d] = p.fid]
              /\ sealed' = [sealed EXCEPT ![a] = @ \cup {p.fid}]
              /\ \E made \in SUBSET bound_here :
                   /\ k \in {"gateway", "late"} \/ made = bound_here
                   /\ gw' = [gw EXCEPT ![a][p.fid] = kept \cup made]
              /\ known' = IF k = "late" THEN known ELSE [known EXCEPT ![a][d] = p]

\* _apply_domain: which of the three a payload leads to.  Only a full sync
\* makes a programmed domain dormant; unreadable ports count as ports here.
ApplyDomain(a, d, p, from_sync) ==
    LET here == p.nets \cap ports[a] # {}
        dormancy == ~here /\ (from_sync \/ ~Programmed(a, d))
    IN  \/ p.nets = {} /\ Retire(a, d, p)
        \/ p.nets # {} /\ dormancy /\ MakeDormant(a, d, p)
        \/ /\ p.nets # {}
           /\ \E k \in {"ok", "seal", "gateway", "late", "ovsdb"} :
                /\ dormancy => k = "ovsdb"
                /\ Program(a, d, p, k)

-----------------------------------------------------------------------------
(* The agent's handlers.  Each takes self._lock.                           *)

Idle(a) == sync[a].phase = "idle"
Receive(a, m) == m \in msgs[a] /\ msgs' = [msgs EXCEPT ![a] = @ \ {m}]

\* Mutant: no tombstone check.
DomainUpdatedRevives(a) ==
    /\ Idle(a)
    /\ \E m \in msgs[a] :
         /\ m.type = "updated" /\ Receive(a, m)
         /\ ApplyDomain(a, m.id, m.payload, FALSE)
    /\ UNCHANGED <<server, registered, tomb, ovs, sync, ops>>

\* domain_updated: a domain seen deleted stays deleted.
DomainUpdated(a) ==
    /\ Idle(a)
    /\ \E m \in msgs[a] :
         /\ m.type = "updated" /\ Receive(a, m)
         /\ \/ /\ m.id \in tomb[a]
               /\ UNCHANGED <<known, dormant, dp, kernel, faults>>
            \/ /\ m.id \notin tomb[a]
               /\ ApplyDomain(a, m.id, m.payload, FALSE)
    /\ UNCHANGED <<server, registered, tomb, ovs, sync, ops>>

\* _tombstone: those more than an hour old go, whichever they are by now.
Tombstone(a, d) ==
    \E recent \in SUBSET tomb[a] : tomb' = [tomb EXCEPT ![a] = recent \cup {d}]

\* Mutant: the handler does not wait for the lock a sync holds.
DomainDeletedUnlocked(a) ==
    /\ \E m \in msgs[a], k \in DeleteKinds :
         /\ m.type = "deleted" /\ Receive(a, m)
         /\ Fault(k)
         /\ Tombstone(a, m.id)
         /\ dormant' = [dormant EXCEPT ![a] = @ \ {m.id}]
         /\ DeleteDomain(a, m.id, m.fid, k)
         /\ known' = [known EXCEPT ![a][m.id] = NoPayload]
    /\ UNCHANGED <<server, registered, ovs, sync, ops>>

\* domain_deleted: remembered first, and forgotten even if the kernel fails.
DomainDeleted(a) ==
    /\ Idle(a)
    /\ \E m \in msgs[a], k \in DeleteKinds :
         /\ m.type = "deleted" /\ Receive(a, m)
         /\ Fault(k)
         /\ Tombstone(a, m.id)
         /\ dormant' = [dormant EXCEPT ![a] = @ \ {m.id}]
         /\ DeleteDomain(a, m.id, m.fid, k)
         /\ known' = [known EXCEPT ![a][m.id] = NoPayload]
    /\ UNCHANGED <<server, registered, ovs, sync, ops>>

\* A cast that never arrives.
Lose(a) ==
    /\ Fault("lose")
    /\ \E m \in msgs[a] : Receive(a, m)
    /\ UNCHANGED <<server, registered, memory, ovs, sync, kernel, ops>>

-----------------------------------------------------------------------------
(* sync_state                                                              *)

\* What the server's get_domains returns: every domain with a network.
Listing == [d \in Domains |-> IF d \in live /\ NetsOf(d) # {} THEN PayloadOf(d)
                              ELSE NoPayload]

\* The agent calls, holding the lock; the server registers it and lists.
StartSync(a) ==
    /\ sync' = [sync EXCEPT ![a] = [phase |-> "call", new |-> a \notin registered,
                                    snap |-> Listing, reply |-> Nothing]]
    /\ registered' = registered \cup {a}

SyncCall(a) ==
    /\ sync[a].phase \in {"idle", "boot"}
    /\ StartSync(a)
    /\ UNCHANGED <<server, msgs, memory, ovs, kernel, ops, faults>>

\* The domains of a snapshot that still had an id when their payload was
\* built: those alive now, and any of the others (read before they went).
Built(snap) ==
    LET listed == {d \in Domains : snap[d] # NoPayload}
    IN  {S \in SUBSET listed : listed \cap live \subseteq S}

\* To every agent, if the caller's locator is new or changed.
Rebroadcast(new, snap, S) ==
    Cast(IF new THEN {Updated(d, snap[d]) : d \in S} ELSE {})

\* The reply arrives; what is tombstoned here is not wanted.
SyncReply(a) ==
    /\ sync[a].phase = "call"
    /\ \E S \in Built(sync[a].snap) :
         /\ sync' = [sync EXCEPT ![a] = [@ EXCEPT !.phase = "stale",
                        !.reply = [d \in Domains |-> IF d \in S \ tomb[a]
                                                     THEN sync[a].snap[d]
                                                     ELSE NoPayload]]]
         /\ Rebroadcast(sync[a].new, sync[a].snap, S)
    /\ UNCHANGED <<server, registered, memory, ovs, kernel, ops, faults>>

\* Mutant: a refused sync is answered with [].
SyncFailEmpty(a) ==
    /\ sync[a].phase = "call"
    /\ Fault("rpc")
    /\ sync' = [sync EXCEPT ![a].phase = "stale"]
    /\ UNCHANGED <<server, registered, msgs, memory, ovs, kernel, ops>>

\* The call raises -- refused, or no reply in time, or the underlay cannot be
\* read after it -- and nothing is touched.
\* The server may have got as far as its re-broadcast.
SyncFail(a) ==
    /\ sync[a].phase = "call"
    /\ Fault("rpc")
    /\ sync' = [sync EXCEPT ![a] = NoSync]
    /\ \/ UNCHANGED msgs
       \/ \E S \in Built(sync[a].snap) : Rebroadcast(sync[a].new, sync[a].snap, S)
    /\ UNCHANGED <<server, registered, memory, ovs, kernel, ops>>

Stale(a) == {d \in Domains : known[a][d] # NoPayload /\ sync[a].reply[d] = NoPayload}

\* A domain this process applied that the server no longer has.  A failure is
\* left to the garbage collector.
SyncRemoveStale(a) ==
    /\ sync[a].phase = "stale"
    /\ \E d \in Stale(a), k \in DeleteKinds :
         /\ Fault(k)
         /\ DeleteDomain(a, d, NoFid, k)
         /\ known' = [known EXCEPT ![a][d] = NoPayload]
         /\ dormant' = [dormant EXCEPT ![a] = @ \ {d}]
    /\ UNCHANGED <<server, registered, msgs, tomb, ovs, sync, ops>>

\* Mutant: the ids to keep are those this process remembers.
SyncCollectKnown(a) ==
    /\ sync[a].phase = "stale" /\ Stale(a) = {}
    /\ Erase(a, vrf[a] \ {dp[a][d] : d \in Domains}, "ok")
    /\ sync' = [sync EXCEPT ![a].phase = "apply"]
    /\ UNCHANGED <<server, registered, msgs, memory, ovs, ops, faults>>

\* Mutant: nothing is collected from the kernel.
SyncCollectNothing(a) ==
    /\ sync[a].phase = "stale" /\ Stale(a) = {}
    /\ sync' = [sync EXCEPT ![a].phase = "apply"]
    /\ UNCHANGED <<server, registered, msgs, memory, ovs, kernel, ops, faults>>

\* _collect_kernel_orphans: ids with a VRF here and no domain in the reply.
\* An unreadable list deletes nothing; one that fails half-way does not stop
\* the rest.
SyncCollect(a) ==
    /\ sync[a].phase = "stale" /\ Stale(a) = {}
    /\ LET wanted == {sync[a].reply[d].fid :
                         d \in {e \in Domains : sync[a].reply[e] # NoPayload}}
           orphans == vrf[a] \ wanted
       IN  \/ /\ Fault("ok")
              /\ Erase(a, orphans, "ok")
           \/ /\ Fault("list")
              /\ UNCHANGED kernel
           \/ \E f \in orphans, k \in DeleteKinds \ {"ok"} :
                /\ Fault(k)
                /\ EraseFailing(a, orphans, f, k)
    /\ sync' = [sync EXCEPT ![a].phase = "apply"]
    /\ UNCHANGED <<server, registered, msgs, memory, ovs, ops>>

\* The reply, one domain after the other; one that raises does not stop the rest.
SyncApply(a) ==
    /\ sync[a].phase = "apply"
    /\ \E d \in Domains :
         /\ sync[a].reply[d] # NoPayload
         /\ ApplyDomain(a, d, sync[a].reply[d], TRUE)
         /\ sync' = [sync EXCEPT ![a].reply[d] = NoPayload]
    /\ UNCHANGED <<server, registered, msgs, tomb, ovs, ops>>

SyncDone(a) ==
    /\ sync[a].phase = "apply" /\ sync[a].reply = Nothing
    /\ sync' = [sync EXCEPT ![a] = NoSync]
    /\ UNCHANGED <<server, registered, msgs, memory, ovs, kernel, ops, faults>>

-----------------------------------------------------------------------------
(* Ports: the OVS agent's callbacks, and the process itself                *)

\* A port of n, the first or one more: the OVS agent maps n to a VLAN, then
\* writes the port's tag to OVSDB, and calls handle_port later.
PortUp(a, n) ==
    /\ Op
    /\ ports' = [ports EXCEPT ![a] = @ \cup {n}]
    /\ bound' = [bound EXCEPT ![a] = @ \cup {n}]
    /\ due' = [due EXCEPT ![a] = @ \cup {n}]
    /\ UNCHANGED <<server, registered, msgs, memory, sync, kernel, faults>>

\* The last port of n leaves OVSDB; delete_port comes later.
PortDown(a, n) ==
    /\ Op
    /\ n \in ports[a]
    /\ ports' = [ports EXCEPT ![a] = @ \ {n}]
    /\ UNCHANGED <<server, registered, msgs, memory, bound, due, sync, kernel, faults>>

\* _reconcile_all_gateways: in the VRF of every programmed domain, only the
\* gateways of its networks with a live port stay.
Reconciled(a) == [f \in Fids |->
    {n \in gw[a][f] : \A d \in Domains :
        Programmed(a, d) /\ dp[a][d] = f => n \in known[a][d].nets \cap ports[a]}]

Serving(a, n) == {d \in Domains : known[a][d] # NoPayload /\ n \in known[a][d].nets}

\* Mutant: every programmed domain gets a gateway for the port's network.
GatewaysForAll(a, n) ==
    [f \in Fids |-> IF \E d \in Domains : Programmed(a, d) /\ dp[a][d] = f
                    THEN {n} ELSE {}]

\* The gateways handle_port makes: in the domains the port's network is in.
Gateways(a, n) ==
    [f \in Fids |-> IF \E d \in Serving(a, n) : d \notin dormant[a] /\ dp[a][d] = f
                    THEN {n} ELSE {}]

\* handle_port: the OVS agent has bound the network of a port, which may have
\* left again.
\* The first port of a dormant domain resyncs; a network of no known domain
\* resyncs too, unless the last sync is recent.
HandlePort(a, n) ==
    /\ Idle(a)
    /\ n \in due[a] /\ n \in ports[a] \cup bound[a]
    /\ due' = [due EXCEPT ![a] = @ \ {n}]
    /\ bound' = [bound EXCEPT ![a] = @ \cup {n}]
    /\ \E k \in {"ok", "ovsdb", "gateway"} :
         LET swept == IF k = "ovsdb" THEN gw[a] ELSE Reconciled(a)
         IN  /\ Fault(k)
             /\ gw' = [gw EXCEPT ![a] = [f \in Fids |->
                    IF k = "gateway" THEN swept[f] ELSE swept[f] \cup Gateways(a, n)[f]]]
    /\ \/ /\ Serving(a, n) = {} \/ Serving(a, n) \cap dormant[a] # {}
          /\ StartSync(a)
       \/ /\ Serving(a, n) \cap dormant[a] = {}
          /\ UNCHANGED <<sync, registered>>
    /\ UNCHANGED <<server, msgs, memory, vrf, sealed, ports, ops>>

\* Mutant: nothing reacts to a port that leaves.
DeletePortIgnored(a, n) ==
    /\ Idle(a)
    /\ n \in bound[a] \ ports[a]
    /\ bound' = [bound EXCEPT ![a] = @ \ {n}]
    /\ due' = [due EXCEPT ![a] = @ \ {n}]
    /\ UNCHANGED <<server, registered, msgs, memory, sync, kernel, ports, ops, faults>>

\* delete_port: the port is gone from OVSDB; after the callback the OVS agent
\* reclaims the VLAN.
DeletePort(a, n) ==
    /\ Idle(a)
    /\ n \in bound[a] \ ports[a]
    /\ \E k \in {"ok", "ovsdb"} :
         /\ Fault(k)
         /\ gw' = IF k = "ovsdb" THEN gw ELSE [gw EXCEPT ![a] = Reconciled(a)]
    /\ bound' = [bound EXCEPT ![a] = @ \ {n}]
    /\ due' = [due EXCEPT ![a] = @ \ {n}]
    /\ UNCHANGED <<server, registered, msgs, memory, sync, vrf, sealed, ports, ops>>

\* The agent process dies and comes back: its memory and its queue are gone,
\* not what is still on its way; the kernel and OVSDB are as they were.  It
\* syncs before it takes a message or a port, all of which OVS hands over again.
Restart(a) ==
    /\ Fault("crash")
    /\ \E left \in SUBSET msgs[a] : msgs' = [msgs EXCEPT ![a] = left]
    /\ known' = [known EXCEPT ![a] = Nothing]
    /\ dormant' = [dormant EXCEPT ![a] = {}]
    /\ tomb' = [tomb EXCEPT ![a] = {}]
    /\ dp' = [dp EXCEPT ![a] = [d \in Domains |-> NoFid]]
    /\ bound' = [bound EXCEPT ![a] = {}]
    /\ due' = [due EXCEPT ![a] = ports[a]]
    /\ sync' = [sync EXCEPT ![a] = Boot]
    /\ UNCHANGED <<server, registered, kernel, ports, ops>>

AgentNext == \E a \in Agents :
    \/ DomainUpdated(a) \/ DomainDeleted(a) \/ Lose(a)
    \/ SyncCall(a) \/ SyncReply(a) \/ SyncFail(a)
    \/ SyncRemoveStale(a) \/ SyncCollect(a) \/ SyncApply(a) \/ SyncDone(a)
    \/ \E n \in Networks : PortUp(a, n) \/ PortDown(a, n)
                           \/ HandlePort(a, n) \/ DeletePort(a, n)
    \/ Restart(a)

Next == ServerNext \/ AgentNext

Spec == Init /\ [][Next]_vars

\* Workers finish what they committed; the resync loop runs and every sync
\* goes on.  The OVS agent keeps calling until the lock is free for it, so
\* its callbacks get a turn between syncs.  Nothing is assumed of messages.
Fairness ==
    /\ \A d \in Domains : WF_vars(Push(d))
    /\ \A a \in Agents :
         /\ WF_vars(SyncCall(a))
         /\ WF_vars(SyncReply(a))
         /\ WF_vars(SyncRemoveStale(a) \/ SyncCollect(a) \/ SyncApply(a) \/ SyncDone(a))
         /\ SF_vars(\E n \in Networks : HandlePort(a, n))
         /\ SF_vars(\E n \in Networks : DeletePort(a, n))

FairSpec == Spec /\ Fairness

-----------------------------------------------------------------------------
(* Properties                                                              *)

Holders(f) == {d \in Domains : fidOf[d] = f}

\* A deleted domain is not revived in a process that remembers the delete,
\* whatever late domain_updated or sync reply comes after it (F9).
TombstonedStaysGone ==
    \A a \in Agents : \A d \in tomb[a] :
        known[a][d] = NoPayload /\ dp[a][d] = NoFid /\ d \notin dormant[a]

\* While the agent waits for sync_state it takes no domain_deleted, so what a
\* sync is about to apply never lists a domain this process saw deleted.
SyncPostdatesDelete ==
    \A a \in Agents : \A d \in tomb[a] :
        sync[a].snap[d] = NoPayload /\ sync[a].reply[d] = NoPayload

\* Tenant isolation: a gateway port in an id's VRF belongs to a network that
\* was attached to a domain the id was given to.  With an id never given
\* twice, a VRF only ever serves its own domain's networks.
NoForeignGateway ==
    \A a \in Agents, f \in Fids : \A n \in gw[a][f] :
        \E d \in Holders(f) : <<d, n>> \in attached

\* No gateway port is enslaved to an unsealed VRF, as long as its id was given
\* to one domain only: ensure_domain seals before it records the domain, and a
\* domain it has not recorded gets no gateway.  A pass that raises after the
\* record ("late") can leave it behind, and so can a port that is not deleted.
SealedBeforeGateway ==
    \A a \in Agents, d \in Domains :
        LET f == fidOf[d]
        IN  Holders(f) = {d} /\ f \in vrf[a] /\ gw[a][f] # {} => f \in sealed[a]

\* A dormant domain holds nothing on the node (unless its id was reused).
DormantHoldsNothing ==
    \A a \in Agents : \A d \in dormant[a] :
        Holders(fidOf[d]) = {d} => fidOf[d] \notin vrf[a] /\ gw[a][fidOf[d]] = {}

\* A sync -- failed, refused, half-applied, with unreadable lists -- never
\* takes the VRF of a domain that was listed, still exists and has a port on
\* the node.
Served(a, d) ==
    /\ sync[a].snap[d] # NoPayload /\ d \in live
    /\ sync[a].snap[d].nets \cap ports[a] # {}
    /\ Holders(fidOf[d]) = {d}
SyncKeepsServed ==
    [][\A a \in Agents, d \in Domains :
         Served(a, d) /\ fidOf[d] \in vrf[a] => fidOf[d] \in vrf'[a]]_vars

\* The node mirrors the server: a domain with a port here is programmed with
\* exactly the gateways of its networks here, one without is dormant, and an
\* id of no domain with networks has no VRF and no gateway.
Wanted(d) == d \in live /\ NetsOf(d) # {}
Mirrors(a) ==
    /\ \A d \in Domains : known[a][d] = IF Wanted(d) THEN PayloadOf(d) ELSE NoPayload
    /\ \A d \in Domains : Wanted(d) =>
         LET here == NetsOf(d) \cap ports[a] IN
         \/ /\ here # {} /\ d \notin dormant[a]
            /\ fidOf[d] \in vrf[a] \cap sealed[a]
            /\ gw[a][fidOf[d]] = here
         \/ here = {} /\ d \in dormant[a]
    /\ \A f \in vrf[a] : \E d \in Domains : Wanted(d) /\ fidOf[d] = f

\* Lost or late messages cost resync intervals, never permanent divergence:
\* requests, port changes and faults being finite, every node ends up
\* mirroring the server and stays so.
Converges == \A a \in Agents : <>[]Mirrors(a)
=============================================================================
