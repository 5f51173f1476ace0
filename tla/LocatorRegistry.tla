--------------------------- MODULE LocatorRegistry --------------------------
(***************************************************************************)
(* The server's table of node locators, srv6_host_locators, as the         *)
(* sync_state calls of the nodes write it.  A locator is the SID space a   *)
(* node answers for: two nodes with overlapping ones attract each other's  *)
(* traffic.                                                                *)
(*                                                                         *)
(* A call is handled by one of the server's RPC workers, in the steps at   *)
(* which another worker may come between: the rows are read once           *)
(* (_claim_locator), each overlapping one is judged by its host's          *)
(* heartbeat, the row of a dead host is deleted, and the caller's own is   *)
(* written (set_host_locator), each in its own transaction.                *)
(***************************************************************************)
EXTENDS Naturals

CONSTANTS
    Hosts,          \* compute nodes
    Workers,        \* RPC worker threads that serve sync_state
    Blocks,         \* address blocks; a locator is the set of blocks it spans
    Locators,       \* the locators a node may be configured with
    FabricLocators, \* those of the topology_file's nodes
    NoLocator, NoHost,
    MaxMoves,       \* bound on locators changed in a configuration
    MaxFlips        \* bound on deaths, returns and failed liveness queries

ASSUME LocatorRegistryAssumption ==
    /\ Locators \subseteq (SUBSET Blocks) \ {{}}
    /\ FabricLocators \subseteq SUBSET Blocks
    /\ NoLocator \notin Locators /\ NoHost \notin Hosts
    /\ MaxMoves \in Nat /\ MaxFlips \in Nat

VARIABLES
    row,        \* [Hosts -> registered locator, or NoLocator]
    alive,      \* the hosts whose OVS agent is alive in Neutron's agent table
    conf,       \* [Hosts -> the locator in the agent's own configuration]
    call,       \* [Workers -> the sync_state call it serves]
    moves, flips

vars == <<row, alive, conf, call, moves, flips>>

NoCall == [host |-> NoHost, loc |-> NoLocator, others |-> {}, dead |-> NoHost]
Call == [host : Hosts \cup {NoHost}, loc : Locators \cup {NoLocator},
         others : SUBSET Hosts, dead : Hosts \cup {NoHost}]

Overlap(l, m) == l \cap m # {}
Registered == {h \in Hosts : row[h] # NoLocator}

TypeOK ==
    /\ row \in [Hosts -> Locators \cup {NoLocator}]
    /\ alive \subseteq Hosts
    /\ conf \in [Hosts -> Locators]
    /\ call \in [Workers -> Call]
    /\ moves \in 0..MaxMoves
    /\ flips \in 0..MaxFlips

Init ==
    /\ row = [h \in Hosts |-> NoLocator]
    /\ alive = Hosts
    /\ conf \in [Hosts -> Locators]
    /\ call = [w \in Workers |-> NoCall]
    /\ moves = 0
    /\ flips = 0

-----------------------------------------------------------------------------
(* handle_sync_state, as far as the caller's locator goes                  *)

Serving(w) == call[w].host # NoHost

\* The registered hosts _claim_locator finds in the way of a locator.
InTheWay(h, l) == {o \in Registered \ {h} : Overlap(row[o], l)}

\* Mutant: only an equal locator counts as an overlap.
ReceiveEqualOnly(w, h) ==
    /\ ~Serving(w)
    /\ call' = [call EXCEPT ![w] =
           [host |-> h, loc |-> conf[h], dead |-> NoHost,
            others |-> {o \in Registered \ {h} : row[o] = conf[h]}]]
    /\ UNCHANGED <<row, alive, conf, moves, flips>>

\* A call reaches a worker, which reads the rows.  The caller may still count
\* as dead (its first heartbeat can follow the call), and after a timeout it
\* calls again while another worker still serves its last call.
Receive(w, h) ==
    /\ ~Serving(w)
    /\ call' = [call EXCEPT ![w] =
           [host |-> h, loc |-> conf[h], others |-> InTheWay(h, conf[h]), dead |-> NoHost]]
    /\ UNCHANGED <<row, alive, conf, moves, flips>>

FabricOverlap(l) == \E m \in FabricLocators : Overlap(l, m)

\* Srv6SyncRefused: a fabric node's locator, or that of a host whose agent is
\* alive, is in the way.
Refuse(w) ==
    /\ Serving(w) /\ call[w].dead = NoHost
    /\ FabricOverlap(call[w].loc) \/ call[w].others \cap alive # {}
    /\ call' = [call EXCEPT ![w] = NoCall]
    /\ UNCHANGED <<row, alive, conf, moves, flips>>

\* Neutron's agent table cannot be read: every host counts as alive.
RefuseUnknowable(w) ==
    /\ flips < MaxFlips /\ flips' = flips + 1
    /\ Serving(w) /\ call[w].dead = NoHost /\ call[w].others # {}
    /\ call' = [call EXCEPT ![w] = NoCall]
    /\ UNCHANGED <<row, alive, conf, moves>>

\* Mutant: a dead host's row keeps its locator taken.
JudgeDeadRefused(w) ==
    /\ Serving(w) /\ call[w].dead = NoHost
    /\ \E o \in call[w].others \ alive : TRUE
    /\ call' = [call EXCEPT ![w] = NoCall]
    /\ UNCHANGED <<row, alive, conf, moves, flips>>

\* A registered host in the way is down (_agent_alive) ...
JudgeDead(w) ==
    /\ Serving(w) /\ call[w].dead = NoHost
    /\ \E o \in call[w].others \ alive :
         call' = [call EXCEPT ![w].dead = o, ![w].others = @ \ {o}]
    /\ UNCHANGED <<row, alive, conf, moves, flips>>

\* Mutant: the row is blanked instead of deleted.
EvictBlank(w) ==
    /\ call[w].dead # NoHost
    /\ row' = [row EXCEPT ![call[w].dead] = {}]
    /\ call' = [call EXCEPT ![w].dead = NoHost]
    /\ UNCHANGED <<alive, conf, moves, flips>>

\* ... and its row is deleted, whatever the row says by now.
Evict(w) ==
    /\ call[w].dead # NoHost
    /\ row' = [row EXCEPT ![call[w].dead] = NoLocator]
    /\ call' = [call EXCEPT ![w].dead = NoHost]
    /\ UNCHANGED <<alive, conf, moves, flips>>

\* Nothing is in the way: set_host_locator.  Its re-broadcast of a new or
\* changed row is DomainSync's.
Register(w) ==
    /\ Serving(w) /\ call[w].dead = NoHost
    /\ call[w].others = {} /\ ~FabricOverlap(call[w].loc)
    /\ row' = [row EXCEPT ![call[w].host] = call[w].loc]
    /\ call' = [call EXCEPT ![w] = NoCall]
    /\ UNCHANGED <<alive, conf, moves, flips>>

-----------------------------------------------------------------------------
(* The nodes                                                               *)

\* An operator gives a node another locator and restarts its agent; a call it
\* made before may still be served.
Reconfigure(h, l) ==
    /\ moves < MaxMoves /\ moves' = moves + 1
    /\ l # conf[h]
    /\ conf' = [conf EXCEPT ![h] = l]
    /\ UNCHANGED <<row, alive, call, flips>>

\* The heartbeats of a node's agent stop for agent_down_time, or come back.
Die(h) ==
    /\ flips < MaxFlips /\ flips' = flips + 1
    /\ h \in alive
    /\ alive' = alive \ {h}
    /\ UNCHANGED <<row, conf, call, moves>>

Return(h) ==
    /\ flips < MaxFlips /\ flips' = flips + 1
    /\ h \notin alive
    /\ alive' = alive \cup {h}
    /\ UNCHANGED <<row, conf, call, moves>>

Serve(w) == Refuse(w) \/ JudgeDead(w) \/ Evict(w) \/ Register(w)

Next ==
    \/ \E w \in Workers : Serve(w) \/ RefuseUnknowable(w)
    \/ \E w \in Workers, h \in Hosts : Receive(w, h)
    \/ \E h \in Hosts, l \in Locators : Reconfigure(h, l)
    \/ \E h \in Hosts : Die(h) \/ Return(h)

Spec == Init /\ [][Next]_vars

\* A running agent calls again on every resync interval and gets a worker
\* some time, whoever else is calling; a worker ends the calls it serves.
Fairness ==
    /\ \A w \in Workers : WF_vars(Serve(w))
    /\ \A h \in Hosts : SF_vars(h \in alive /\ \E w \in Workers : Receive(w, h))

FairSpec == Spec /\ Fairness

-----------------------------------------------------------------------------
(* Properties                                                              *)

\* "The server refuses a sync whose locator overlaps the locator of another
\* live node or of a topology_file node" (README.rst:27): what is registered
\* never overlaps, so no SID leads to two nodes.
NoOverlap ==
    /\ \A g, h \in Registered : g # h => ~Overlap(row[g], row[h])
    /\ \A h \in Registered : ~FabricOverlap(row[h])

\* No locator of a running node overlaps another's, or a fabric node's.
SoundConfiguration ==
    \A h \in alive :
        /\ ~FabricOverlap(conf[h])
        /\ \A g \in alive \ {h} : ~Overlap(conf[g], conf[h])

\* Only an overlap with a live node's locator keeps a node out: once every
\* running node has a locator of its own, every one is registered with it --
\* one that moved, that took the locator of a dead node, or that was evicted
\* while it came back.
EveryNodeGetsIn ==
    <>[](SoundConfiguration => \A h \in alive : row[h] = conf[h])
=============================================================================
