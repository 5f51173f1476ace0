----------------------------- MODULE FabricLoad -----------------------------
(***************************************************************************)
(* What the server knows of the underlay's load: the fabric agents         *)
(* (tools/srv6-fabric-agent.py) read the kernel's counters once a period   *)
(* and post two batches, one of link states and one of VM-pair loads; the  *)
(* server stamps and stores them, and reads its views of the two tables.   *)
(*                                                                         *)
(* Time is counted in periods: traffic is constant within one, and a       *)
(* period's posts are stamped at its end.  A flow is a VM pair with the    *)
(* links it is on, its rate, and the outer SID it carries there.           *)
(***************************************************************************)
EXTENDS PathComputation

CONSTANTS
    Capacity,           \* topology_file: [directed link -> Mbit/s]
    Reporters,          \* nodes that run a fabric agent
    Pairs,              \* VM pairs: <<source port, destination port>>
    DstHost,            \* [Pairs -> the host of the destination]
    StaleAfter, Window, \* link_state_stale_after, link_state_window
    TopK, FloorRate,    \* TOP_K and FLOOR_MBPS of the agents
    CounterIdle,        \* periods after which an idle nft element is gone
    NoRate, NoRead

Links == DOMAIN Capacity
Ends(l) == {l[1], l[2]} \cap Reporters
Interfaces == {i \in Links \X Reporters : i[2] \in Ends(i[1])}

ASSUME FabricAssumption ==
    /\ IsFiniteSet(Links) /\ IsFiniteSet(Pairs) /\ \A l \in Links : l = <<l[1], l[2]>>
    /\ \A l \in Links : Capacity[l] \in Nat \ {0} /\ Ends(l) # {}
    /\ StaleAfter \in Nat \ {0} /\ Window \in Nat \ {0}
    /\ {TopK, FloorRate} \subseteq Nat \ {0} /\ CounterIdle \in Nat \ {0}

VARIABLES
    now,        \* the server's clock
    octets,     \* kernel: the byte counter of each interface and direction
    elements,   \* kernel: [Reporters -> [<<link, sid, pair>> -> its nft counter]]
    pairsPrev,  \* the agents' last read of their nft sets, or NoRead
    states,     \* srv6_link_states: rows of each interface, oldest first
    loads,      \* srv6_aggregate_loads: rows of each reporter
    flowed      \* history: the flows of the period that has just ended

fabric == <<now, octets, elements, pairsPrev, states, loads, flowed>>

-----------------------------------------------------------------------------
(* The underlay. *)

Carried(flow, l) == FoldSet(LAMBDA p, acc : acc + flow[p].rate, 0, {p \in Pairs : l \in flow[p].on})

NoFault == [links |-> {}, pairs |-> {}, nft |-> {}, reset |-> {}]

\* The interface counters after a period; a re-created interface starts at 0.
OctetsAfter(flow, reset) ==
    [i \in Interfaces |-> (IF i[2] \in reset THEN 0 ELSE octets[i]) + Carried(flow, i[1])]

\* One element per link, SID and pair, made by its first packet, dropped when idle.
Hit(flow, r) ==
    UNION {{<<l, flow[p].sid, p>> : l \in {l \in Links \cap flow[p].on : l[1] = r}} :
              p \in {p \in Pairs : flow[p].rate > 0}}
ElementsAfter(flow, r) ==
    LET hit == Hit(flow, r)
        old == elements[r]
        kept == {k \in DOMAIN old : k \in hit \/ now + 1 - old[k].at < CounterIdle}
    IN  [k \in hit \cup kept |->
            [n |-> (IF k \in kept THEN old[k].n ELSE 0) + (IF k \in hit THEN flow[k[3]].rate ELSE 0),
             at |-> IF k \in hit THEN now + 1 ELSE old[k].at]]

-----------------------------------------------------------------------------
(* A fabric agent. *)

\* A counter that went backwards gives no rate for this period.
RateOf(before, after) == IF after < before THEN NoRate ELSE after - before

\* A first read is a baseline only; a new or a re-created element is this period's.
PairRates(before, after) ==
    IF before = NoRead THEN << >>
    ELSE [k \in DOMAIN after |->
            IF k \in DOMAIN before /\ after[k] >= before[k] THEN after[k] - before[k] ELSE after[k]]

\* The largest pairs of each link, at or above the floor.
AboveFloor(rates, l) == {k \in DOMAIN rates : k[1] = l /\ rates[k] >= FloorRate}
LargestOf(rates, l) ==
    CHOOSE best \in SUBSET AboveFloor(rates, l) :
        /\ Cardinality(best) = Min({TopK, Cardinality(AboveFloor(rates, l))})
        /\ \A k \in best, m \in AboveFloor(rates, l) \ best : rates[k] >= rates[m]
Largest(rates) == UNION {LargestOf(rates, l) : l \in {k[1] : k \in DOMAIN rates}}

\* One period of the agents: traffic flows and each reads its counters; a
\* failed nft read leaves no baseline.  What it posts is one row per interface
\* and one per measured pair.
StateRow(flow, f, broken, i) ==
    [t |-> now + 1, up |-> i[1] \notin broken, mbps |-> RateOf(octets[i], OctetsAfter(flow, f.reset)[i])]
Counts(flow) == [r \in Reporters |-> [k \in DOMAIN ElementsAfter(flow, r) |-> ElementsAfter(flow, r)[k].n]]
LoadRows(before, after) ==
    LET rates == PairRates(before, after)
    IN  {[t |-> now + 1, link |-> k[1], sid |-> k[2], pair |-> k[3], mbps |-> rates[k]] : k \in Largest(rates)}

-----------------------------------------------------------------------------
(* The server stamps a batch with its own clock, and with it drops the rows *)
(* of the batch's reporters that are older than two windows.                *)

Recent(row) == row.t >= now + 1 - 2 * Window

\* Oldest first: what goes are the first rows.
RecentRows(rows) == SubSeq(rows, 1 + Cardinality({n \in DOMAIN rows : ~Recent(rows[n])}), Len(rows))

AddLinkStates(posted, batch) ==
    [i \in Interfaces |-> IF i[2] \in posted THEN Append(RecentRows(states[i]), batch[i])
                          ELSE states[i]]

\* There is no empty batch, so one that lists nothing drops nothing.
AddAggregateLoads(posted, batch) ==
    [r \in Reporters |-> IF r \in posted /\ batch[r] # {} THEN {row \in loads[r] : Recent(row)} \cup batch[r]
                         ELSE loads[r]]

\* One period: a failed POST is dropped.
Measure(flow, f, broken) ==
    LET read == Counts(flow)
    IN  /\ states' = AddLinkStates(Reporters \ f.links, [i \in Interfaces |-> StateRow(flow, f, broken, i)])
        /\ loads' = AddAggregateLoads(Reporters \ (f.pairs \cup f.nft),
                                      [r \in Reporters |-> LoadRows(pairsPrev[r], read[r])])
        /\ octets' = OctetsAfter(flow, f.reset)
        /\ elements' = [r \in Reporters |-> ElementsAfter(flow, r)]
        /\ pairsPrev' = [r \in Reporters |-> IF r \in f.nft THEN NoRead ELSE read[r]]
        /\ flowed' = flow
        /\ now' = now + 1

-----------------------------------------------------------------------------
(* The server's views. *)

Fresh(t) == t >= now - StaleAfter
Newest(i) == Last(states[i])
Told(l) == {r \in Ends(l) : states[<<l, r>>] # <<>>}
LiveEnds(l) == {r \in Told(l) : Fresh(Newest(<<l, r>>).t)}

\* The end that counts: the sender if it is fresh, else the receiver if it is.
MainEnd(l) ==
    IF l[1] \in LiveEnds(l) THEN l[1]
    ELSE IF LiveEnds(l) # {} THEN l[2]
    ELSE CHOOSE r \in Told(l) : \A o \in Told(l) : Newest(<<l, r>>).t >= Newest(<<l, o>>).t

\* Mutant: the state of a link is what the end that counts says.
IsUpMain(l) == Told(l) = {} \/ Newest(<<l, MainEnd(l)>>).up

\* Down as soon as one fresh end says so; with none fresh, as last seen.
IsUp(l) ==
    IF LiveEnds(l) # {} THEN \A r \in LiveEnds(l) : Newest(<<l, r>>).up
    ELSE Told(l) = {} \/ Newest(<<l, MainEnd(l)>>).up

\* When each node posted link states last; 0: it never did.
LastSeen ==
    [r \in Reporters |-> Max({0} \cup {Newest(i).t : i \in {i \in Interfaces : i[2] = r /\ states[i] # <<>>}})]
SilentIn(seen) == {r \in Reporters : seen[r] > 0 /\ ~Fresh(seen[r])}

\* Silent nodes are down, unless all are: then it is the collection that failed.
OutageIn(seen) == SilentIn(seen) # {} /\ \A r \in Reporters : seen[r] > 0 => ~Fresh(seen[r])
SilentFabric(seen) == IF OutageIn(seen) THEN {} ELSE SilentIn(seen)
Outage == Once(OutageIn, LastSeen)

DeadLinks(silent) == {l \in Links : ~IsUp(l) \/ {l[1], l[2]} \cap silent # {}}

LoadSeries == [l \in {l \in Links : LiveEnds(l) # {}} |-> states[<<l, MainEnd(l)>>]]

\* Each fresh link's peak over the window; a stale link counts as empty.
MeasuredLoad(series) ==
    LET peaks == [l \in DOMAIN series |->
                    {row.mbps : row \in {row \in ToSet(series[l]) :
                                            row.t > now - Window /\ row.mbps # NoRate}}]
    IN  [l \in {l \in DOMAIN series : peaks[l] # {}} |-> Max(peaks[l])]

\* Mutant: a pair stays listed until its row is stale.
ListedUntilStale(r, seen) ==
    {row \in loads[r] :
        /\ Fresh(row.t)
        /\ \A other \in loads[r] :
              <<other.link, other.sid, other.pair>> = <<row.link, row.sid, row.pair>>
                  => other.t <= row.t}

\* The newest row of each key, unless its reporter has posted since without it.
Listed(r, seen) ==
    {row \in loads[r] :
        /\ Fresh(row.t) /\ row.t >= seen
        /\ \A other \in loads[r] :
              <<other.link, other.sid, other.pair>> = <<row.link, row.sid, row.pair>>
                  => other.t <= row.t}
AggregateView(seen) == UNION {Listed(r, seen[r]) : r \in Reporters}

Total(rows) == FoldSet(LAMBDA row, acc : acc + row.mbps, 0, rows)
RateIn(rows, p, l) == Total({row \in rows : row.pair = p /\ row.link = l})

\* te_reopt _pairs: per measured pair, its rate on each link, and what reaches
\* its destination's host (its largest rate when no such link shows it).
PairsOf(rows) ==
    [p \in {row.pair : row \in rows} |->
        LET links == [l \in {row.link : row \in {row \in rows : row.pair = p}} |-> RateIn(rows, p, l)]
            arrived == Total({row \in rows : row.pair = p /\ row.link[2] = DstHost[p]})
        IN  [links |-> links,
             rate |-> IF arrived > 0 THEN arrived ELSE Max({links[l] : l \in DOMAIN links})]]

-----------------------------------------------------------------------------
FabricInit ==
    /\ now = 0
    /\ octets = [i \in Interfaces |-> 0]
    /\ elements = [r \in Reporters |-> << >>]
    /\ pairsPrev = [r \in Reporters |-> << >>]      \* the baseline read at the start
    /\ states = [i \in Interfaces |-> <<>>]
    /\ loads = [r \in Reporters |-> {}]
    /\ flowed = [p \in Pairs |-> [on |-> {}, rate |-> 0, sid |-> "default"]]

\* The pairs r forwarded in the period that has just ended.
Forwarded(r) == UNION {{<<l, p>> : l \in {l \in Links \cap flowed[p].on : l[1] = r}} : p \in Pairs}

\* While an agent posts its link states, what the server lists of it is real:
\* every pair was on that link in the last period, at no more than its rate
\* there, and no newest rate of a link exceeds what the link carried; a reset
\* counter, a failed read, a lost batch or an idle element may hide a rate,
\* never invent one (srv6-fabric-agent.py report, pair_rates; aggregates.view).
MeasuredIsReal ==
    \A r \in {r \in Reporters : now > 0 /\ LastSeen[r] = now} :
        /\ \A row \in Listed(r, now) :
              /\ <<row.link, row.pair>> \in Forwarded(r)
              /\ RateIn(Listed(r, now), row.pair, row.link) <= flowed[row.pair].rate
        /\ \A i \in {i \in Interfaces : i[2] = r} :
              Newest(i).mbps # NoRate => Newest(i).mbps <= Carried(flowed, i[1])
=============================================================================
