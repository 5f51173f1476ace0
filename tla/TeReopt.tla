------------------------------ MODULE TeReopt ------------------------------
(***************************************************************************)
(* services/te_reopt.py: the pass that moves heavy VM pairs off congested  *)
(* links onto automatic paths and releases the paths no longer needed,     *)
(* closed over the fabric it measures: what a pass does changes what the   *)
(* agents will measure, some time later.                                   *)
(*                                                                         *)
(* One process runs the passes; its memory (moved, linkMoved, idleSince,   *)
(* pending) is lost when it restarts.  A placed path takes effect at once: *)
(* how pushes travel is TePaths' and DomainSync's subject.                 *)
(***************************************************************************)
EXTENDS FabricLoad

CONSTANTS
    SrcHost,            \* [Pairs -> the host of the source]
    DefaultPaths,       \* [Pairs -> the paths the underlay may hash a pair onto]
    AnySource,
    UserChoices,        \* the selectors a user path may have
    UserPath,           \* the node path every user path takes here
    Starts,             \* the rates, default routes and automatic paths a server may start with
    Restless,           \* pairs whose demand or default route may change
    Rates,              \* what a demand may change to
    Breakable,          \* links that may go down, in both directions
    Faulty,             \* agents that may have a bad period
    High, Low, Fit, MinShare,   \* te_reopt_high, _low, te_auto_fit, _min_share, in percent
    Samples, HoldDown, MaxMoves,        \* te_reopt_samples, _hold_down, _max_moves
    ReleaseAfter, MaxAutoPaths, MaxRulesPerHost,    \* te_auto_...
    MaxTime, MaxEvents, MaxFaults       \* bounds

ASSUME ReoptAssumption ==
    /\ \A l \in Links : l[1] \in Int /\ l[2] \in Int
    /\ \A p \in Pairs : {SrcHost[p], DstHost[p]} \subseteq Int /\ SrcHost[p] # DstHost[p]
    /\ \A p \in Pairs : \A path \in DefaultPaths[p] :
           LinksOf(path) \subseteq ShortestLinks(Capacity, SrcHost[p], DstHost[p])
    /\ \A s \in Starts : s.demand \in [Pairs -> Nat] /\ IsFiniteSet(DOMAIN s.auto)
    /\ Rates \subseteq Nat
    /\ Low < High /\ Low \in Nat /\ High \in Nat /\ Fit \in 0..100 /\ MinShare \in Nat
    /\ Samples \in Nat \ {0} /\ MaxMoves \in Nat \ {0}
    /\ {HoldDown, ReleaseAfter, MaxAutoPaths, MaxRulesPerHost} \subseteq Nat
    /\ {MaxTime, MaxEvents, MaxFaults} \subseteq Nat

VARIABLES
    demand,     \* [Pairs -> Mbit/s]
    ecmp,       \* [Pairs -> the shortest path the underlay hashes it onto]
    broken,     \* links that are down
    user,       \* selectors of the user's TE paths
    auto,       \* automatic paths: [some Pairs -> node path, the two hosts included]
    moved, linkMoved, idleSince, pending,   \* the memory of the process
    calm,       \* history: the time of the last thing a measurement may not show yet
    lastTouch,  \* history: per pair, the last move or release of this process
    brokenAt,   \* history: when each broken link went down
    events, faults

memory == <<moved, linkMoved, idleSince, pending>>
history == <<calm, lastTouch, brokenAt>>
world == <<demand, ecmp, broken, user>>
vars == <<fabric, world, auto, memory, history, events, faults>>

-----------------------------------------------------------------------------
(* The underlay and the paths that pairs take. *)

Above(mbps, percent, l) == 100 * mbps > percent * Capacity[l]
Without(f, keys) == Restrict(f, DOMAIN f \ keys)
Marked(f, keys, v) == [x \in DOMAIN f \cup keys |-> IF x \in keys THEN v ELSE f[x]]

\* A user path decides the pair's route, whatever its rank (A11).
Covers(sel, p) ==
    /\ sel.dst \in {p[2], DstHost[p]}
    /\ sel.src \in {p[1], SrcHost[p], AnySource}
Covered(p) == \E sel \in user : Covers(sel, p)

PathOf(autos, p) ==
    IF p \in DOMAIN autos THEN autos[p] ELSE IF Covered(p) THEN UserPath ELSE ecmp[p]

\* The traffic of a pair gets as far as the first broken link of its path.
Reaches(path) ==
    {<<path[i], path[i + 1]>> : i \in {i \in 1..(Len(path) - 1) :
        \A j \in 1..(i - 1) : <<path[j], path[j + 1]>> \notin broken}}

FlowsWith(autos) ==
    [p \in Pairs |-> [on |-> Reaches(PathOf(autos, p)), rate |-> demand[p],
                      sid |-> IF p \in DOMAIN autos \/ Covered(p) THEN "steered" ELSE "default"]]

Up(path) == LinksOf(path) \cap broken = {}

-----------------------------------------------------------------------------
(* What a pass reads, once, and the memory it works on.                    *)

\* The links congested now, with their latest rate.
CongestedIn(series) ==
    LET last(l) == SubSeq(series[l], Len(series[l]) - Samples + 1, Len(series[l]))
        isCongested(l) ==
            /\ Len(series[l]) >= Samples
            /\ \A n \in 1..Samples : last(l)[n].mbps # NoRate /\ Above(last(l)[n].mbps, High, l)
            /\ l \in DOMAIN linkMoved => last(l)[1].t > linkMoved[l]
    IN  [l \in {l \in DOMAIN series : isCongested(l)} |-> Last(series[l]).mbps]

Reading ==
    LET read(series, seen) ==
            [congested |-> CongestedIn(series), measured |-> MeasuredLoad(series),
             dead |-> Once(DeadLinks, SilentFabric(seen)),
             pairs |-> Once(PairsOf, AggregateView(seen))]
    IN  Once(LAMBDA series : Once(LAMBDA seen : read(series, seen), LastSeen), LoadSeries)

PairRate(see, p) == IF p \in DOMAIN see.pairs THEN see.pairs[p].rate ELSE 0
LinksUsed(see, p) == IF p \in DOMAIN see.pairs THEN DOMAIN see.pairs[p].links ELSE {}
RateOn(see, p, l) == IF l \in LinksUsed(see, p) THEN see.pairs[p].links[l] ELSE 0

\* The measured load of a link without the pair's own traffic.
Others(see, p, l) == Max({0, Get(see.measured, l) - RateOn(see, p, l)})

\* w: the table, the memory, and what the pass did so far.
Start ==
    [auto |-> auto, read |-> auto, table |-> auto,
     moved |-> Restrict(moved, {p \in DOMAIN moved : moved[p] > now - HoldDown}),
     pending |-> Restrict(pending, {p \in DOMAIN pending : pending[p].at > now - Window}),
     linkMoved |-> linkMoved,
     idleSince |-> Restrict(idleSince, DOMAIN idleSince \cap DOMAIN auto),
     load |-> 0, released |-> {}, placed |-> {}]

\* Mutant: only what the measurements do not show yet holds a pair down.
HeldDownPending(w, p) == p \in DOMAIN w.pending
HeldDown(w, p) == p \in DOMAIN w.moved /\ w.moved[p] > now - HoldDown

-----------------------------------------------------------------------------
(* Release: idle paths, and paths whose default routes have room again.    *)

Live(see) == Without(Capacity, see.dead)
DefaultLinks(see, p) == ShortestLinks(Live(see), SrcHost[p], DstHost[p])

IsIdle(see, w, p) ==
    \/ PairRate(see, p) = 0
    \/ 100 * PairRate(see, p) < MinShare * Min({Capacity[l] : l \in LinksOf(w.auto[p])})

\* The worst case: the underlay may hash the pair onto any of them.
DefaultsHaveRoom(see, p) ==
    /\ DefaultLinks(see, p) # {} /\ DefaultLinks(see, p) \cap DOMAIN see.congested = {}
    /\ \A l \in DefaultLinks(see, p) : ~Above(Others(see, p, l) + PairRate(see, p), Low, l)

\* One automatic path: idle is timed first, held down or not.
Judge(see, w, p) ==
    LET idle == IsIdle(see, w, p)
        since == IF ~idle THEN Without(w.idleSince, {p})
                 ELSE IF p \in DOMAIN w.idleSince THEN w.idleSince
                 ELSE Marked(w.idleSince, {p}, now)
        why == IF idle THEN now - since[p] >= ReleaseAfter ELSE DefaultsHaveRoom(see, p)
    IN  IF Cardinality(w.released) >= MaxMoves THEN w
        ELSE IF ~why \/ HeldDown(w, p) THEN [w EXCEPT !.idleSince = since]
        ELSE [w EXCEPT !.auto = Without(@, {p}), !.idleSince = Without(since, {p}),
                       !.moved = Marked(@, {p}, now),
                       !.linkMoved = Marked(@, DefaultLinks(see, p), now),
                       !.released = @ \cup {p}]

\* order: the rows as the database returns them.
Release(see, w, order) ==
    FoldLeft(LAMBDA v, p : Once(LAMBDA u : Judge(see, u, p), v), w, order)

-----------------------------------------------------------------------------
(* Steer: off the hottest link first, the largest pairs first.             *)

PairBefore(p, q) == p[1] < q[1] \/ (p[1] = q[1] /\ p[2] < q[2])

\* The elements of S, each after those before it.
Sorted(S, Before(_, _)) ==
    [i \in 1..Cardinality(S) |-> CHOOSE x \in S : Cardinality({y \in S : Before(y, x)}) = i - 1]

Candidates(see, l) ==
    Sorted({p \in Pairs : l \in LinksUsed(see, p)
                              /\ 100 * RateOn(see, p, l) >= MinShare * Capacity[l]},
           LAMBDA p, q : \/ PairRate(see, p) > PairRate(see, q)
                         \/ PairRate(see, p) = PairRate(see, q) /\ PairBefore(p, q))

\* The caps, over `table`, the automatic paths the caller knows of.
RoomForAnother(see, table, p) ==
    LET steered == {q[1] : q \in {q \in DOMAIN table : SrcHost[q] = SrcHost[p]
                                      /\ q[1] \in {m[1] : m \in DOMAIN see.pairs}}}
    IN  /\ Cardinality(DOMAIN table) < MaxAutoPaths
        /\ p[1] \in steered \/ Cardinality(steered) < MaxRulesPerHost

\* Mutant: the pairs placed since the measurement are forgotten.
UsedMeasured(see, w, p) == [l \in Links |-> Others(see, p, l)]

\* What a link holds for a what-if: what is measured there without the pair,
\* and what other pairs were just placed with, not measured yet.
Used(see, w, p) ==
    [l \in Links |->
        Others(see, p, l) + FoldSet(LAMBDA q, acc : acc + w.pending[q].rate, 0,
                                    {q \in DOMAIN w.pending \ {p} : l \in w.pending[q].on})]

Usable(see) == Without(Capacity, see.dead \cup DOMAIN see.congested)

\* Whether every link of the path stays within te_auto_fit with the pair on it.
Fits(see, path, used, p) ==
    \A l \in LinksOf(path) : ~Above(used[l] + PairRate(see, p), Fit, l)

\* One candidate on link l: w.table is what this link's caller knows of.
TryMove(see, l, w, p) ==
    LET used == Used(see, w, p)
        path == Once(LAMBDA held : Compute(Usable(see), held, SrcHost[p], DstHost[p],
                                           PairRate(see, p)), used)
        may == /\ Cardinality(w.released) + Cardinality(w.placed) < MaxMoves
               /\ Above(w.load, Low, l)
               /\ ~Covered(p) /\ ~HeldDown(w, p)
               /\ p \in DOMAIN w.table \/ RoomForAnother(see, w.table, p)
    IN  IF ~may \/ path = NoPath \/ ~Fits(see, path, used, p) THEN w
        ELSE [w EXCEPT !.auto = Marked(@, {p}, path),
                       !.table = Marked(@, {p}, path),
                       !.moved = Marked(@, {p}, now),
                       !.idleSince = Without(@, {p}),
                       !.linkMoved = Marked(@, LinksUsed(see, p), now),
                       !.pending = Marked(@, {p}, [at |-> now, on |-> LinksOf(path),
                                                   rate |-> PairRate(see, p)]),
                       !.load = @ - RateOn(see, p, l),
                       !.placed = @ \cup {p}]

\* A pair moved off an earlier congested link has left this one too.
Gone(see, w, l) == FoldSet(LAMBDA p, acc : acc + RateOn(see, p, l), 0, w.placed)

\* One congested link; the table each works with is the one read before the first.
Relieve(see, w, l) ==
    LET onLink == {p \in DOMAIN see.pairs : l \in LinksUsed(see, p)}
    IN  IF Cardinality(onLink) <= 1 THEN w          \* moving it would move the congestion
        ELSE FoldLeft(LAMBDA v, p : Once(LAMBDA u : TryMove(see, l, u, p), v),
                      [w EXCEPT !.load = see.congested[l] - Gone(see, w, l), !.table = w.read],
                      Candidates(see, l))

Hottest(see) ==
    Sorted(DOMAIN see.congested,
           LAMBDA k, l : LET mine == see.congested[k] * Capacity[l]
                             other == see.congested[l] * Capacity[k]
                         IN  mine > other \/ (mine = other /\ PairBefore(k, l)))

Steer(see, w) ==
    FoldLeft(LAMBDA v, l : Once(LAMBDA u : Relieve(see, u, l), v), [w EXCEPT !.read = w.auto], Hottest(see))

Outcome(see, order) == Once(LAMBDA w : Steer(see, w), Release(see, Start, order))

-----------------------------------------------------------------------------
Init ==
    /\ FabricInit
    /\ \E s \in Starts : demand = s.demand /\ ecmp = s.ecmp /\ auto = s.auto
    /\ broken = {} /\ user = {}
    /\ moved = << >> /\ linkMoved = << >> /\ idleSince = << >> /\ pending = << >>
    /\ calm = 0 /\ lastTouch = << >> /\ brokenAt = << >>
    /\ events = 0 /\ faults = 0

\* A period without a fault, or with one: a batch lost, a node or the whole
\* collection cut off, an nft read that fails, an interface re-created.
Faults ==
    UNION {{[NoFault EXCEPT !.links = {r}], [NoFault EXCEPT !.pairs = {r}],
            [NoFault EXCEPT !.links = {r}, !.pairs = {r}],
            [NoFault EXCEPT !.nft = {r}], [NoFault EXCEPT !.reset = {r}]} : r \in Faulty}
    \cup {[NoFault EXCEPT !.links = Reporters, !.pairs = Reporters]}

Period(f) ==
    /\ now < MaxTime
    /\ UNCHANGED <<world, auto, memory, lastTouch, brokenAt, events>>
    /\ IF f = NoFault THEN UNCHANGED <<faults, calm>>
       ELSE /\ faults < MaxFaults /\ faults' = faults + 1
            /\ calm' = now + 1
    /\ \E flow \in {FlowsWith(auto)} : Measure(flow, f, broken)

Event == events < MaxEvents /\ events' = events + 1 /\ calm' = now

DemandChanges(p, mbps) ==
    /\ Event
    /\ demand[p] # mbps
    /\ demand' = [demand EXCEPT ![p] = mbps]
    /\ UNCHANGED <<fabric, ecmp, broken, user, auto, memory, lastTouch, brokenAt, faults>>

\* A flow label changes, or the head-end's route cache.
Rehash(p, path) ==
    /\ Event
    /\ path # ecmp[p] /\ Up(path)
    /\ ecmp' = [ecmp EXCEPT ![p] = path]
    /\ UNCHANGED <<fabric, demand, broken, user, auto, memory, lastTouch, brokenAt, faults>>

\* The underlay routes around it; a steered pair stays on its path.
Break(l) ==
    /\ Event
    /\ l \notin broken
    /\ broken' = broken \cup ({l, <<l[2], l[1]>>} \cap Links)
    /\ brokenAt' = [k \in broken' |-> IF k \in broken THEN brokenAt[k] ELSE now]
    /\ ecmp' = [p \in Pairs |->
            IF LinksOf(ecmp[p]) \cap broken' = {} THEN ecmp[p]
            ELSE CHOOSE path \in DefaultPaths[p] : LinksOf(path) \cap broken' = {}]
    /\ UNCHANGED <<fabric, demand, user, auto, memory, lastTouch, faults>>

\* Its selector is taken when the pair's automatic path has it.
UserCreates(sel) ==
    /\ Event
    /\ sel \notin user /\ \A p \in DOMAIN auto : sel # [dst |-> p[2], src |-> p[1]]
    /\ user' = user \cup {sel}
    /\ UNCHANGED <<fabric, demand, ecmp, broken, auto, memory, lastTouch, brokenAt, faults>>

\* Anybody may delete a path, automatic ones too.
DeletesAuto(p) ==
    /\ Event
    /\ p \in DOMAIN auto
    /\ auto' = Without(auto, {p})
    /\ UNCHANGED <<fabric, world, memory, lastTouch, brokenAt, faults>>

\* One pass; in an outage of the collection it judges nothing.
Pass(order) ==
    /\ ~Outage
    /\ \E see \in {Reading} : \E w \in {Outcome(see, order)} :
          /\ auto' = w.auto /\ moved' = w.moved /\ linkMoved' = w.linkMoved
          /\ idleSince' = w.idleSince /\ pending' = w.pending
          /\ lastTouch' = Marked(lastTouch, w.released \cup w.placed, now)
          /\ calm' = IF w.released = {} THEN calm ELSE now
    /\ UNCHANGED <<fabric, world, brokenAt, events, faults>>

Restart ==
    /\ faults < MaxFaults /\ faults' = faults + 1
    /\ moved' = << >> /\ linkMoved' = << >> /\ idleSince' = << >> /\ pending' = << >>
    /\ lastTouch' = << >> /\ calm' = now
    /\ UNCHANGED <<fabric, world, auto, brokenAt, events>>

Next ==
    \/ Period(NoFault)
    \/ \E f \in Faults : Period(f)
    \/ \E p \in Restless, mbps \in Rates : DemandChanges(p, mbps)
    \/ \E p \in Restless : \E path \in DefaultPaths[p] : Rehash(p, path)
    \/ \E l \in Breakable : Break(l)
    \/ \E sel \in UserChoices : UserCreates(sel)
    \/ \E p \in DOMAIN auto : DeletesAuto(p)
    \/ \E order \in SetToSeqs(DOMAIN auto) : Pass(order)
    \/ Restart

Spec == Init /\ [][Next]_vars
-----------------------------------------------------------------------------
(* What the re-optimisation promises. *)

Touched == {p \in DOMAIN lastTouch' : lastTouch'[p] = now /\
               (p \notin DOMAIN lastTouch \/ lastTouch[p] # now)}
Placed == {p \in Touched : p \in DOMAIN auto'}

Load(autos, l) == Carried(FlowsWith(autos), l)

\* A pass that releases nothing never loads a link beyond te_auto_fit with
\* what it moves there, on what the fabric really carries, although it works
\* from measurements that do not show the moves of the passes before it
\* (te_reopt.py _used, _pending).
MovesDoNotPileUp ==
    [][(Placed # {} /\ Placed = Touched /\ now > calm) =>
        \A l \in Links : Above(Load(auto', l), Fit, l) => Load(auto', l) <= Load(auto, l)]_vars

\* A pair that was moved or released is left alone for te_reopt_hold_down,
\* whichever of the two it was, and moves and releases of a pass share
\* te_reopt_max_moves, as long as the process lives.
MovesRationed ==
    [][/\ Cardinality(Touched) <= MaxMoves
       /\ \A p \in Touched : p \in DOMAIN lastTouch => now - lastTouch[p] >= HoldDown]_vars

\* No pass places a pair on a link that an end has reported down, whatever
\* became of the other end's reports (plugin.py _link_state_view, L8), nor one
\* that a user's path decides, whatever its rank (A11).
ReportedDown(l) ==
    l \in broken /\ \E r \in Told(l) : Newest(<<l, r>>).t > brokenAt[l]
PlacedOnLive ==
    [][\A p \in Placed :
         /\ \A l \in LinksOf(auto'[p]) : ~ReportedDown(l)
         /\ \A sel \in user : ~Covers(sel, p)]_vars

\* pce.py: the widest of the shortest paths with room, or none when no path has
\* room; and the links default routing may use are those of all the shortest.
\* Asked for every pair, on what the links carry and with the links that are down.
Asked == {<<SrcHost[p], DstHost[p], demand[p]>> : p \in Pairs}
PathsOptimal ==
    LET used == [l \in Links |-> Carried(flowed, l)]
    IN  /\ \A r \in Asked :
              Optimal(Compute(Capacity, used, r[1], r[2], r[3]), Capacity, used, r[1], r[2], r[3])
        /\ \A r \in {<<r[1], r[2]>> : r \in Asked} :
              ShortestLinks(Without(Capacity, broken), r[1], r[2])
                  = AllShortest(Without(Capacity, broken), r[1], r[2])

\* te_auto_max_paths is the most automatic paths "in the whole cloud"
\* (common/config.py): no pass places one more.
PathsWithinCap == Cardinality(DOMAIN auto) <= MaxAutoPaths
=============================================================================
