-------------------------- MODULE PathComputation --------------------------
(***************************************************************************)
(* services/pce.py: the constrained path computation of the automatic      *)
(* paths, and the links default routing may use.  A link is a pair of      *)
(* nodes, a node a number (names are only compared); `cap` is a function   *)
(* on links, `used` one on some of them.  Operators only.                  *)
(***************************************************************************)
EXTENDS Integers, SequencesExt

NoPath == <<>>

\* F(x), with x evaluated once: TLC expands an argument where it is used.
Once(F(_), x) == CHOOSE r \in {F(y) : y \in {x}} : TRUE

Get(f, x) == IF x \in DOMAIN f THEN f[x] ELSE 0
NodesIn(cap) == UNION {{l[1], l[2]} : l \in DOMAIN cap}
LinksOf(path) == {<<path[i], path[i + 1]>> : i \in 1..(Len(path) - 1)}

-----------------------------------------------------------------------------
(* Dijkstra on the label (hops, width): fewer hops, then the wider one.    *)

\* Mutant: the room on the way does not count.
AsGoodShorter(a, b) == a.hops <= b.hops
AsGood(a, b) == a.hops < b.hops \/ (a.hops = b.hops /\ a.width >= b.width)

LexBefore(p, q) ==
    \/ IsPrefix(p, q)
    \/ \E i \in DOMAIN p \cap DOMAIN q :
          p[i] < q[i] /\ \A j \in 1..(i - 1) : p[j] = q[j]

HeapBefore(a, b) == AsGood(a, b) /\ (AsGood(b, a) => LexBefore(a.path, b.path))

\* What the heap pops: its least entry, if it has any.
Least(heap) == {e \in heap : \A f \in heap : HeapBefore(e, f)}
Top(heap) == CHOOSE e \in Least(heap) : TRUE

\* The labels one hop further, without loops.
ExtensionsAny(residual, top, best) ==
    {[hops |-> top.hops + 1, path |-> Append(top.path, l[2]),
      width |-> IF residual[l] < top.width THEN residual[l] ELSE top.width] :
        l \in {l \in DOMAIN residual : l[1] = Last(top.path) /\ l[2] \notin ToSet(top.path)}}

Extensions(residual, top, best) ==
    {e \in ExtensionsAny(residual, top, best) : AsGood(e, best[Last(e.path)])}

\* One pop: an entry that a better one has overtaken is dropped.
Popped(residual, search, top) ==
    LET rest == search.heap \ {top}
        next == Extensions(residual, top, search.best)
    IN  IF ~AsGood(top, search.best[Last(top.path)]) THEN [heap |-> rest, best |-> search.best]
        ELSE [heap |-> rest \cup next,
              best |-> [n \in DOMAIN search.best |->
                           IF \E e \in next : Last(e.path) = n
                           THEN LET e == CHOOSE e \in next : Last(e.path) = n
                                IN  [hops |-> e.hops, width |-> e.width]
                           ELSE search.best[n]]]

\* A search among some nodes for paths of these widths.
Searches(nodes, widths) ==
    [heap : SUBSET [hops : Nat, width : widths, path : Seq(nodes)],
     best : [nodes -> [hops : Nat, width : widths]]]

\* Loop-free walks from one node over n others: no search pops more.
Walks(n) == LET walks[k \in 0..n] == IF k = 0 THEN 1 ELSE 1 + k * walks[k - 1] IN walks[n]

\* Pops until the destination is popped or the heap is empty.
Settle(residual, dst, nodes, widths, search) ==
    LET settle[n \in 0..Walks(Cardinality(nodes))] ==
            [s \in Searches(nodes, widths) |->
                IF n = 0 \/ Least(s.heap) = {} THEN NoPath
                ELSE IF Last(Top(s.heap).path) = dst THEN Top(s.heap).path
                ELSE settle[n - 1][Popped(residual, s, Top(s.heap))]]
    IN  settle[Walks(Cardinality(nodes))][search]

\* The links with room for bw, and what each has left.
Residual(cap, used, bw) ==
    [l \in {l \in DOMAIN cap : cap[l] - Get(used, l) >= bw} |-> cap[l] - Get(used, l)]

\* The widest of the shortest paths with room for bw, or NoPath.
Compute(cap, used, src, dst, bw) ==
    LET widest == 1 + FoldSet(LAMBDA l, acc : acc + cap[l], 0, DOMAIN cap)
        nodes == {src} \cup NodesIn(cap)
        start == [heap |-> {[hops |-> 0, width |-> widest, path |-> <<src>>]},
                  best |-> [n \in nodes |-> [hops |-> IF n = src THEN 0 ELSE Cardinality(nodes),
                                             width |-> widest]]]
        widths(residual) == {widest} \cup {residual[l] : l \in DOMAIN residual}
    IN  Once(LAMBDA residual : Settle(residual, dst, nodes, widths(residual), start),
             Residual(cap, used, bw))

-----------------------------------------------------------------------------
(* What default routing may use: every link of every shortest path.        *)

\* Hops from src, for the nodes it reaches.
Distances(cap, src) ==
    LET further(nodes) == nodes \cup {l[2] : l \in {l \in DOMAIN cap : l[1] \in nodes}}
        within[n \in 0..Cardinality(NodesIn(cap))] ==
            IF n = 0 THEN {src} ELSE Once(further, within[n - 1])
        far == Cardinality(NodesIn(cap))
    IN  [n \in within[far] |-> Min({d \in 0..far : n \in within[d]})]

\* Back from dst, along links that lose exactly one hop each.
ShortestLinks(cap, src, dst) ==
    LET dist == Distances(cap, src)
        into(nodes) == {l \in DOMAIN cap : l[2] \in nodes /\ l[1] \in DOMAIN dist
                                           /\ dist[l[1]] = dist[l[2]] - 1}
        back[n \in 0..Cardinality(NodesIn(cap))] ==
            IF n = 0 THEN into({dst})
            ELSE Once(LAMBDA links : links \cup into({l[1] : l \in links}), back[n - 1])
    IN  IF dst \notin DOMAIN dist \/ src = dst THEN {}
        ELSE back[Cardinality(NodesIn(cap))]

-----------------------------------------------------------------------------
(* The reference: all loop-free paths, written down without an algorithm.  *)

LoopFree(links, nodes, src, dst) ==
    LET longer(paths) ==
            paths \cup UNION {{Append(w, b) : b \in {b \in nodes \ ToSet(w) : <<Last(w), b>> \in links}} :
                                 w \in paths}
        walks[n \in 0..Cardinality(nodes)] ==
            IF n = 0 THEN {<<src>>} ELSE Once(longer, walks[n - 1])
    IN  {w \in walks[Cardinality(nodes)] : Last(w) = dst}

\* The bottleneck of a path of at least one link.
Width(residual, path) == Min({residual[l] : l \in LinksOf(path)})

\* Whether `path` is what pce.py promises for a request between two nodes:
\* no other path with room for bw is shorter, or as short and wider.
Optimal(path, cap, used, src, dst, bw) ==
    LET residual == Residual(cap, used, bw)
        all == LoopFree(DOMAIN residual, NodesIn(cap), src, dst)
    IN  IF all = {} THEN path = NoPath
        ELSE /\ path \in all
             /\ \A other \in all :
                   \/ Len(path) < Len(other)
                   \/ (Len(path) = Len(other) /\ Width(residual, path) >= Width(residual, other))

AllShortest(cap, src, dst) ==
    LET all == LoopFree(DOMAIN cap, NodesIn(cap), src, dst)
        shortest == {p \in all : \A q \in all : Len(p) <= Len(q)}
    IN  UNION {LinksOf(p) : p \in shortest}
=============================================================================
