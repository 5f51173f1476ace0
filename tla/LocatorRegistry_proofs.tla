------------------------ MODULE LocatorRegistry_proofs ----------------------
(***************************************************************************)
(* With one sync_state call at a time, the check of _claim_locator is      *)
(* enough: no two registered locators overlap, for any number of nodes.    *)
(* The assumption is needed: of two calls at once, each may check before   *)
(* the other commits, and both register.                                   *)
(***************************************************************************)
EXTENDS LocatorRegistry, TLAPS

\* A call under way has seen every row that is still in its way: what it read
\* and has not judged, or the dead host it is about to evict.
SeenTheWay ==
    \A w \in Workers : Serving(w) =>
        /\ call[w].loc \in Locators
        /\ InTheWay(call[w].host, call[w].loc) \subseteq call[w].others \cup {call[w].dead}

\* A worker that is about to evict serves a call.
EvictsForACall == \A w \in Workers : call[w].dead # NoHost => Serving(w)

Inv == TypeOK /\ SeenTheWay /\ EvictsForACall /\ NoOverlap

-----------------------------------------------------------------------------

\* handle_sync_state and the nodes keep every variable within its type.
LEMMA TypeStep ==
    ASSUME TypeOK, SeenTheWay, [Next]_vars
    PROVE  TypeOK'
  <1> USE LocatorRegistryAssumption DEF TypeOK, Call, NoCall
  <1>1. ASSUME NEW w \in Workers, Refuse(w) \/ RefuseUnknowable(w) PROVE TypeOK'
    BY <1>1 DEF Refuse, RefuseUnknowable
  <1>2. ASSUME NEW w \in Workers, JudgeDead(w) PROVE TypeOK'
    BY <1>2 DEF JudgeDead
  <1>3. ASSUME NEW w \in Workers, Evict(w) PROVE TypeOK'
    BY <1>3 DEF Evict
  <1>4. ASSUME NEW w \in Workers, Register(w) PROVE TypeOK'
    <2>1. call[w].host \in Hosts /\ call[w].loc \in Locators
      BY <1>4 DEF Register, Serving, SeenTheWay
    <2> QED  BY <1>4, <2>1 DEF Register
  <1>5. ASSUME NEW w \in Workers, NEW h \in Hosts, Receive(w, h) PROVE TypeOK'
    BY <1>5 DEF Receive, InTheWay, Registered
  <1>6. ASSUME NEW h \in Hosts, NEW l \in Locators, Reconfigure(h, l) PROVE TypeOK'
    BY <1>6 DEF Reconfigure
  <1>7. ASSUME NEW h \in Hosts, Die(h) \/ Return(h) PROVE TypeOK'
    BY <1>7 DEF Die, Return
  <1>8. CASE UNCHANGED vars
    BY <1>8 DEF vars
  <1> QED
    BY <1>1, <1>2, <1>3, <1>4, <1>5, <1>6, <1>7, <1>8 DEF Next, Serve

\* Taking rows away makes no overlap.
LEMMA FewerRows ==
    ASSUME TypeOK, NoOverlap,
           NEW gone, row' = [h \in Hosts |-> IF h \in gone THEN NoLocator ELSE row[h]]
    PROVE  /\ NoOverlap'
           /\ Registered' = Registered \ gone
           /\ \A h \in Registered' : row'[h] = row[h]
  BY DEF TypeOK, NoOverlap, Registered, Overlap, FabricOverlap

\* The one call's step, or a node's, keeps the invariant.
LEMMA InvStep ==
    ASSUME \A v, w \in Workers : v = w, Inv, [Next]_vars
    PROVE  Inv'
  <1> USE LocatorRegistryAssumption
  <1>0. TypeOK'
    BY TypeStep DEF Inv
  <1>1. ASSUME NEW w \in Workers, Refuse(w) \/ RefuseUnknowable(w) PROVE Inv'
    BY <1>0, <1>1 DEF Inv, TypeOK, Refuse, RefuseUnknowable, SeenTheWay, EvictsForACall, Serving,
                      NoCall, NoOverlap, Registered
  <1>2. ASSUME NEW w \in Workers, JudgeDead(w) PROVE Inv'
    <2>1. UNCHANGED row
      BY <1>2 DEF JudgeDead
    <2>2. SeenTheWay' /\ EvictsForACall'
      BY <1>2, <2>1 DEF Inv, TypeOK, Call, JudgeDead, SeenTheWay, EvictsForACall, Serving,
                        InTheWay, Registered
    <2> QED  BY <1>0, <2>1, <2>2 DEF Inv, NoOverlap, Registered
  <1>3. ASSUME NEW w \in Workers, Evict(w) PROVE Inv'
    <2>1. row' = [h \in Hosts |-> IF h \in {call[w].dead} THEN NoLocator ELSE row[h]]
      BY <1>3 DEF Evict, Inv, TypeOK
    <2>2. Serving(w) /\ call[w].host \in Hosts /\ call[w].loc \in Locators
      BY <1>3 DEF Evict, Inv, TypeOK, Call, EvictsForACall, SeenTheWay, Serving
    <2>3. /\ NoOverlap'
          /\ Registered' = Registered \ {call[w].dead}
          /\ \A h \in Registered' : row'[h] = row[h]
      BY <2>1, FewerRows DEF Inv
    <2>4. SeenTheWay' /\ EvictsForACall'
      BY <1>3, <2>2, <2>3 DEF Evict, Inv, TypeOK, Call, SeenTheWay, EvictsForACall, Serving,
                              InTheWay
    <2> QED  BY <1>0, <2>3, <2>4 DEF Inv
  <1>4. ASSUME NEW w \in Workers, Register(w) PROVE Inv'
    <2>1. /\ call[w].host \in Hosts /\ call[w].loc \in Locators
          /\ InTheWay(call[w].host, call[w].loc) = {}
          /\ ~FabricOverlap(call[w].loc)
      BY <1>4 DEF Register, Inv, TypeOK, Call, SeenTheWay, Serving, InTheWay, Registered
    <2>2. row' = [row EXCEPT ![call[w].host] = call[w].loc]
      BY <1>4 DEF Register
    <2>3. \A g \in Registered \ {call[w].host} :
            ~Overlap(row[g], call[w].loc) /\ ~Overlap(call[w].loc, row[g])
      BY <2>1 DEF InTheWay, Overlap
    <2>4. NoOverlap'
      BY <2>1, <2>2, <2>3 DEF Inv, TypeOK, NoOverlap, Registered, FabricOverlap
    <2>5. SeenTheWay' /\ EvictsForACall'
      BY <1>4 DEF Register, Inv, TypeOK, SeenTheWay, EvictsForACall, Serving, NoCall
    <2> QED  BY <1>0, <2>4, <2>5 DEF Inv
  <1>5. ASSUME NEW w \in Workers, NEW h \in Hosts, Receive(w, h) PROVE Inv'
    <2>1. UNCHANGED row
      BY <1>5 DEF Receive
    <2>2. SeenTheWay' /\ EvictsForACall'
      BY <1>5, <2>1 DEF Inv, TypeOK, Receive, SeenTheWay, EvictsForACall, Serving,
                        InTheWay, Registered
    <2> QED  BY <1>0, <2>1, <2>2 DEF Inv, NoOverlap, Registered
  <1>6. ASSUME UNCHANGED <<row, call>> PROVE Inv'
    BY <1>0, <1>6 DEF Inv, SeenTheWay, EvictsForACall, Serving, NoOverlap, Registered, InTheWay
  <1>7. ASSUME NEW h \in Hosts, NEW l \in Locators,
               Reconfigure(h, l) \/ Die(h) \/ Return(h) \/ UNCHANGED vars
        PROVE  UNCHANGED <<row, call>>
    BY <1>7 DEF Reconfigure, Die, Return, vars
  <1>8. CASE UNCHANGED vars
    BY <1>6, <1>8 DEF vars
  <1>9. ASSUME NEW h \in Hosts, Die(h) \/ Return(h) PROVE Inv'
    BY <1>6, <1>9 DEF Die, Return
  <1> QED
    BY <1>1, <1>2, <1>3, <1>4, <1>5, <1>6, <1>7, <1>8, <1>9 DEF Next, Serve

\* The registry with one call at a time satisfies the invariant.
THEOREM OneCallInvariance ==
    ASSUME \A v, w \in Workers : v = w
    PROVE  Spec => []Inv
  <1>1. Init => Inv
    BY LocatorRegistryAssumption
    DEF Init, Inv, TypeOK, Call, NoCall, SeenTheWay, EvictsForACall, Serving, NoOverlap, Registered
  <1>2. Inv /\ [Next]_vars => Inv'
    BY InvStep
  <1> QED  BY <1>1, <1>2, PTL DEF Spec

\* Rows, configurations and calls keep their types.
THEOREM OneCallTypeCorrect ==
    ASSUME \A v, w \in Workers : v = w
    PROVE  Spec => []TypeOK
  <1>1. Inv => TypeOK
    BY DEF Inv
  <1> QED  BY <1>1, OneCallInvariance, PTL

\* README.rst:27: as long as calls are handled one at a time, no two registered
\* nodes, and no node and fabric node, ever have overlapping locators.
THEOREM OneCallNoOverlap ==
    ASSUME \A v, w \in Workers : v = w
    PROVE  Spec => []NoOverlap
  <1>1. Inv => NoOverlap
    BY DEF Inv
  <1> QED  BY <1>1, OneCallInvariance, PTL
=============================================================================
