-------------------------- MODULE FunctionIds_proofs ------------------------
(***************************************************************************)
(* The function id pool is sound for any number of ids, domains, workers   *)
(* and restarts, as long as every worker runs with the same ranges: the    *)
(* assumption under which no id is ever trimmed.  Without it HoldsOne      *)
(* fails: a worker that still has the old ranges trims a held id.          *)
(***************************************************************************)
EXTENDS FunctionIds, TLAPS

\* The table never holds an id outside the one configuration, so no
\* sync_allocation_pool ever decides to delete a row.
NothingTrimmed(c) ==
    /\ \A w \in Workers : config[w] = c /\ plan[w].del = {} /\ plan[w].add \subseteq c
    /\ Existing \subseteq c

\* A delete has read the id its domain was created with, and has told it.
Named ==
    /\ \A d \in Domains : dom[d] = "deleting" => doomed[d] = given[d]
    /\ TeardownNamed

\* An id is held only by the domain that was given it.
HeldAsGiven ==
    \A f \in Fids : row[f] \in Domains => row[f] \in Live /\ given[row[f]] = f

\* A live domain's id is in the table under its name.
GivenIsHeld == \A d \in Live : given[d] \in Fids /\ row[given[d]] = d

Inv(c) == TypeOK /\ NothingTrimmed(c) /\ HeldAsGiven /\ GivenIsHeld /\ Named

-----------------------------------------------------------------------------

\* HoldsOne is the two directions together.
LEMMA HoldsOneSplit ==
    ASSUME TypeOK, HeldAsGiven, GivenIsHeld
    PROVE  HoldsOne
  <1> USE FunctionIdsAssumption
  <1>1. ASSUME NEW d \in Domains, d \in Live PROVE IdsOf(d) = {given[d]}
    BY <1>1 DEF HeldAsGiven, GivenIsHeld, IdsOf
  <1>2. ASSUME NEW d \in Domains, d \notin Live PROVE IdsOf(d) = {}
    BY <1>2 DEF HeldAsGiven, IdsOf
  <1>3. ASSUME NEW d \in Live PROVE given[d] # NoFid
    BY <1>3 DEF GivenIsHeld
  <1> QED  BY <1>1, <1>2, <1>3 DEF HoldsOne

\* The delete of a live domain reads the id it was given.
LEMMA FidOfLive ==
    ASSUME TypeOK, HeldAsGiven, GivenIsHeld, NEW d \in Live
    PROVE  FidOf(d) = given[d]
  <1>1. d \in Domains
    BY DEF Live
  <1>2. IdsOf(d) = {given[d]}
    BY <1>1, HoldsOneSplit DEF HoldsOne
  <1> QED  BY <1>2 DEF FidOf

\* A synchronisation only ever inserts free rows.
LEMMA PoolStep ==
    ASSUME NEW c \in Configs, Configs = {c}, Inv(c), NEW w \in Workers,
           EnsurePoolRead(w) \/ EnsurePoolWrite(w) \/ EnsurePoolDuplicate(w) \/ Restart(w)
    PROVE  Inv(c)'
  <1> USE FunctionIdsAssumption
  <1>1. CASE EnsurePoolRead(w)
    <2>1. FreeIds \ config[w] = {} /\ config[w] = c /\ c \in SUBSET Fids
      BY DEF Inv, NothingTrimmed, FreeIds, Existing, TypeOK
    <2>2. plan' = [plan EXCEPT ![w] = [add |-> c \ Existing, del |-> {}, run |-> TRUE]]
      BY <1>1, <2>1 DEF EnsurePoolRead
    <2>3. TypeOK'
      BY <1>1, <2>1, <2>2 DEF EnsurePoolRead, Inv, TypeOK, Plan
    <2>4. NothingTrimmed(c)'
      BY <1>1, <2>1, <2>2 DEF EnsurePoolRead, Inv, NothingTrimmed, Existing, TypeOK
    <2> QED
      BY <1>1, <2>3, <2>4 DEF EnsurePoolRead, Inv, HeldAsGiven, GivenIsHeld, Named,
                              TeardownNamed, Live
  <1>2. CASE EnsurePoolWrite(w)
    <2>1. plan[w].del = {} /\ plan[w].add \subseteq c /\ c \in SUBSET Fids
      BY DEF Inv, NothingTrimmed, TypeOK
    <2>2. row' = [f \in Fids |-> IF f \in plan[w].add THEN Free ELSE row[f]]
      BY <1>2, <2>1 DEF EnsurePoolWrite
    <2>3. \A f \in plan[w].add : row[f] = Absent
      BY <1>2, <2>1 DEF EnsurePoolWrite, Existing
    <2>4. UNCHANGED <<dom, cand, doomed, told, config, restarts, given>>
      BY <1>2 DEF EnsurePoolWrite
    <2>5. TypeOK'
      BY <1>2, <2>2, <2>4 DEF EnsurePoolWrite, Inv, TypeOK, Plan, NoPlan
    <2>6. NothingTrimmed(c)'
      BY <1>2, <2>1, <2>2, <2>4 DEF EnsurePoolWrite, Inv, NothingTrimmed, Existing, TypeOK, NoPlan
    <2>7. HeldAsGiven' /\ GivenIsHeld'
      BY <2>2, <2>3, <2>4 DEF Inv, TypeOK, HeldAsGiven, GivenIsHeld, Live
    <2> QED
      BY <2>4, <2>5, <2>6, <2>7 DEF Inv, Named, TeardownNamed
  <1>3. CASE EnsurePoolDuplicate(w) \/ Restart(w)
    <2>1. plan' = [plan EXCEPT ![w] = NoPlan] /\ UNCHANGED <<row, dom, cand, doomed, told, given>>
      BY <1>3 DEF EnsurePoolDuplicate, Restart
    <2>2. config' = config
      BY <1>3 DEF EnsurePoolDuplicate, Restart, Inv, TypeOK, NothingTrimmed
    <2>3. TypeOK'
      <3>1. synced' \in [Workers -> BOOLEAN] /\ restarts' \in 0..MaxRestarts
        <4>1. CASE EnsurePoolDuplicate(w)
          BY <4>1 DEF EnsurePoolDuplicate, Inv, TypeOK
        <4>2. CASE Restart(w)
          BY <4>2 DEF Restart, Inv, TypeOK
        <4> QED  BY <1>3, <4>1, <4>2
      <3>2. plan' \in [Workers -> Plan]
        BY <2>1 DEF Inv, TypeOK, Plan, NoPlan
      <3> QED  BY <2>1, <2>2, <3>1, <3>2 DEF Inv, TypeOK
    <2>4. NothingTrimmed(c)'
      BY <2>1, <2>2 DEF Inv, NothingTrimmed, Existing, TypeOK, NoPlan
    <2> QED
      BY <2>1, <2>3, <2>4 DEF Inv, HeldAsGiven, GivenIsHeld, Named, TeardownNamed, Live
  <1> QED  BY <1>1, <1>2, <1>3

\* A create takes a free id or none; a delete frees the one it read and casts.
LEMMA DomainStep ==
    ASSUME NEW c \in Configs, Configs = {c}, Inv(c), NEW d \in Domains,
           \/ CreateBegin(d) \/ CreateClaim(d) \/ CreateMiss(d)
           \/ DeleteBegin(d) \/ DeleteCommit(d)
    PROVE  Inv(c)'
  <1> USE FunctionIdsAssumption
  <1>1. CASE CreateBegin(d) \/ CreateMiss(d)
    <2>1. /\ dom[d] \in {"new", "creating"}
          /\ dom' \in {[dom EXCEPT ![d] = l] : l \in {"creating", "refused"}}
          /\ UNCHANGED <<row, doomed, told, config, synced, plan, restarts, given>>
      BY <1>1 DEF CreateBegin, CreateMiss, Inv, TypeOK
    <2>2. cand' \in [Domains -> SUBSET Fids]
      BY <1>1 DEF CreateBegin, CreateMiss, Inv, TypeOK, FreeIds
    <2>3. Live' = Live
      BY <2>1 DEF Live, Inv, TypeOK
    <2>4. TypeOK'
      BY <2>1, <2>2 DEF Inv, TypeOK, Life
    <2>5. NothingTrimmed(c)' /\ HeldAsGiven' /\ GivenIsHeld'
      BY <2>1, <2>3 DEF Inv, NothingTrimmed, HeldAsGiven, GivenIsHeld, Existing
    <2>6. Named'
      BY <2>1 DEF Inv, TypeOK, Named, TeardownNamed
    <2> QED  BY <2>4, <2>5, <2>6 DEF Inv
  <1>2. CASE CreateClaim(d)
    <2>1. PICK f \in cand[d] : /\ row[f] = Free
                               /\ row' = [row EXCEPT ![f] = d]
                               /\ given' = [given EXCEPT ![d] = f]
      BY <1>2 DEF CreateClaim
    <2>2. /\ dom[d] = "creating" /\ f \in Fids
          /\ dom' = [dom EXCEPT ![d] = "live"]
          /\ cand' = [cand EXCEPT ![d] = {}]
          /\ UNCHANGED <<doomed, told, config, synced, plan, restarts>>
      BY <1>2 DEF CreateClaim, Inv, TypeOK
    <2>3. Live' = Live \cup {d} /\ d \notin Live
      BY <2>2 DEF Live, Inv, TypeOK
    <2>4. TypeOK'
      BY <2>1, <2>2 DEF Inv, TypeOK, Life
    <2>5. NothingTrimmed(c)'
      BY <2>1, <2>2 DEF Inv, TypeOK, NothingTrimmed, Existing
    <2>6. HeldAsGiven'
      <3>1. ASSUME NEW g \in Fids, row'[g] \in Domains, g # f
            PROVE  row'[g] \in Live' /\ given'[row'[g]] = g
        BY <2>1, <2>2, <2>3, <3>1 DEF Inv, TypeOK, HeldAsGiven
      <3>2. row'[f] = d /\ given'[d] = f
        BY <2>1, <2>2 DEF Inv, TypeOK
      <3> QED  BY <2>3, <3>1, <3>2 DEF HeldAsGiven
    <2>7. GivenIsHeld'
      <3>1. ASSUME NEW e \in Live PROVE given'[e] \in Fids /\ row'[given'[e]] = e
        BY <2>1, <2>2, <2>3 DEF Inv, TypeOK, GivenIsHeld, Live
      <3>2. given'[d] = f /\ row'[f] = d
        BY <2>1, <2>2 DEF Inv, TypeOK
      <3> QED  BY <2>2, <2>3, <3>1, <3>2 DEF GivenIsHeld
    <2>8. Named'
      BY <2>1, <2>2 DEF Inv, TypeOK, Named, TeardownNamed
    <2> QED  BY <2>4, <2>5, <2>6, <2>7, <2>8 DEF Inv
  <1>3. CASE DeleteBegin(d)
    <2>1. /\ dom[d] = "live" /\ d \in Live
          /\ dom' = [dom EXCEPT ![d] = "deleting"]
          /\ doomed' = [doomed EXCEPT ![d] = FidOf(d)]
          /\ UNCHANGED <<row, cand, told, config, synced, plan, restarts, given>>
      BY <1>3 DEF DeleteBegin, Live
    <2>2. FidOf(d) = given[d] /\ given[d] \in Fids
      BY <2>1, FidOfLive DEF Inv, GivenIsHeld
    <2>3. Live' = Live
      BY <2>1 DEF Live, Inv, TypeOK
    <2>4. TypeOK'
      BY <2>1, <2>2 DEF Inv, TypeOK, Life
    <2>5. NothingTrimmed(c)' /\ HeldAsGiven' /\ GivenIsHeld'
      BY <2>1, <2>3 DEF Inv, NothingTrimmed, HeldAsGiven, GivenIsHeld, Existing
    <2>6. Named'
      BY <2>1, <2>2 DEF Inv, TypeOK, Named, TeardownNamed
    <2> QED  BY <2>4, <2>5, <2>6 DEF Inv
  <1>4. CASE DeleteCommit(d)
    <2>1. /\ dom[d] = "deleting" /\ d \in Live
          /\ dom' = [dom EXCEPT ![d] = "gone"]
          /\ row' = [f \in Fids |-> IF row[f] = d THEN Free ELSE row[f]]
          /\ told' = told \cup ({d} \X ({doomed[d]} \ {NoFid}))
          /\ UNCHANGED <<cand, doomed, config, synced, plan, restarts, given>>
      BY <1>4 DEF DeleteCommit, Live
    <2>2. doomed[d] = given[d] /\ given[d] \in Fids
      BY <2>1 DEF Inv, Named, GivenIsHeld
    <2>3. Live' = Live \ {d}
      BY <2>1 DEF Live, Inv, TypeOK
    <2>4. told' = told \cup {<<d, given[d]>>}
      BY <2>1, <2>2
    <2>5. TypeOK'
      BY <2>1, <2>2, <2>4 DEF Inv, TypeOK, Life
    <2>6. NothingTrimmed(c)'
      BY <2>1 DEF Inv, TypeOK, NothingTrimmed, Existing
    <2>7. HeldAsGiven' /\ GivenIsHeld'
      BY <2>1, <2>3 DEF Inv, TypeOK, HeldAsGiven, GivenIsHeld, Live
    <2>8. Named'
      BY <2>1, <2>4 DEF Inv, TypeOK, Named, TeardownNamed
    <2> QED  BY <2>5, <2>6, <2>7, <2>8 DEF Inv
  <1> QED  BY <1>1, <1>2, <1>3, <1>4

\* The invariant, for a deployment whose servers all have the same ranges.
THEOREM PoolInvariance ==
    ASSUME NEW c \in Configs, Configs = {c}
    PROVE  Spec => []Inv(c)
  <1> USE FunctionIdsAssumption
  <1>1. Init => Inv(c)
    <2> SUFFICES ASSUME Init PROVE Inv(c)
      OBVIOUS
    <2>1. TypeOK
      BY DEF Init, TypeOK, Life, Plan, NoPlan
    <2>2. config \in [Workers -> {c}] /\ Existing = {}
      BY DEF Init, Existing
    <2>3. NothingTrimmed(c)
      BY <2>2 DEF Init, NothingTrimmed, NoPlan
    <2>4. HeldAsGiven /\ GivenIsHeld /\ Named
      BY DEF Init, HeldAsGiven, GivenIsHeld, Live, Named, TeardownNamed
    <2> QED  BY <2>1, <2>3, <2>4 DEF Inv
  <1>2. Inv(c) /\ [Next]_vars => Inv(c)'
    <2> SUFFICES ASSUME Inv(c), [Next]_vars PROVE Inv(c)'
      OBVIOUS
    <2>1. CASE UNCHANGED vars
      BY <2>1 DEF vars, Inv, TypeOK, NothingTrimmed, Existing, HeldAsGiven, GivenIsHeld,
                  Live, Named, TeardownNamed
    <2>2. CASE PoolNext
      BY <2>2, PoolStep DEF PoolNext
    <2>3. CASE DomainNext
      BY <2>3, DomainStep DEF DomainNext
    <2> QED  BY <2>1, <2>2, <2>3 DEF Next
  <1> QED  BY <1>1, <1>2, PTL DEF Spec

\* The table, the transactions and the casts keep their types: an id is held by
\* a domain, free or has no row, and no cast names a missing id.
THEOREM PoolTypeCorrect ==
    ASSUME NEW c \in Configs, Configs = {c}
    PROVE  Spec => []TypeOK
  <1>1. Inv(c) => TypeOK
    BY DEF Inv
  <1> QED  BY <1>1, PoolInvariance, PTL

\* Every domain row has exactly the id its create answered with, and no other
\* row does: no double allocation and no leak, however creates, deletes and
\* pool synchronisations interleave.
THEOREM PoolHoldsOne ==
    ASSUME NEW c \in Configs, Configs = {c}
    PROVE  Spec => []HoldsOne
  <1>1. Inv(c) => HoldsOne
    BY HoldsOneSplit DEF Inv
  <1> QED  BY <1>1, PoolInvariance, PTL

\* The domain_deleted cast of a deleted domain names the id it had.
THEOREM PoolTeardownNamed ==
    ASSUME NEW c \in Configs, Configs = {c}
    PROVE  Spec => []TeardownNamed
  <1>1. Inv(c) => TeardownNamed
    BY DEF Inv, Named
  <1> QED  BY <1>1, PoolInvariance, PTL

-----------------------------------------------------------------------------
(* The refinement                                                          *)

Holds == [d \in Domains |-> FidOf(d)]
Spent == {d \in Domains : dom[d] = "gone"}

\* What a domain holds, read off its life.
ByLife == \A d \in Domains : FidOf(d) = IF d \in Live THEN given[d] ELSE NoFid

\* In every state of the invariant that is what FidOf finds in the table,
LEMMA HoldsByLife ==
    ASSUME NEW c, Inv(c)
    PROVE  ByLife
  <1>1. \A d \in Domains : d \notin Live => IdsOf(d) = {}
    BY HoldsOneSplit DEF HoldsOne, Inv
  <1> QED  BY <1>1, FidOfLive DEF FidOf, ByLife, Inv

\* and so in the next one.
LEMMA HoldsByLifeNext ==
    ASSUME NEW c
    PROVE  Inv(c)' => ByLife'
  <1>1. Inv(c) => ByLife
    BY HoldsByLife
  <1> QED  BY <1>1, PTL

\* A step that leaves the lives and the ids given alone is one the abstract
\* pool does not see.
LEMMA Unseen ==
    ASSUME NEW c, Inv(c), Inv(c)', Live' = Live, Spent' = Spent,
           \A d \in Live : given'[d] = given[d]
    PROVE  UNCHANGED Pool!poolVars
  <1>1. ByLife
    BY HoldsByLife
  <1>2. ByLife'
    BY HoldsByLifeNext
  <1>3. Holds' = Holds
    BY <1>1, <1>2 DEF Holds, ByLife
  <1> QED  BY <1>3 DEF Holds, Spent, Pool!poolVars

\* A claim that matched is the abstract allocation of an id nobody holds.
LEMMA ClaimAllocates ==
    ASSUME NEW c, Inv(c), Inv(c)', NEW d \in Domains, CreateClaim(d)
    PROVE  Pool!Allocate(d)
  <1>1. PICK f \in cand[d] : /\ row[f] = Free
                             /\ row' = [row EXCEPT ![f] = d]
                             /\ given' = [given EXCEPT ![d] = f]
    BY DEF CreateClaim
  <1>2. f \in Fids /\ dom[d] = "creating" /\ dom' = [dom EXCEPT ![d] = "live"]
    BY DEF CreateClaim, Inv, TypeOK
  <1>3. d \notin Live /\ Live' = Live \cup {d} /\ Spent' = Spent /\ d \notin Spent
    BY <1>2 DEF Live, Spent, Inv, TypeOK
  <1>4. ByLife
    BY HoldsByLife
  <1>5. ByLife'
    BY HoldsByLifeNext
  <1>6. \A e \in Domains : FidOf(e) # f
    BY <1>1, <1>2, <1>4, FunctionIdsAssumption DEF Inv, GivenIsHeld, Live, ByLife
  <1>7. Holds' = [Holds EXCEPT ![d] = f]
    BY <1>1, <1>2, <1>3, <1>4, <1>5 DEF Holds, Inv, TypeOK, ByLife
  <1>8. Holds[d] = NoFid /\ f \in Fids \ {Holds[e] : e \in Domains}
    BY <1>2, <1>3, <1>4, <1>6 DEF Holds, ByLife
  <1> QED  BY <1>3, <1>7, <1>8 DEF Pool!Allocate, Pool!Held, Holds, Spent

\* A committed delete is the abstract release.
LEMMA CommitReleases ==
    ASSUME NEW c, Inv(c), Inv(c)', NEW d \in Domains, DeleteCommit(d)
    PROVE  Pool!Release(d)
  <1>1. /\ dom[d] = "deleting" /\ dom' = [dom EXCEPT ![d] = "gone"]
        /\ given' = given
    BY DEF DeleteCommit
  <1>2. d \in Live /\ Live' = Live \ {d} /\ Spent' = Spent \cup {d}
    BY <1>1 DEF Live, Spent, Inv, TypeOK
  <1>3. ByLife
    BY HoldsByLife
  <1>4. ByLife'
    BY HoldsByLifeNext
  <1>5. Holds' = [Holds EXCEPT ![d] = NoFid]
    BY <1>1, <1>2, <1>3, <1>4 DEF Holds, ByLife
  <1>6. Holds[d] # NoFid
    BY <1>2, <1>3, FunctionIdsAssumption DEF Holds, Inv, GivenIsHeld, ByLife
  <1> QED  BY <1>2, <1>5, <1>6 DEF Pool!Release, Holds, Spent

\* Every other step goes unseen.
LEMMA OthersUnseen ==
    ASSUME NEW c \in Configs, Configs = {c}, Inv(c), Inv(c)',
           \/ UNCHANGED vars
           \/ PoolNext
           \/ \E d \in Domains : CreateBegin(d) \/ CreateMiss(d) \/ DeleteBegin(d)
    PROVE  UNCHANGED Pool!poolVars
  <1>1. given' = given
    BY DEF vars, PoolNext, EnsurePoolRead, EnsurePoolWrite, EnsurePoolDuplicate, Restart,
           CreateBegin, CreateMiss, DeleteBegin
  <1>2. CASE dom' = dom
    BY <1>1, <1>2, Unseen DEF Live, Spent
  <1>3. ASSUME NEW d \in Domains, CreateBegin(d) \/ CreateMiss(d) \/ DeleteBegin(d)
        PROVE  Live' = Live /\ Spent' = Spent
    <2>1. CASE CreateBegin(d)
      BY <2>1 DEF CreateBegin, Live, Spent, Inv, TypeOK
    <2>2. CASE CreateMiss(d)
      BY <2>2 DEF CreateMiss, Live, Spent, Inv, TypeOK
    <2>3. CASE DeleteBegin(d)
      BY <2>3 DEF DeleteBegin, Live, Spent, Inv, TypeOK
    <2> QED  BY <1>3, <2>1, <2>2, <2>3
  <1>4. CASE UNCHANGED vars \/ PoolNext
    BY <1>2, <1>4 DEF vars, PoolNext, EnsurePoolRead, EnsurePoolWrite, EnsurePoolDuplicate,
                      Restart
  <1> QED  BY <1>1, <1>3, <1>4, Unseen

\* The allocation table, its unlocked reads and its races implement the pool
\* that hands every domain one id of its own for life.
THEOREM PoolRefinement ==
    ASSUME NEW c \in Configs, Configs = {c}
    PROVE  Spec => ImplementsPool
  <1>1. Init => Pool!Init
    <2> SUFFICES ASSUME Init PROVE Pool!Init
      OBVIOUS
    <2>1. \A d \in Domains : FidOf(d) = NoFid
      BY FunctionIdsAssumption DEF Init, FidOf, IdsOf
    <2> QED  BY <2>1 DEF Init, Pool!Init
  <1>2. Inv(c) /\ Inv(c)' /\ [Next]_vars => [Pool!Next]_(Pool!poolVars)
    <2> SUFFICES ASSUME Inv(c), Inv(c)', [Next]_vars PROVE [Pool!Next]_(Pool!poolVars)
      OBVIOUS
    <2>1. CASE \E d \in Domains : CreateClaim(d)
      BY <2>1, ClaimAllocates DEF Pool!Next
    <2>2. CASE \E d \in Domains : DeleteCommit(d)
      BY <2>2, CommitReleases DEF Pool!Next
    <2>3. CASE \/ UNCHANGED vars
               \/ PoolNext
               \/ \E d \in Domains : CreateBegin(d) \/ CreateMiss(d) \/ DeleteBegin(d)
      BY <2>3, OthersUnseen
    <2> QED  BY <2>1, <2>2, <2>3 DEF Next, DomainNext
  <1> QED  BY <1>1, <1>2, PoolInvariance, PTL DEF Spec, ImplementsPool, Pool!Spec
=============================================================================
