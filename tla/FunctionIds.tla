---------------------------- MODULE FunctionIds -----------------------------
(***************************************************************************)
(* The function id pool: the table srv6_function_allocations and the three *)
(* operations that write it from several API and RPC workers at once.      *)
(*                                                                         *)
(*   _ensure_pool / sync_allocation_pool   populate or trim the table      *)
(*   create_srv6_domain                    insert a domain, claim an id    *)
(*   delete_srv6_domain                    delete it, free the id, cast    *)
(*                                                                         *)
(* A transaction is the steps at which another one can be observed: what   *)
(* it reads is one action, what it commits is another.  An UPDATE or a     *)
(* DELETE acts on the row as committed then, not on the row that was read. *)
(***************************************************************************)
EXTENDS FiniteSets, Naturals

CONSTANTS
    Domains, Fids, NoFid,
    Workers,        \* server processes, each with its own _pool_synced flag
    Configs,        \* the values [srv6] function_id_ranges may take
    Absent,         \* no row for this id in the table
    Free,           \* a row whose domain_id is NULL
    MaxRestarts     \* bound on server restarts

ASSUME FunctionIdsAssumption ==
    /\ NoFid \notin Fids
    /\ Absent \notin Domains /\ Free \notin Domains /\ Absent # Free
    /\ Configs \subseteq SUBSET Fids
    /\ MaxRestarts \in Nat

VARIABLES
    row,        \* [Fids -> Absent, Free, or the domain holding the id]
    dom,        \* [Domains -> its life: see Life]
    cand,       \* [Domains -> ids its create transaction read as free and has not tried]
    doomed,     \* [Domains -> the id its delete read before its transaction]
    told,       \* the domain_deleted casts: <<domain, id>> pairs
    config,     \* [Workers -> the ranges it was started with]
    synced,     \* [Workers -> BOOLEAN], Srv6Plugin._pool_synced
    plan,       \* [Workers -> what its running sync_allocation_pool decided]
    restarts,   \* restarts so far
    given       \* history: [Domains -> the id create_srv6_domain answered with]

vars == <<row, dom, cand, doomed, told, config, synced, plan, restarts, given>>

Life == {"new", "creating", "refused", "live", "deleting", "gone"}
NoPlan == [add |-> {}, del |-> {}, run |-> FALSE]
Plan == [add : SUBSET Fids, del : SUBSET Fids, run : BOOLEAN]

\* The domain row exists.  A domain being created is in an open transaction.
Live == {d \in Domains : dom[d] \in {"live", "deleting"}}
Existing == {f \in Fids : row[f] # Absent}
FreeIds == {f \in Fids : row[f] = Free}
\* The relation get_function_id reads; the column is unique.
IdsOf(d) == {f \in Fids : row[f] = d}
FidOf(d) == IF IdsOf(d) = {} THEN NoFid ELSE CHOOSE f \in IdsOf(d) : TRUE

TypeOK ==
    /\ row \in [Fids -> Domains \cup {Absent, Free}]
    /\ dom \in [Domains -> Life]
    /\ cand \in [Domains -> SUBSET Fids]
    /\ doomed \in [Domains -> Fids \cup {NoFid}]
    /\ told \subseteq Domains \X Fids
    /\ config \in [Workers -> SUBSET Fids]
    /\ synced \in [Workers -> BOOLEAN]
    /\ plan \in [Workers -> Plan]
    /\ restarts \in 0..MaxRestarts
    /\ given \in [Domains -> Fids \cup {NoFid}]

Init ==
    /\ row = [f \in Fids |-> Absent]
    /\ dom = [d \in Domains |-> "new"]
    /\ cand = [d \in Domains |-> {}]
    /\ doomed = [d \in Domains |-> NoFid]
    /\ told = {}
    /\ config \in [Workers -> Configs]
    /\ synced = [w \in Workers |-> FALSE]
    /\ plan = [w \in Workers |-> NoPlan]
    /\ restarts = 0
    /\ given = [d \in Domains |-> NoFid]

-----------------------------------------------------------------------------
(* The pool                                                                *)

\* The SELECT of sync_allocation_pool, and what it decides from it: insert
\* the configured ids that have no row, delete the free ones that left.
EnsurePoolRead(w) ==
    /\ ~synced[w] /\ ~plan[w].run
    /\ plan' = [plan EXCEPT ![w] = [add |-> config[w] \ Existing,
                                    del |-> FreeIds \ config[w],
                                    run |-> TRUE]]
    /\ UNCHANGED <<row, dom, cand, doomed, told, config, synced, restarts, given>>

\* Its INSERTs and DELETEs, committed.  A DELETE names the row by its primary
\* key alone, so it removes the row whoever holds it by now.
EnsurePoolWrite(w) ==
    /\ plan[w].run
    /\ plan[w].add \cap Existing = {}
    /\ row' = [f \in Fids |-> IF f \in plan[w].add THEN Free
                              ELSE IF f \in plan[w].del THEN Absent
                              ELSE row[f]]
    /\ synced' = [synced EXCEPT ![w] = TRUE]
    /\ plan' = [plan EXCEPT ![w] = NoPlan]
    /\ UNCHANGED <<dom, cand, doomed, told, config, restarts, given>>

\* Mutant: the duplicate is not retried, the worker keeps its stale plan.
EnsurePoolDuplicateStuck(w) ==
    /\ plan[w].run
    /\ plan[w].add \cap Existing # {}
    /\ UNCHANGED vars

\* DBDuplicateEntry: another worker inserted one of them first.  The whole
\* transaction is rolled back and _ensure_pool reads again.
EnsurePoolDuplicate(w) ==
    /\ plan[w].run
    /\ plan[w].add \cap Existing # {}
    /\ plan' = [plan EXCEPT ![w] = NoPlan]
    /\ UNCHANGED <<row, dom, cand, doomed, told, config, synced, restarts, given>>

\* A worker restarts, possibly with other ranges in its configuration.
Restart(w) ==
    /\ restarts < MaxRestarts
    /\ restarts' = restarts + 1
    /\ config' \in {[config EXCEPT ![w] = c] : c \in Configs}
    /\ synced' = [synced EXCEPT ![w] = FALSE]
    /\ plan' = [plan EXCEPT ![w] = NoPlan]
    /\ UNCHANGED <<row, dom, cand, doomed, told, given>>

-----------------------------------------------------------------------------
(* create_srv6_domain: one transaction for the row and the id              *)

\* Opens the transaction, inserts the domain and reads the free ids.
CreateBegin(d) ==
    /\ dom[d] = "new"
    /\ \E w \in Workers : synced[w]
    /\ cand' = [cand EXCEPT ![d] = FreeIds]
    /\ dom' = [dom EXCEPT ![d] = IF FreeIds = {} THEN "refused" ELSE "creating"]
    /\ UNCHANGED <<row, doomed, told, config, synced, plan, restarts, given>>

\* Mutant: the UPDATE has no domain_id IS NULL in its WHERE clause.
CreateClaimNoCas(d) ==
    /\ dom[d] = "creating"
    /\ \E f \in cand[d] :
         /\ row' = [row EXCEPT ![f] = d]
         /\ given' = [given EXCEPT ![d] = f]
    /\ dom' = [dom EXCEPT ![d] = "live"]
    /\ cand' = [cand EXCEPT ![d] = {}]
    /\ UNCHANGED <<doomed, told, config, synced, plan, restarts>>

\* The compare-and-swap succeeds: UPDATE ... WHERE domain_id IS NULL matched,
\* and the transaction commits the domain and the id together.
CreateClaim(d) ==
    /\ dom[d] = "creating"
    /\ \E f \in cand[d] :
         /\ row[f] = Free
         /\ row' = [row EXCEPT ![f] = d]
         /\ given' = [given EXCEPT ![d] = f]
    /\ dom' = [dom EXCEPT ![d] = "live"]
    /\ cand' = [cand EXCEPT ![d] = {}]
    /\ UNCHANGED <<doomed, told, config, synced, plan, restarts>>

\* Mutant: the same candidate is tried again for ever.
CreateMissAgain(d) ==
    /\ dom[d] = "creating"
    /\ \E f \in cand[d] : row[f] # Free
    /\ UNCHANGED vars

\* It matched no row: try the next candidate, or fail with
\* NoFunctionIdAvailable and roll the domain back.
CreateMiss(d) ==
    /\ dom[d] = "creating"
    /\ \E f \in cand[d] :
         /\ row[f] # Free
         /\ cand' = [cand EXCEPT ![d] = @ \ {f}]
         /\ dom' = [dom EXCEPT ![d] = IF cand[d] = {f} THEN "refused" ELSE @]
    /\ UNCHANGED <<row, doomed, told, config, synced, plan, restarts, given>>

-----------------------------------------------------------------------------
(* delete_srv6_domain                                                      *)

\* Reads the id before the transaction: afterwards nothing names it.
DeleteBegin(d) ==
    /\ dom[d] = "live"
    /\ doomed' = [doomed EXCEPT ![d] = FidOf(d)]
    /\ dom' = [dom EXCEPT ![d] = "deleting"]
    /\ UNCHANGED <<row, cand, told, config, synced, plan, restarts, given>>

\* Mutant: the id is read after the commit, when nothing names it any more.
DeleteCommitReadsAfter(d) ==
    /\ dom[d] = "deleting"
    /\ dom' = [dom EXCEPT ![d] = "gone"]
    /\ row' = [f \in Fids |-> IF row[f] = d THEN Free ELSE row[f]]
    /\ told' = told \cup ({d} \X {f \in Fids : row'[f] = d})
    /\ UNCHANGED <<cand, doomed, config, synced, plan, restarts, given>>

\* Mutant: the same, and the missing id is cast as None.
DeleteCommitCastsNone(d) ==
    /\ dom[d] = "deleting"
    /\ dom' = [dom EXCEPT ![d] = "gone"]
    /\ row' = [f \in Fids |-> IF row[f] = d THEN Free ELSE row[f]]
    /\ told' = told \cup {<<d, NoFid>>}
    /\ UNCHANGED <<cand, doomed, config, synced, plan, restarts, given>>

\* Mutant: the domain goes, its id is never released.
DeleteCommitLeaks(d) ==
    /\ dom[d] = "deleting"
    /\ dom' = [dom EXCEPT ![d] = "gone"]
    /\ told' = told \cup ({d} \X ({doomed[d]} \ {NoFid}))
    /\ UNCHANGED <<row, cand, doomed, config, synced, plan, restarts, given>>

\* Deletes the row, frees the id (release_function_id, and ON DELETE SET NULL
\* under it), commits, then casts domain_deleted if an id was read.
DeleteCommit(d) ==
    /\ dom[d] = "deleting"
    /\ dom' = [dom EXCEPT ![d] = "gone"]
    /\ row' = [f \in Fids |-> IF row[f] = d THEN Free ELSE row[f]]
    /\ told' = told \cup ({d} \X ({doomed[d]} \ {NoFid}))
    /\ UNCHANGED <<cand, doomed, config, synced, plan, restarts, given>>

-----------------------------------------------------------------------------
PoolNext == \E w \in Workers :
    EnsurePoolRead(w) \/ EnsurePoolWrite(w) \/ EnsurePoolDuplicate(w) \/ Restart(w)

DomainNext == \E d \in Domains :
    \/ CreateBegin(d) \/ CreateClaim(d) \/ CreateMiss(d)
    \/ DeleteBegin(d) \/ DeleteCommit(d)

Next == PoolNext \/ DomainNext

Spec == Init /\ [][Next]_vars

\* Every worker's pool synchronisation and every open request makes progress.
Fairness ==
    /\ \A w \in Workers : WF_vars(EnsurePoolRead(w) \/ EnsurePoolWrite(w)
                                  \/ EnsurePoolDuplicate(w))
    /\ \A d \in Domains : WF_vars(CreateClaim(d) \/ CreateMiss(d) \/ DeleteCommit(d))

FairSpec == Spec /\ Fairness

-----------------------------------------------------------------------------
(* Properties                                                              *)

\* A domain row exists exactly with one id of the pool, the one its create
\* answered with, and ids of no domain are free: no double allocation, no
\* domain without an id after an exhausted pool, no leaked id.
HoldsOne ==
    /\ \A d \in Domains : IdsOf(d) = IF d \in Live THEN {given[d]} ELSE {}
    /\ \A d \in Live : given[d] # NoFid

\* The domain_deleted cast names the id the domain was created with, so the
\* agents can name the VRF, the table and the SID they have to remove.
TeardownNamed ==
    \A d \in Domains : dom[d] = "gone" => <<d, given[d]>> \in told

\* The pool is populated however many workers start at once, and an accepted
\* create ends, with an id or with an error.
PoolGetsReady == \A w \in Workers : []<>synced[w]
CreateEnds == \A d \in Domains : dom[d] = "creating" ~> dom[d] # "creating"

\* The allocation table implements the abstract pool: rows are the ids held.
Pool == INSTANCE FunctionPool WITH
    holds <- [d \in Domains |-> FidOf(d)],
    spent <- {d \in Domains : dom[d] = "gone"}
ImplementsPool == Pool!Spec
=============================================================================
