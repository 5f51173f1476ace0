---------------------------- MODULE FunctionPool ----------------------------
(***************************************************************************)
(* What the server promises about SID function ids, with no transactions:  *)
(* a domain exists exactly as long as it holds one id, it keeps that id    *)
(* for life, and nobody else holds it meanwhile.  The VRF, the routing     *)
(* table and the decap SID of a domain are all derived from the id         *)
(* (common/sid.py), so sharing one would merge two tenants' tables.        *)
(* FunctionIds.tla is the implementation over the allocation table.        *)
(***************************************************************************)
CONSTANTS
    Domains,    \* the UUIDs domains may be given; never reused
    Fids,       \* the function ids a pool may ever hold
    NoFid       \* no id; not one of Fids

VARIABLES
    holds,      \* [Domains -> Fids, or NoFid while the domain does not exist]
    spent       \* the domains that existed and were deleted

poolVars == <<holds, spent>>

Held == {holds[d] : d \in Domains} \ {NoFid}

TypeOK ==
    /\ holds \in [Domains -> Fids \cup {NoFid}]
    /\ spent \subseteq Domains

Init ==
    /\ holds = [d \in Domains |-> NoFid]
    /\ spent = {}

Allocate(d) ==
    /\ holds[d] = NoFid
    /\ d \notin spent
    /\ \E f \in Fids \ Held : holds' = [holds EXCEPT ![d] = f]
    /\ UNCHANGED spent

Release(d) ==
    /\ holds[d] # NoFid
    /\ holds' = [holds EXCEPT ![d] = NoFid]
    /\ spent' = spent \cup {d}

Next == \E d \in Domains : Allocate(d) \/ Release(d)

Spec == Init /\ [][Next]_poolVars
=============================================================================
