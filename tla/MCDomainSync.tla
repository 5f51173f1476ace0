---------------------------- MODULE MCDomainSync ----------------------------
(* Small instances of DomainSync: the faults of each run, and symmetry. *)
EXTENDS DomainSync, TLC

AllFaults == Faults

\* All but what leaves a VRF, its ports or a record of it behind.
NothingKept == Faults \ {"vrf", "port", "list", "late"}

Symmetry == Permutations(Domains) \cup Permutations(Fids) \cup Permutations(Networks)
            \cup Permutations(Agents)
=============================================================================
