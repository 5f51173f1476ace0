------------------------------ MODULE SidCodec ------------------------------
(***************************************************************************)
(* SID arithmetic, common/sid.py: pure functions shared by the server and  *)
(* the agents.                                                             *)
(*                                                                         *)
(* A locator is its 32-bit block and its 16-bit node C-SID.  A SID is a    *)
(* block and the C-SIDs that follow it, the zero padding left out:         *)
(* fc00:0:3:e005:: is block fc00::, C-SIDs <<3, e005>>.  A C-SID container *)
(* has the same shape.                                                     *)
(***************************************************************************)
EXTENDS Integers, SequencesExt

CONSTANTS
    PerContainer,       \* C-SIDs a container holds: six for F3216
    GibMax,             \* the largest node C-SID; larger ones are the LIB's
    FunctionMax,        \* the largest function id a SID can carry
    NodeEnd             \* the function of a node's own End SID

ASSUME SidAssumption ==
    /\ PerContainer \in Nat /\ PerContainer >= 2
    /\ GibMax \in Nat \ {0} /\ FunctionMax \in Nat
    /\ NodeEnd \in GibMax + 1 .. FunctionMax

Unpackable == <<>>      \* stands for InvalidLocator: a container list is never empty

\* Only a locator with a node C-SID of the Global ID Block is usable.
UsidLocator(locator) == locator.node \in 1..GibMax

SidFor(locator, fid) == [block |-> locator.block, csids |-> <<locator.node, fid>>]
NodeSid(locator) == [block |-> locator.block, csids |-> <<locator.node>>]

\* The SID a waypoint is named by: its uN, or its End SID without compression.
TransitSid(locator, usid) == IF usid THEN NodeSid(locator) ELSE SidFor(locator, NodeEnd)

\* A zero C-SID would end the container it is in.
CarriesCsids(sid) ==
    /\ sid.csids # <<>>
    /\ 0 \notin ToSet(sid.csids)
    /\ Len(sid.csids) <= PerContainer

OneBlock(sids) == \A i \in DOMAIN sids : sids[i].block = sids[1].block

\* Mutant: containers are filled to the brim.
FillSplit(acc, sid) ==
    LET all == acc.last \o sid.csids
    IN  IF Len(all) > PerContainer
        THEN [full |-> Append(acc.full, SubSeq(all, 1, PerContainer)),
              last |-> SubSeq(all, PerContainer + 1, Len(all))]
        ELSE [acc EXCEPT !.last = all]

\* A SID's C-SIDs are never split: the container closes early instead.
Fill(acc, sid) ==
    IF Len(acc.last) + Len(sid.csids) > PerContainer
    THEN [full |-> Append(acc.full, acc.last), last |-> sid.csids]
    ELSE [acc EXCEPT !.last = @ \o sid.csids]

PackNextCsid(sids) ==
    IF sids = <<>> \/ ~OneBlock(sids) \/ (\E i \in DOMAIN sids : ~CarriesCsids(sids[i]))
    THEN Unpackable
    ELSE LET fill[i \in 0..Len(sids)] ==
                 IF i = 0 THEN [full |-> <<>>, last |-> <<>>] ELSE Fill(fill[i - 1], sids[i])
             acc == fill[Len(sids)]
             lists == Append(acc.full, acc.last)
         IN  [i \in DOMAIN lists |-> [block |-> sids[1].block, csids |-> lists[i]]]

\* What an ingress pushes: a list that cannot be packed stays as it is.
Encode(sids, usid) ==
    IF usid /\ PackNextCsid(sids) # Unpackable THEN PackNextCsid(sids) ELSE sids

\* The transit list without its leading occurrences of the ingress's own SID.
DropLeading(transit, own) ==
    LET others == {i \in DOMAIN transit : transit[i] # own}
    IN  IF others = {} THEN <<>>
        ELSE SubSeq(transit, CHOOSE i \in others : \A j \in others : i <= j, Len(transit))
=============================================================================
