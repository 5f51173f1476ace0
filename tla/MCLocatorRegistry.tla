------------------------- MODULE MCLocatorRegistry --------------------------
(* Small instances of LocatorRegistry: three blocks, the last a fabric node's. *)
EXTENDS LocatorRegistry

\* Two disjoint locators, one that spans both, and one of the fabric.
SomeLocators == {{1}, {2}, {1, 2}, {3}}
Spine == {{3}}
=============================================================================
