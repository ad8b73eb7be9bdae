------------------------------ MODULE BoxQuota ------------------------------
(***************************************************************************)
(* What the per-owner cap promises: under every owner label there are      *)
(* never more than Bound boxes taken, a box is taken only while a place is *)
(* free, and places are given back in any order.                           *)
(***************************************************************************)
EXTENDS Integers, FiniteSets

CONSTANTS Labels, Names, Bound

VARIABLE used

Init == used = [l \in Labels |-> {}]

\* One box more under one label.
Reserve(l, n) ==
  /\ Cardinality(used[l]) < Bound
  /\ used' = [used EXCEPT ![l] = @ \cup {n}]

\* Boxes end, are deleted, or were never created after all.
Release ==
  /\ used' \in [Labels -> SUBSET Names]
  /\ \A l \in Labels : used'[l] \subseteq used[l]

Next == Release \/ \E l \in Labels, n \in Names : Reserve(l, n)

Spec == Init /\ [][Next]_used
=============================================================================
